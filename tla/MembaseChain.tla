---------------------------- MODULE MembaseChain -----------------------------
(* The client of the registry contract (membase/chain/chain.py): the choice *)
(* of an RPC node and its periodic check, and the operations on agents and  *)
(* tasks, each a check of the contract followed by a transaction.           *)
(*                                                                          *)
(* The contract is not in the repository; its functions are modelled by     *)
(* what the client checks before it calls them.                             *)
EXTENDS Naturals, Sequences, FiniteSets

CONSTANTS
    Clients,        \* the clients, each with a wallet of its own
    Nodes,          \* the RPC nodes, the one given at the start first
    Agents,         \* agent ids
    TaskIds,
    Nobody,         \* ADDRESS_ZERO
    MaxChanges,     \* bound: nodes that go down or come back
    MaxSent         \* bound: transactions

Contract ==
    [agent : [Agents -> Clients \cup {Nobody}],
     task : [TaskIds -> [owner : Clients \cup {Nobody}, fin : BOOLEAN]],
     granted : SUBSET ((TaskIds \cup Agents) \X Agents)]

Operations ==
    [op : {"register"}, id : Agents, for : {Nobody}]
      \cup [op : {"createTask"}, id : TaskIds, for : {Nobody}]
      \cup [op : {"joinTask", "finishTask"}, id : TaskIds, for : Agents]
      \cup [op : {"buy"}, id : Agents, for : Agents]

(* state, the contract; before, the contract at the end of the last block  *)
(* but one; up, the nodes that answer; node, current_rpc of each client, 0 *)
(* before it has one; bound, the node its contract object was made with;   *)
(* call, what each client does; changes and sent, what the bounds count.   *)
VARIABLE ledger

Idle == [at |-> "idle"]

Is(c, at) == ledger.call[c].at = at

TypeOK ==
    /\ ledger.state \in Contract /\ ledger.before \in Contract
    /\ ledger.up \subseteq DOMAIN Nodes
    /\ \A c \in Clients :
         /\ ledger.node[c] \in 0..Len(Nodes) /\ ledger.bound[c] \in 0..Len(Nodes)
         /\ ledger.call[c].at \in {"idle", "send", "done", "raised"}

Empty ==
    [agent |-> [a \in Agents |-> Nobody],
     task |-> [t \in TaskIds |-> [owner |-> Nobody, fin |-> FALSE]],
     granted |-> {}]

Init ==
    ledger = [state |-> Empty, before |-> Empty, up |-> DOMAIN Nodes,
              node |-> [c \in Clients |-> 0], bound |-> [c \in Clients |-> 0],
              call |-> [c \in Clients |-> Idle], changes |-> 0, sent |-> 0]

-----------------------------------------------------------------------------
(* The nodes.                                                              *)

(* _check_and_switch_rpc: stay while the node answers, else the first that *)
(* answers of the others, else stay.  At the start, the one given is       *)
(* current, and is not tried.                                              *)
Switched(now, up) ==
    LET others == {n \in up : n # now} IN
    IF now \in up \/ others = {} THEN now
    ELSE CHOOSE n \in others : \A m \in others : n <= m

AtStart(up) == IF up \ {1} = {} THEN 0 ELSE Switched(0, up \ {1})

(* __init__, which raises when no other node answers.                      *)
Connect(c) ==
    /\ ledger.node[c] = 0
    /\ AtStart(ledger.up) # 0
    /\ ledger' = [ledger EXCEPT !.node[c] = AtStart(ledger.up),
                                !.bound[c] = AtStart(ledger.up)]

(* The periodic check, and sign_message and valid_signature, which check   *)
(* first.                                                                  *)
Check(c) ==
    /\ ledger.node[c] # 0
    /\ ledger' = [ledger EXCEPT !.node[c] = Switched(@, ledger.up)]

(* A node goes down or comes back.                                         *)
NodeChanges ==
    /\ ledger.changes < MaxChanges
    /\ \E n \in DOMAIN Nodes :
         ledger' = [ledger EXCEPT !.changes = @ + 1,
                       !.up = IF n \in @ THEN @ \ {n} ELSE @ \cup {n}]

-----------------------------------------------------------------------------
(* The contract.                                                           *)

Reverts(s, c, o) ==
    CASE o.op = "register" -> s.agent[o.id] # Nobody
      [] o.op = "createTask" -> s.task[o.id].owner # Nobody
      [] o.op \in {"joinTask", "finishTask"} ->
           s.task[o.id].owner = Nobody \/ s.task[o.id].fin
      [] o.op = "buy" -> FALSE

Effect(s, c, o) ==
    CASE o.op = "register" -> [s EXCEPT !.agent[o.id] = c]
      [] o.op = "createTask" -> [s EXCEPT !.task[o.id] = [owner |-> c, fin |-> FALSE]]
      [] o.op \in {"joinTask", "buy"} -> [s EXCEPT !.granted = @ \cup {<<o.id, o.for>>}]
      [] o.op = "finishTask" -> [s EXCEPT !.task[o.id].fin = TRUE]

(* What the operations find before they send: it is done, or it cannot be. *)
AlreadyDone(s, c, o) ==
    CASE o.op = "register" -> s.agent[o.id] = c
      [] o.op = "createTask" -> s.task[o.id].owner = c
      [] o.op \in {"joinTask", "buy"} -> <<o.id, o.for>> \in s.granted
      [] o.op = "finishTask" -> FALSE

Refused(s, c, o) ==
    CASE o.op = "register" -> s.agent[o.id] \notin {c, Nobody}
      [] o.op = "createTask" -> s.task[o.id].owner \notin {c, Nobody}
      [] o.op = "joinTask" -> <<o.id, o.for>> \notin s.granted /\ s.task[o.id].fin
      [] o.op = "finishTask" -> s.task[o.id].fin
      [] o.op = "buy" -> FALSE

(* has_auth: granted, or the task is of the wallet that has the agent; no  *)
(* task means no.                                                          *)
HasAuth(s, id, a) ==
    \/ <<id, a>> \in s.granted
    \/ id \in TaskIds /\ s.task[id].owner # Nobody /\ s.task[id].owner = s.agent[a]

-----------------------------------------------------------------------------
Ended(c, at, o, sent, same) ==
    [ledger EXCEPT !.call[c] = [at |-> at, o |-> o, sent |-> sent, same |-> same]]

Free(c) == ledger.node[c] # 0 /\ ledger.call[c].at \in {"idle", "done", "raised"}

(* register, createTask, joinTask, finishTask and buy, up to the check.    *)
(* The contract is read at the node it was made with, the nonce and the    *)
(* gas price at the current one, before that one is checked.               *)
Begin(c) ==
    /\ Free(c)
    /\ \E o \in Operations :
         LET s == ledger.state IN
         ledger' =
           IF ledger.bound[c] \notin ledger.up THEN Ended(c, "raised", o, FALSE, FALSE)
           ELSE IF AlreadyDone(s, c, o) THEN Ended(c, "done", o, FALSE, FALSE)
           ELSE IF Refused(s, c, o) \/ ledger.node[c] \notin ledger.up
           THEN Ended(c, "raised", o, FALSE, FALSE)
           ELSE [ledger EXCEPT !.call[c] = [at |-> "send", o |-> o]]

CauseIgnored(c, o, before) == "done"

(* After a failed transaction the call is repeated on the state before its *)
(* block, to learn the reason; if that does not fail, None is returned.    *)
DisplayCause(c, o, before) == IF Reverts(before, c, o) THEN "raised" ELSE "done"

(* _build_and_send_tx, mined in the block of the transaction before it or  *)
(* in one of its own.  A failed one is replayed.                           *)
Send(c) ==
    /\ Is(c, "send") /\ ledger.sent < MaxSent
    /\ LET o == ledger.call[c].o
           node == Switched(ledger.node[c], ledger.up) IN
       IF node \notin ledger.up \/ ledger.bound[c] \notin ledger.up
       THEN ledger' = [Ended(c, "raised", o, FALSE, FALSE) EXCEPT !.node[c] = node]
       ELSE \E same \in BOOLEAN :
              LET before == IF same THEN ledger.before ELSE ledger.state
                  fails == Reverts(ledger.state, c, o) IN
              ledger' =
                [Ended(c, IF fails THEN DisplayCause(c, o, before) ELSE "done", o, ~fails, same)
                   EXCEPT !.node[c] = node, !.sent = @ + 1, !.before = before,
                          !.state = IF fails THEN @ ELSE Effect(@, c, o)]

Next ==
    \/ \E c \in Clients : Connect(c) \/ Check(c) \/ Begin(c) \/ Send(c)
    \/ NodeChanges

Spec == Init /\ [][Next]_ledger

-----------------------------------------------------------------------------
(* An operation that returns has taken effect, by this call or by an       *)
(* earlier one, whoever else called meanwhile; the exception is a          *)
(* transaction that lost to another one in its own block, whose replay     *)
(* does not fail (_display_cause, lines 252-267).                          *)
ReturnMeansDone ==
    \A c \in Clients : Is(c, "done") =>
        LET o == ledger.call[c].o IN
        \/ ledger.call[c].same /\ ~ledger.call[c].sent
        \/ CASE o.op = "register" -> ledger.state.agent[o.id] = c
             [] o.op = "createTask" -> ledger.state.task[o.id].owner = c
             [] o.op = "finishTask" -> ledger.state.task[o.id].fin
             [] o.op \in {"joinTask", "buy"} -> HasAuth(ledger.state, o.id, o.for)
=============================================================================
