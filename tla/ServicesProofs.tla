--------------------------- MODULE ServicesProofs ---------------------------
(***************************************************************************)
(* Proofs about the services an agent uses, for any number of tools,       *)
(* conversations, wallets, transactions, documents and clients.            *)
(***************************************************************************)
EXTENDS MCServices, Integers, FiniteSetTheorems, SequenceTheorems, WellFoundedInduction, TLAPS

-----------------------------------------------------------------------------
(* Induction over the natural numbers, and functions defined along them.   *)

(* A set of natural numbers has a least element. *)
LEMMA LeastNat ==
  ASSUME NEW T, T \subseteq Nat, T # {}
  PROVE  \E m \in T : \A k \in T : m <= k
<1>1. IsWellFoundedOn({ss \in Nat \X Nat : ss[1] < ss[2]}, Nat)
  BY NatLessThanWellFounded DEF OpToRel
<1>2. PICK m \in T : \A y \in T : ~ (<<y, m>> \in {ss \in Nat \X Nat : ss[1] < ss[2]})
  BY <1>1, WFMin
<1>3. ASSUME NEW y \in T
      PROVE  m <= y
  <2>1. y \in Nat /\ m \in Nat
    OBVIOUS
  <2>2. ~(y < m)
    BY <1>2, <2>1
  <2> QED BY <2>1, <2>2
<1> QED BY <1>3

(* Induction up to a bound, over a set. *)
LEMMA Steps ==
  ASSUME NEW N \in Nat, NEW T, 0 \in T, \A k \in 0..N : k \in T /\ k < N => k + 1 \in T
  PROVE  0..N \subseteq T
<1> DEFINE Out == {k \in 0..N : k \notin T}
<1> SUFFICES ASSUME Out # {}
             PROVE  FALSE
  OBVIOUS
<1>1. Out \subseteq Nat
  OBVIOUS
<1>2. PICK m \in Out : \A k \in Out : m <= k
  BY <1>1, LeastNat
<1>3. m \in 0..N /\ m # 0 /\ m \notin T
  OBVIOUS
<1>4. m - 1 \in 0..N /\ m - 1 < m /\ (m - 1) + 1 = m /\ m - 1 < N
  BY <1>3
<1>5. m - 1 \in T
  BY <1>2, <1>4
<1> QED BY <1>3, <1>4, <1>5
-----------------------------------------------------------------------------
(* The registry chain.                                                     *)

(* What a client does, with what it has found. *)
ChainCall ==
  {Chain!Idle} \cup [at : {"send"}, o : Chain!Operations]
    \cup [at : {"done", "raised"}, o : Chain!Operations, sent : BOOLEAN, same : BOOLEAN]

Ledger ==
  [state : Chain!Contract, before : Chain!Contract, up : SUBSET (DOMAIN Nodes),
   node : [Clients -> 0..Len(Nodes)], bound : [Clients -> 0..Len(Nodes)],
   call : [Clients -> ChainCall], changes : Nat, sent : Nat]

(* A finished task has an owner. *)
Owned(s) == \A t \in TaskIds : s.task[t].fin => s.task[t].owner # Nobody

(* What an operation is for is there. *)
Holds(s, c, o) ==
  /\ o.op = "register" => s.agent[o.id] = c
  /\ o.op = "createTask" => s.task[o.id].owner = c
  /\ o.op = "finishTask" => s.task[o.id].fin
  /\ o.op \in {"joinTask", "buy"} => <<o.id, o.for>> \in s.granted

(* The contract forgets nothing from s to e. *)
Remembers(s, e) ==
  /\ \A a \in Agents : s.agent[a] # Nobody => e.agent[a] = s.agent[a]
  /\ \A t \in TaskIds : /\ s.task[t].owner # Nobody => e.task[t].owner = s.task[t].owner
                        /\ s.task[t].fin => e.task[t].fin
  /\ s.granted \subseteq e.granted

(* What has returned is done, unless its transaction lost in its block. *)
Returned(l) ==
  \A c \in Clients : l.call[c].at = "done" =>
    (l.call[c].same /\ ~l.call[c].sent) \/ Holds(l.state, c, l.call[c].o)

ChainInv(l) == l \in Ledger /\ Owned(l.state) /\ Returned(l)

LEMMA OperationIs ==
  ASSUME NEW o \in Chain!Operations
  PROVE  /\ o.op \in {"register", "createTask", "joinTask", "finishTask", "buy"}
         /\ o.op \in {"register", "buy"} => o.id \in Agents
         /\ o.op \in {"createTask", "joinTask", "finishTask"} => o.id \in TaskIds
         /\ o.op \in {"joinTask", "buy"} => o.for \in Agents
  BY DEF Chain!Operations

LEMMA EffectIs ==
  ASSUME NEW s \in Chain!Contract, Owned(s), NEW c \in Clients, NEW o \in Chain!Operations,
         ~Chain!Reverts(s, c, o)
  PROVE  LET e == Chain!Effect(s, c, o)
         IN  e \in Chain!Contract /\ Owned(e) /\ Remembers(s, e) /\ Holds(e, c, o)
<1> USE ChainAssumption
<1>1. CASE o.op = "register"
  BY <1>1, OperationIs
  DEF Chain!Effect, Chain!Reverts, Chain!Contract, Owned, Remembers, Holds
<1>2. CASE o.op = "createTask"
  BY <1>2, OperationIs
  DEF Chain!Effect, Chain!Reverts, Chain!Contract, Owned, Remembers, Holds
<1>3. CASE o.op \in {"joinTask", "buy"}
  BY <1>3, OperationIs
  DEF Chain!Effect, Chain!Reverts, Chain!Contract, Owned, Remembers, Holds
<1>4. CASE o.op = "finishTask"
  BY <1>4, OperationIs
  DEF Chain!Effect, Chain!Reverts, Chain!Contract, Owned, Remembers, Holds
<1> QED BY <1>1, <1>2, <1>3, <1>4, OperationIs

LEMMA HoldsOn ==
  ASSUME NEW s \in Chain!Contract, NEW e \in Chain!Contract, Remembers(s, e),
         NEW c \in Clients, NEW o \in Chain!Operations, Holds(s, c, o)
  PROVE  Holds(e, c, o)
  BY ChainAssumption, OperationIs DEF Holds, Remembers

LEMMA SwitchedIs ==
  ASSUME NEW up, up \subseteq DOMAIN Nodes, NEW now \in 0..Len(Nodes)
  PROVE  Chain!Switched(now, up) \in 0..Len(Nodes)
<1> DEFINE others == {n \in up : n # now}
<1>1. CASE now \in up \/ others = {}
  BY <1>1 DEF Chain!Switched
<1>2. CASE ~(now \in up \/ others = {})
  <2>1. others \subseteq Nat /\ others \subseteq 0..Len(Nodes) /\ others # {}
    BY <1>2, ChainAssumption
  <2>2. \E n \in others : \A m \in others : n <= m
    BY <2>1, LeastNat
  <2>3. Chain!Switched(now, up) = CHOOSE n \in others : \A m \in others : n <= m
    BY <1>2 DEF Chain!Switched
  <2> QED BY <2>1, <2>2, <2>3
<1> QED BY <1>1, <1>2

LEMMA AtStartIs ==
  ASSUME NEW up, up \subseteq DOMAIN Nodes
  PROVE  Chain!AtStart(up) \in 0..Len(Nodes)
<1>1. 0 \in 0..Len(Nodes)
  BY ChainAssumption
<1>2. up \ {1} \subseteq DOMAIN Nodes
  OBVIOUS
<1> QED BY <1>1, <1>2, SwitchedIs DEF Chain!AtStart

LEMMA ChainInit == Chain!Init => ChainInv(service)
<1> SUFFICES ASSUME Chain!Init
             PROVE  ChainInv(service)
  OBVIOUS
<1>1. Chain!Empty \in Chain!Contract /\ Owned(Chain!Empty)
  BY DEF Chain!Empty, Chain!Contract, Owned
<1>2. PICK e : e = Chain!Empty
  OBVIOUS
<1>3. [c \in Clients |-> Chain!Idle] \in [Clients -> ChainCall]
  BY DEF ChainCall
<1>4. [c \in Clients |-> 0] \in [Clients -> 0..Len(Nodes)]
  BY ChainAssumption
<1>5. /\ service \in Ledger /\ service.state = e
      /\ \A c \in Clients : service.call[c] = Chain!Idle
  BY <1>1, <1>2, <1>3, <1>4 DEF Chain!Init, Ledger
<1>6. Returned(service)
  BY <1>5 DEF Returned, Chain!Idle
<1> QED BY <1>1, <1>2, <1>5, <1>6 DEF ChainInv

(* A step that leaves the contract and the call of every client but c.     *)
LEMMA CallChanges ==
  ASSUME NEW l, ChainInv(l), NEW m \in Ledger, NEW c \in Clients,
         Remembers(l.state, m.state), Owned(m.state),
         \A d \in Clients : d # c => m.call[d] = l.call[d],
         m.call[c].at = "done" =>
           (m.call[c].same /\ ~m.call[c].sent) \/ Holds(m.state, c, m.call[c].o)
  PROVE  ChainInv(m)
<1>1. l.state \in Chain!Contract /\ m.state \in Chain!Contract
  BY DEF ChainInv, Ledger
<1>2. ASSUME NEW d \in Clients, m.call[d].at = "done", d # c
      PROVE  (m.call[d].same /\ ~m.call[d].sent) \/ Holds(m.state, d, m.call[d].o)
  <2>1. m.call[d] = l.call[d] /\ l.call[d] \in ChainCall
    BY <1>2 DEF ChainInv, Ledger
  <2>2. l.call[d].o \in Chain!Operations
    BY <1>2, <2>1 DEF ChainCall, Chain!Idle
  <2>3. CASE Holds(l.state, d, l.call[d].o)
    BY <1>1, <2>1, <2>2, <2>3, HoldsOn
  <2> QED BY <1>2, <2>1, <2>3 DEF ChainInv, Returned
<1> QED BY <1>2 DEF ChainInv, Returned

LEMMA RemembersItself == ASSUME NEW s PROVE Remembers(s, s)
  BY DEF Remembers

LEMMA ChainConnects ==
  ASSUME ChainInv(service), NEW c \in Clients, Chain!Connect(c) \/ Chain!Check(c)
  PROVE  ChainInv(service')
<1>1. PICK n \in 0..Len(Nodes), k \in 0..Len(Nodes) :
        service' = [service EXCEPT !.node[c] = n, !.bound[c] = k]
  <2>1. service \in Ledger /\ service.node[c] \in 0..Len(Nodes)
        /\ service.bound[c] \in 0..Len(Nodes) /\ service.up \subseteq DOMAIN Nodes
    BY DEF ChainInv, Ledger
  <2>2. CASE Chain!Connect(c)
    BY <2>1, <2>2, AtStartIs DEF Chain!Connect
  <2>3. CASE Chain!Check(c)
    <3>1. PICK n \in 0..Len(Nodes) : n = Chain!Switched(service.node[c], service.up)
      BY <2>1, SwitchedIs
    <3>2. service' = [service EXCEPT !.node[c] = n]
      BY <2>3, <3>1 DEF Chain!Check
    <3>3. [service EXCEPT !.node[c] = n] = [service EXCEPT !.node[c] = n, !.bound[c] = service.bound[c]]
      BY <2>1 DEF Ledger
    <3> QED BY <2>1, <3>2, <3>3
  <2> QED BY <2>2, <2>3
<1>2. /\ service' \in Ledger /\ service'.state = service.state /\ service'.call = service.call
  BY <1>1 DEF ChainInv, Ledger
<1> QED BY <1>2 DEF ChainInv, Returned

LEMMA ChainBegins ==
  ASSUME ChainInv(service), NEW c \in Clients, Chain!Begin(c)
  PROVE  ChainInv(service')
<1>1. service \in Ledger /\ service.state \in Chain!Contract
  BY DEF ChainInv, Ledger
<1>2. PICK o \in Chain!Operations :
        LET s == service.state IN
        service' =
          IF service.bound[c] \notin service.up THEN Chain!Ended(c, "raised", o, FALSE, FALSE)
          ELSE IF Chain!AlreadyDone(s, c, o) THEN Chain!Ended(c, "done", o, FALSE, FALSE)
          ELSE IF Chain!Refused(s, c, o) \/ service.node[c] \notin service.up
          THEN Chain!Ended(c, "raised", o, FALSE, FALSE)
          ELSE [service EXCEPT !.call[c] = [at |-> "send", o |-> o]]
  BY DEF Chain!Begin
<1>3. Chain!AlreadyDone(service.state, c, o) => Holds(service.state, c, o)
  BY OperationIs DEF Chain!AlreadyDone, Holds
<1>4. PICK e : /\ service' = [service EXCEPT !.call[c] = e]
               /\ e \in ChainCall
               /\ e.at = "done" => Holds(service.state, c, e.o)
  <2>1. CASE service' = [service EXCEPT !.call[c] = [at |-> "send", o |-> o]]
    <3>1. PICK e : e = [at |-> "send", o |-> o]
      OBVIOUS
    <3>2. e \in ChainCall /\ e.at # "done"
      BY <3>1 DEF ChainCall
    <3> QED BY <2>1, <3>1, <3>2
  <2>2. CASE service' = Chain!Ended(c, "raised", o, FALSE, FALSE)
    <3>1. PICK e : e = [at |-> "raised", o |-> o, sent |-> FALSE, same |-> FALSE]
      OBVIOUS
    <3>2. e \in ChainCall /\ e.at # "done"
      BY <3>1 DEF ChainCall
    <3> QED BY <2>2, <3>1, <3>2 DEF Chain!Ended
  <2>3. CASE /\ service' = Chain!Ended(c, "done", o, FALSE, FALSE)
             /\ Chain!AlreadyDone(service.state, c, o)
    <3>1. PICK e : e = [at |-> "done", o |-> o, sent |-> FALSE, same |-> FALSE]
      OBVIOUS
    <3>2. e \in ChainCall /\ e.o = o
      BY <3>1 DEF ChainCall
    <3> QED BY <1>3, <2>3, <3>1, <3>2 DEF Chain!Ended
  <2> QED BY <1>2, <2>1, <2>2, <2>3
<1>5. /\ service' \in Ledger /\ service'.state = service.state /\ service'.call[c] = e
      /\ \A d \in Clients : d # c => service'.call[d] = service.call[d]
  BY <1>1, <1>4 DEF Ledger
<1>6. Remembers(service.state, service'.state) /\ Owned(service'.state)
  BY <1>5, RemembersItself DEF ChainInv
<1> QED BY <1>4, <1>5, <1>6, CallChanges

LEMMA ChainSends ==
  ASSUME ChainInv(service), NEW c \in Clients, Chain!Send(c)
  PROVE  ChainInv(service')
<1>1. /\ service \in Ledger /\ service.state \in Chain!Contract /\ Owned(service.state)
      /\ service.before \in Chain!Contract /\ service.up \subseteq DOMAIN Nodes
      /\ service.node[c] \in 0..Len(Nodes)
  BY DEF ChainInv, Ledger
<1>2. PICK o \in Chain!Operations : o = service.call[c].o
  <2>1. service.call[c] \in ChainCall /\ service.call[c].at = "send"
    BY DEF ChainInv, Ledger, Chain!Send, Chain!Is
  <2> QED BY <2>1 DEF ChainCall, Chain!Idle
<1>3. PICK node \in 0..Len(Nodes) : node = Chain!Switched(service.node[c], service.up)
  BY <1>1, SwitchedIs
<1>4. CASE service' = [Chain!Ended(c, "raised", o, FALSE, FALSE) EXCEPT !.node[c] = node]
  <2>1. PICK e : e = [at |-> "raised", o |-> o, sent |-> FALSE, same |-> FALSE]
    OBVIOUS
  <2>2. e \in ChainCall /\ e.at # "done"
    BY <2>1 DEF ChainCall
  <2>3. service' = [service EXCEPT !.call[c] = e, !.node[c] = node]
    BY <1>1, <1>4, <2>1 DEF Chain!Ended, Ledger
  <2>4. /\ service' \in Ledger /\ service'.state = service.state /\ service'.call[c] = e
        /\ \A d \in Clients : d # c => service'.call[d] = service.call[d]
    BY <1>1, <2>2, <2>3 DEF Ledger
  <2>5. Remembers(service.state, service'.state) /\ Owned(service'.state)
    BY <1>1, <2>4, RemembersItself
  <2> QED BY <2>2, <2>4, <2>5, CallChanges
<1>5. ASSUME NEW same \in BOOLEAN, NEW before, NEW fails \in BOOLEAN,
             before = (IF same THEN service.before ELSE service.state),
             fails = Chain!Reverts(service.state, c, o),
             service' =
               [Chain!Ended(c, IF fails THEN Chain!DisplayCause(c, o, before) ELSE "done", o, ~fails, same)
                  EXCEPT !.node[c] = node, !.sent = @ + 1, !.before = before,
                         !.state = IF fails THEN @ ELSE Chain!Effect(@, c, o)]
      PROVE  ChainInv(service')
  <2>1. PICK e : e = [at |-> IF fails THEN Chain!DisplayCause(c, o, before) ELSE "done",
                      o |-> o, sent |-> ~fails, same |-> same]
    OBVIOUS
  <2>2. PICK s : s = IF fails THEN service.state ELSE Chain!Effect(service.state, c, o)
    OBVIOUS
  <2>3. s \in Chain!Contract /\ Owned(s) /\ Remembers(service.state, s)
        /\ (~fails => Holds(s, c, o))
    BY <1>1, <1>5, <2>2, EffectIs, RemembersItself
  <2>4. before \in Chain!Contract
    BY <1>1, <1>5
  <2>5. PICK not \in BOOLEAN : not = ~fails
    OBVIOUS
  <2>6. e \in ChainCall /\ e.o = o /\ e.sent = not /\ e.same = same
        /\ e.at = (IF fails THEN Chain!DisplayCause(c, o, before) ELSE "done")
    BY <2>1, <2>5 DEF ChainCall, Chain!DisplayCause
  <2>7. e.at = "done" => (e.same /\ ~e.sent) \/ Holds(s, c, e.o)
    <3>1. CASE fails /\ ~same
      BY <1>5, <2>6, <3>1 DEF Chain!DisplayCause
    <3>2. CASE fails /\ same
      BY <2>5, <2>6, <3>2
    <3>3. CASE ~fails
      BY <2>3, <2>6, <3>3
    <3> QED BY <3>1, <3>2, <3>3
  <2>8. PICK sent \in Nat : sent = service.sent + 1
    BY <1>1 DEF Ledger
  <2>9. service' = [service EXCEPT !.call[c] = e, !.node[c] = node, !.sent = sent,
                                   !.before = before, !.state = s]
    BY <1>1, <1>5, <2>1, <2>2, <2>8 DEF Chain!Ended, Ledger
  <2>10. PICK call \in [Clients -> ChainCall] : call = [service.call EXCEPT ![c] = e]
    BY <1>1, <2>6 DEF Ledger
  <2>11. PICK nodes \in [Clients -> 0..Len(Nodes)] : nodes = [service.node EXCEPT ![c] = node]
    BY <1>1 DEF Ledger
  <2>12. service' = [service EXCEPT !.call = call, !.node = nodes, !.sent = sent,
                                    !.before = before, !.state = s]
    BY <1>1, <2>9, <2>10, <2>11 DEF Ledger
  <2>13. service' \in Ledger /\ service'.state = s /\ service'.call = call
    BY <1>1, <2>3, <2>4, <2>8, <2>12 DEF Ledger
  <2>14. call[c] = e /\ \A d \in Clients : d # c => call[d] = service.call[d]
    BY <1>1, <2>10 DEF Ledger
  <2> QED BY <2>3, <2>7, <2>13, <2>14, CallChanges
<1>6. ASSUME NEW same \in BOOLEAN,
             LET before == IF same THEN service.before ELSE service.state
                 fails == Chain!Reverts(service.state, c, o) IN
             service' =
               [Chain!Ended(c, IF fails THEN Chain!DisplayCause(c, o, before) ELSE "done", o, ~fails, same)
                  EXCEPT !.node[c] = node, !.sent = @ + 1, !.before = before,
                         !.state = IF fails THEN @ ELSE Chain!Effect(@, c, o)]
      PROVE  ChainInv(service')
  <2>1. PICK before : before = IF same THEN service.before ELSE service.state
    OBVIOUS
  <2>2. Chain!Reverts(service.state, c, o) \in BOOLEAN
    BY OperationIs DEF Chain!Reverts
  <2>3. PICK fails \in BOOLEAN : fails = Chain!Reverts(service.state, c, o)
    BY <2>2
  <2> QED BY <1>5, <1>6, <2>1, <2>3
<1> QED BY <1>2, <1>3, <1>4, <1>6 DEF Chain!Send

LEMMA ChainStep == ChainInv(service) /\ Chain!Next => ChainInv(service')
<1> SUFFICES ASSUME ChainInv(service), Chain!Next
             PROVE  ChainInv(service')
  OBVIOUS
<1>1. CASE Chain!NodeChanges
  <2>1. PICK k \in Nat : k = service.changes + 1
    BY DEF ChainInv, Ledger
  <2>2. PICK n \in DOMAIN Nodes :
          service' = [service EXCEPT !.changes = k, !.up = IF n \in @ THEN @ \ {n} ELSE @ \cup {n}]
    BY <1>1, <2>1 DEF Chain!NodeChanges, ChainInv, Ledger
  <2>3. PICK up : up = IF n \in service.up THEN service.up \ {n} ELSE service.up \cup {n}
    OBVIOUS
  <2>4. up \subseteq DOMAIN Nodes
    BY <2>3 DEF ChainInv, Ledger
  <2>5. service' = [service EXCEPT !.changes = k, !.up = up]
    BY <2>2, <2>3 DEF ChainInv, Ledger
  <2>6. /\ service' \in Ledger /\ service'.state = service.state /\ service'.call = service.call
    BY <2>1, <2>4, <2>5 DEF ChainInv, Ledger
  <2> QED BY <2>6 DEF ChainInv, Returned
<1> QED BY <1>1, ChainConnects, ChainBegins, ChainSends DEF Chain!Next

LEMMA ChainImplies ==
  ASSUME ChainInv(service)
  PROVE  Chain!TypeOK /\ Chain!ReturnMeansDone
<1>1. Chain!TypeOK
  <2>1. ASSUME NEW c \in Clients
        PROVE  service.call[c].at \in {"idle", "send", "done", "raised"}
    BY DEF ChainInv, Ledger, ChainCall, Chain!Idle
  <2> QED BY <2>1 DEF ChainInv, Ledger, Chain!TypeOK
<1>2. ASSUME NEW c \in Clients, Chain!Is(c, "done")
      PROVE  LET o == service.call[c].o IN
             \/ service.call[c].same /\ ~service.call[c].sent
             \/ CASE o.op = "register" -> service.state.agent[o.id] = c
                  [] o.op = "createTask" -> service.state.task[o.id].owner = c
                  [] o.op = "finishTask" -> service.state.task[o.id].fin
                  [] o.op \in {"joinTask", "buy"} -> Chain!HasAuth(service.state, o.id, o.for)
  <2>1. service.call[c].at = "done"
    BY <1>2 DEF Chain!Is
  <2>2. service.call[c] \in ChainCall
    BY DEF ChainInv, Ledger
  <2>3. service.call[c].o \in Chain!Operations
    BY <2>1, <2>2 DEF ChainCall, Chain!Idle
  <2>4. (service.call[c].same /\ ~service.call[c].sent)
          \/ Holds(service.state, c, service.call[c].o)
    BY <2>1 DEF ChainInv, Returned
  <2> QED BY <2>3, <2>4, OperationIs DEF Holds, Chain!HasAuth
<1> QED BY <1>1, <1>2 DEF Chain!ReturnMeansDone

-----------------------------------------------------------------------------
(* The trading client.                                                     *)

Coins == Tokens \cup {Native}

Trades == {"buy", "sell", "swap", "transfer", "coins", "admin", "other", "deploy"}

Moves == Trades \cup {"approve"}

Routes == Seq(Coins \cup Nat)

BusyJobs ==
  [at : {"ready", "sending", "after", "deploying"}, kind : Trades, in : Coins, out : Coins,
   tier : Nat, route : Routes, now : Moves, nonce : Nat, before : Trading!Wallet,
   clean : BOOLEAN, approved : BOOLEAN]

Jobs == {Trading!Idle} \cup BusyJobs

Outcomes ==
  {Trading!Idle} \cup [at : {"error", "exit"}]
    \cup [at : {"record"}, kind : Trades, clean : BOOLEAN, approved : BOOLEAN, token : Int, native : Int]

Market ==
  [chain : Trading!Wallet, lagging : Trading!Wallet, behind : BOOLEAN, pools : SUBSET Trading!Pools,
   nonce : Nat, config : BOOLEAN, deployed : 0..5, job : Jobs, done : Outcomes, shown : Seq(Nat)]

(* No nonce is beyond that of the wallet. *)
Nonces(m) ==
  /\ m.lagging.next <= m.chain.next /\ m.nonce <= m.chain.next
  /\ m.job.at \in {"sending", "deploying"} => m.job.nonce <= m.chain.next

Sign(kind) == IF kind = "buy" THEN 1 ELSE -1

(* Before the trade of a job, when nothing else uses the wallet: only approvals were paid. *)
Untouched(m) ==
  m.job.at \in {"ready", "sending"} /\ m.job.clean =>
    /\ m.chain.token = m.job.before.token
    /\ m.behind => m.lagging.token = m.job.before.token
    /\ ~m.job.approved => m.chain.native = m.job.before.native

(* After it. *)
Touched(m) ==
  m.job.at = "after" =>
    /\ m.job.kind \in {"buy", "sell"}
    /\ m.job.clean =>
         /\ m.chain.token = m.job.before.token + Sign(m.job.kind)
         /\ m.behind => m.lagging.token = m.job.before.token
         /\ ~m.job.approved => m.chain.native = m.job.before.native - 1 - Sign(m.job.kind)

(* What is sent next is the trade or an approval. *)
Sent(m) == m.job.at = "sending" => m.job.now = m.job.kind \/ (m.job.now = "approve" /\ m.job.approved)

Recorded(m) ==
  m.done.at = "record" /\ m.done.clean =>
    /\ m.done.token = Sign(m.done.kind)
    /\ ~m.done.approved => m.done.native = -Sign(m.done.kind)

(* At every tier of a route one of its two sides has a pool. *)
Paired(pools, r) ==
  \A i \in DOMAIN r :
    i % 2 = 0 => \E t \in {r[i - 1], r[i + 1]} \ {Native} : Trading!HasPool(pools, t, r[i])

RouteIsQuoted(pools, j) ==
  j.at \in {"ready", "sending", "after"} /\ j.kind \in {"buy", "sell", "swap"}
    /\ ~(j.kind = "swap" /\ Native \in {j.in, j.out}) =>
      j.route = Trading!Quoted(pools, j.in, j.out, j.tier) /\ Paired(pools, j.route)

Reported(m) ==
  /\ m.config => m.deployed = 5
  /\ m.job.at = "deploying" => m.deployed < 5
  /\ \A i \in 2..Len(m.shown) : m.shown[i - 1] < m.shown[i]

TradeInv(m) ==
  /\ m \in Market /\ Nonces(m) /\ Untouched(m) /\ Touched(m) /\ Sent(m) /\ Recorded(m)
  /\ RouteIsQuoted(m.pools, m.job) /\ Reported(m)

-----------------------------------------------------------------------------
(* Routes.                                                                 *)

LEMMA FirstTierIs ==
  ASSUME NEW pools, NEW token
  PROVE  LET f == Trading!FirstTier(pools, token)
         IN  f \in Nat /\ (f # 0 => Trading!HasPool(pools, token, f))
<1> DEFINE tiers == {i \in 1..Tiers : Trading!HasPool(pools, token, i)}
<1>1. CASE tiers = {}
  BY <1>1 DEF Trading!FirstTier
<1>2. CASE tiers # {}
  <2>1. tiers \subseteq Nat
    OBVIOUS
  <2>2. \E i \in tiers : \A j \in tiers : i <= j
    BY <1>2, <2>1, LeastNat
  <2>3. Trading!FirstTier(pools, token) = CHOOSE i \in tiers : \A j \in tiers : i <= j
    BY <1>2 DEF Trading!FirstTier
  <2>4. PICK f : f = Trading!FirstTier(pools, token)
    OBVIOUS
  <2>5. f \in tiers
    BY <2>2, <2>3, <2>4
  <2> QED BY <2>4, <2>5
<1> QED BY <1>1, <1>2

LEMMA PairThen ==
  ASSUME NEW S, NEW a \in S, NEW b \in S, NEW c \in S
  PROVE  <<a, b>> \o <<c>> = <<a, b, c>>
<1>1. <<a, b>> \in Seq(S) /\ <<c>> \in Seq(S) /\ <<a, b, c>> \in Seq(S)
  OBVIOUS
<1>2. PICK u : u = <<a, b>> \o <<c>>
  OBVIOUS
<1>3. PICK v : v = <<a, b, c>>
  OBVIOUS
<1>4. v \in Seq(S) /\ Len(v) = 3 /\ v[1] = a /\ v[2] = b /\ v[3] = c
  BY <1>1, <1>3
<1>5. u \in Seq(S) /\ Len(u) = 3 /\ u[1] = a /\ u[2] = b /\ u[3] = c
  BY <1>1, <1>2
<1>6. \A i \in 1..3 : i = 1 \/ i = 2 \/ i = 3
  OBVIOUS
<1>7. \A i \in 1..3 : u[i] = v[i]
  BY <1>4, <1>5, <1>6
<1>8. u = v
  BY <1>4, <1>5, <1>7
<1> QED BY <1>2, <1>3, <1>8

LEMMA PairsThen ==
  ASSUME NEW S, NEW a \in S, NEW b \in S, NEW c \in S, NEW d \in S, NEW e \in S
  PROVE  <<a, b>> \o <<c, d>> \o <<e>> = <<a, b, c, d, e>>
<1>1. <<a, b>> \in Seq(S) /\ <<c, d>> \in Seq(S) /\ <<e>> \in Seq(S) /\ <<a, b, c, d, e>> \in Seq(S)
  OBVIOUS
<1>2. PICK w : w = <<a, b>> \o <<c, d>>
  OBVIOUS
<1>3. PICK z : z = <<e>>
  OBVIOUS
<1>11. z \in Seq(S) /\ Len(z) = 1 /\ z[1] = e
  BY <1>3
<1>12. PICK u : u = w \o z
  OBVIOUS
<1>4. PICK v : v = <<a, b, c, d, e>>
  OBVIOUS
<1>5. v \in Seq(S) /\ Len(v) = 5 /\ v[1] = a /\ v[2] = b /\ v[3] = c /\ v[4] = d /\ v[5] = e
  BY <1>1, <1>4
<1>6. w \in Seq(S) /\ Len(w) = 4 /\ w[1] = a /\ w[2] = b /\ w[3] = c /\ w[4] = d
  BY <1>1, <1>2
<1>7. u \in Seq(S) /\ Len(u) = 5 /\ u[1] = a /\ u[2] = b /\ u[3] = c /\ u[4] = d /\ u[5] = e
  <2>1. /\ u \in Seq(S) /\ Len(u) = Len(w) + Len(z)
        /\ \A i \in 1 .. Len(w) + Len(z) : u[i] = IF i <= Len(w) THEN w[i] ELSE z[i - Len(w)]
    <3>1. w \in Seq(S) /\ z \in Seq(S)
      BY <1>6, <1>11
    <3> QED BY <1>12, <3>1, ConcatProperties, Zenon
  <2>2. \A i \in 1..5 : u[i] = IF i <= 4 THEN w[i] ELSE z[i - 4]
    BY <1>6, <1>11, <2>1
  <2>3. u[1] = w[1] /\ u[2] = w[2] /\ u[3] = w[3] /\ u[4] = w[4] /\ u[5] = z[1]
    BY <2>2
  <2> QED BY <1>6, <1>11, <2>1, <2>2, <2>3
<1>8. \A i \in 1..5 : i = 1 \/ i = 2 \/ i = 3 \/ i = 4 \/ i = 5
  OBVIOUS
<1>9. \A i \in 1..5 : u[i] = v[i]
  BY <1>5, <1>7, <1>8
<1>10. u = v
  BY <1>5, <1>7, <1>9
<1> QED BY <1>2, <1>3, <1>4, <1>10, <1>12

LEMMA TwoPath ==
  ASSUME NEW in \in Coins, NEW out \in Coins, in # out, NEW t \in Nat
  PROVE  Trading!EncodePath(<<in, out>>, <<t>>) = <<in, t, out>>
<1>1. Len(<<in, out>>) = 2 /\ <<in, out>>[1] = in /\ <<in, out>>[2] = out /\ <<t>>[1] = t
  OBVIOUS
<1>2. Trading!EncodePath(<<in, out>>, <<t>>) = <<in, t>> \o <<out>>
  BY <1>1 DEF Trading!EncodePath
<1>3. in \in Coins \cup Nat /\ out \in Coins \cup Nat /\ t \in Coins \cup Nat
  OBVIOUS
<1> QED BY <1>2, <1>3, PairThen

LEMMA HopPath ==
  ASSUME NEW in \in Tokens, NEW out \in Tokens, in # out, NEW t \in Nat, NEW u \in Nat
  PROVE  Trading!EncodePath(<<in, Native, out>>, <<t, u>>) = <<in, t, Native, u, out>>
<1>1. /\ Len(<<in, Native, out>>) = 3 /\ <<in, Native, out>>[1] = in
      /\ <<in, Native, out>>[2] = Native /\ <<in, Native, out>>[3] = out
      /\ <<t, u>>[1] = t /\ <<t, u>>[2] = u
  OBVIOUS
<1>2. Native # out
  BY TradingAssumption
<1>3. Trading!EncodePath(<<in, Native, out>>, <<t, u>>) = <<in, t>> \o <<Native, u>> \o <<out>>
  BY <1>1, <1>2 DEF Trading!EncodePath
<1>4. /\ in \in Coins \cup Nat /\ out \in Coins \cup Nat /\ Native \in Coins \cup Nat
      /\ t \in Coins \cup Nat /\ u \in Coins \cup Nat
  BY DEF Coins
<1> QED BY <1>3, <1>4, PairsThen

(* What a swap is sent along, and why there are pools. *)
LEMMA TwoQuoted ==
  ASSUME NEW pools, NEW in \in Coins, NEW out \in Coins, NEW tier \in 1..Tiers, NEW kind \in {"buy", "sell"},
         kind = "buy" => in = Native /\ out \in Tokens,
         kind = "sell" => out = Native /\ in \in Tokens,
         NEW r, r = Trading!NativeRoute(pools, in, out, tier), r # <<>>
  PROVE  r \in Routes /\ r = Trading!Quoted(pools, in, out, tier) /\ Paired(pools, r)
<1>1. PICK token \in Tokens : token = IF in = Native THEN out ELSE in
  BY TradingAssumption
<1>2. in # out /\ (in = token \/ out = token) /\ token # Native /\ Native \in {in, out}
  BY <1>1, TradingAssumption
<1>3. PICK t : t = Trading!Tier(pools, token, tier)
  OBVIOUS
<1>4. t \in Nat /\ (t # 0 => Trading!HasPool(pools, token, t))
  BY <1>3, FirstTierIs DEF Trading!Tier
<1>5. Trading!NativeRoute(pools, in, out, tier) = IF t = 0 THEN <<>> ELSE <<in, t, out>>
  BY <1>1, <1>3 DEF Trading!NativeRoute
<1>6. t # 0 /\ Trading!NativeRoute(pools, in, out, tier) = <<in, t, out>>
  BY <1>5
<1>7. Trading!Quoted(pools, in, out, tier) = Trading!EncodePath(<<in, out>>, <<t>>)
  BY <1>1, <1>2, <1>3, <1>6 DEF Trading!Quoted, Trading!Tier
<1>8. r = <<in, t, out>>
  BY <1>6
<1>9. r \in Routes /\ DOMAIN r = 1..3 /\ r[1] = in /\ r[2] = t /\ r[3] = out
  BY <1>4, <1>8 DEF Routes
<1>10. ASSUME NEW i \in DOMAIN r, i % 2 = 0
       PROVE  \E x \in {r[i - 1], r[i + 1]} \ {Native} : Trading!HasPool(pools, x, r[i])
  <2>1. i = 2
    BY <1>9, <1>10
  <2>2. {r[i - 1], r[i + 1]} = {in, out} /\ r[i] = t
    BY <1>9, <2>1
  <2> QED BY <1>2, <1>4, <1>6, <2>2
<1>11. Trading!Quoted(pools, in, out, tier) = r
  BY <1>2, <1>4, <1>7, <1>8, TwoPath
<1> QED BY <1>9, <1>10, <1>11 DEF Paired

LEMMA HopQuoted ==
  ASSUME NEW pools, NEW in \in Tokens, NEW out \in Tokens, in # out, NEW tier,
         NEW r, r = Trading!HopRoute(pools, in, out), r # <<>>
  PROVE  r \in Routes /\ r = Trading!Quoted(pools, in, out, tier) /\ Paired(pools, r)
<1>1. PICK t : t = Trading!FirstTier(pools, in)
  OBVIOUS
<1>2. PICK u : u = Trading!FirstTier(pools, out)
  OBVIOUS
<1>3. t \in Nat /\ u \in Nat /\ (t # 0 => Trading!HasPool(pools, in, t))
      /\ (u # 0 => Trading!HasPool(pools, out, u))
  BY <1>1, <1>2, FirstTierIs
<1>4. Trading!HopRoute(pools, in, out) =
        IF t = 0 \/ u = 0 THEN <<>> ELSE Trading!EncodePath(<<in, Native, out>>, <<t, u>>)
  BY <1>1, <1>2 DEF Trading!HopRoute
<1>5. t # 0 /\ u # 0 /\ Trading!HopRoute(pools, in, out) = <<in, t, Native, u, out>>
  BY <1>3, <1>4, HopPath
<1>6. in # Native /\ out # Native
  BY TradingAssumption
<1>7. Trading!Quoted(pools, in, out, tier) = Trading!HopRoute(pools, in, out)
  BY <1>6 DEF Trading!Quoted
<1>8. r = <<in, t, Native, u, out>>
  BY <1>5
<1>9. r \in Routes /\ DOMAIN r = 1..5 /\ r[1] = in /\ r[2] = t /\ r[3] = Native /\ r[4] = u /\ r[5] = out
  BY <1>3, <1>8 DEF Routes, Coins
<1>10. ASSUME NEW i \in DOMAIN r, i % 2 = 0
       PROVE  \E x \in {r[i - 1], r[i + 1]} \ {Native} : Trading!HasPool(pools, x, r[i])
  <2>1. i = 2 \/ i = 4
    BY <1>9, <1>10
  <2>2. CASE i = 2
    <3>1. r[i - 1] = in /\ r[i] = t
      BY <1>9, <2>2
    <3> QED BY <1>3, <1>5, <1>6, <3>1
  <2>3. CASE i = 4
    <3>1. r[i + 1] = out /\ r[i] = u
      BY <1>9, <2>3
    <3> QED BY <1>3, <1>5, <1>6, <3>1
  <2> QED BY <2>1, <2>2, <2>3
<1> QED BY <1>7, <1>9, <1>10 DEF Paired

-----------------------------------------------------------------------------
(* Transactions.                                                           *)

LEMMA SeenIs ==
  ASSUME service \in Market, Nonces(service)
  PROVE  /\ Trading!Seen \in Trading!Wallet /\ Trading!Seen.next <= service.chain.next
         /\ Trading!Seen = service.chain \/ (service.behind /\ Trading!Seen = service.lagging)
         /\ ~service.behind => Trading!Seen = service.chain
<1>1. service.chain \in Trading!Wallet /\ service.lagging \in Trading!Wallet
  BY DEF Market
<1> QED BY <1>1 DEF Trading!Seen, Nonces, Trading!Wallet

LEMMA TradeEffectIs ==
  ASSUME NEW w \in Trading!Wallet, NEW kind
  PROVE  LET e == Trading!Effect(w, kind)
         IN  /\ e \in Trading!Wallet
             /\ kind \in {"buy", "sell"} =>
                  e.token = w.token + Sign(kind) /\ e.native = w.native - 1 - Sign(kind)
             /\ kind = "approve" => e.token = w.token
<1>1. PICK n \in Int : n = w.native - 1
  BY DEF Trading!Wallet
<1>2. PICK up \in Int, down \in Int : up = w.token + 1 /\ down = w.token - 1
  BY DEF Trading!Wallet
<1>3. PICK less \in Int, more \in Int : less = n - 1 /\ more = n + 1
  OBVIOUS
<1>4. PICK paid : paid = [w EXCEPT !.native = n]
  OBVIOUS
<1>5. paid \in Trading!Wallet /\ paid.token = w.token /\ paid.native = n /\ paid.next = w.next
  BY <1>4 DEF Trading!Wallet
<1>6. Trading!Effect(w, kind) =
        CASE kind = "buy" -> [paid EXCEPT !.token = up, !.native = less]
          [] kind = "sell" -> [paid EXCEPT !.token = down, !.native = more]
          [] kind = "approve" -> [paid EXCEPT !.approved = TRUE]
          [] kind = "transfer" -> [paid EXCEPT !.token = down]
          [] OTHER -> paid
  <2>1. paid = [w EXCEPT !.native = @ - 1]
    BY <1>1, <1>4
  <2>2. /\ [paid EXCEPT !.token = @ + 1, !.native = @ - 1] = [paid EXCEPT !.token = up, !.native = less]
        /\ [paid EXCEPT !.token = @ - 1, !.native = @ + 1] = [paid EXCEPT !.token = down, !.native = more]
        /\ [paid EXCEPT !.token = @ - 1] = [paid EXCEPT !.token = down]
    BY <1>1, <1>2, <1>3, <1>5
  <2> QED BY <2>1, <2>2 DEF Trading!Effect
<1>7. PICK e : e = Trading!Effect(w, kind)
  OBVIOUS
<1>8. CASE kind = "buy"
  <2>1. e = [paid EXCEPT !.token = up, !.native = less]
    BY <1>6, <1>7, <1>8
  <2>2. e \in Trading!Wallet /\ e.token = up /\ e.native = less
    BY <1>5, <2>1 DEF Trading!Wallet
  <2>3. Sign(kind) = 1
    BY <1>8 DEF Sign
  <2> QED BY <1>1, <1>2, <1>3, <1>7, <1>8, <2>2, <2>3 DEF Trading!Wallet
<1>9. CASE kind = "sell"
  <2>1. e = [paid EXCEPT !.token = down, !.native = more]
    BY <1>6, <1>7, <1>9
  <2>2. e \in Trading!Wallet /\ e.token = down /\ e.native = more
    BY <1>5, <2>1 DEF Trading!Wallet
  <2>3. Sign(kind) = -1
    BY <1>9 DEF Sign
  <2> QED BY <1>1, <1>2, <1>3, <1>7, <1>9, <2>2, <2>3 DEF Trading!Wallet
<1>10. CASE kind = "approve"
  <2>1. e = [paid EXCEPT !.approved = TRUE]
    BY <1>6, <1>7, <1>10
  <2>2. e \in Trading!Wallet /\ e.token = paid.token
    BY <1>5, <2>1 DEF Trading!Wallet
  <2> QED BY <1>5, <1>7, <1>10, <2>2
<1>11. CASE kind = "transfer"
  <2>1. e = [paid EXCEPT !.token = down]
    BY <1>6, <1>7, <1>11
  <2>2. e \in Trading!Wallet
    BY <1>5, <2>1 DEF Trading!Wallet
  <2> QED BY <1>7, <1>11, <2>2
<1>12. CASE kind \notin {"buy", "sell", "approve", "transfer"}
  <2>1. e = paid
    BY <1>6, <1>7, <1>12
  <2> QED BY <1>5, <1>7, <1>12, <2>1
<1> QED BY <1>8, <1>9, <1>10, <1>11, <1>12

(* A transaction is mined: the wallet at the node is what it was before. *)
LEMMA MinedIs ==
  ASSUME NEW m \in Market, NEW w \in Trading!Wallet
  PROVE  \E x \in Trading!Wallet :
           /\ Trading!Mined(m, w) = [m EXCEPT !.chain = x, !.lagging = m.chain]
           /\ x.next = m.chain.next + 1 /\ x.token = w.token /\ x.native = w.native
<1>1. PICK n \in Nat : n = m.chain.next + 1
  BY DEF Market, Trading!Wallet
<1>2. PICK x : x = [w EXCEPT !.next = n]
  OBVIOUS
<1>3. x \in Trading!Wallet /\ x.next = n /\ x.token = w.token /\ x.native = w.native
  BY <1>2 DEF Trading!Wallet
<1>4. Trading!Mined(m, w) = [m EXCEPT !.chain = x, !.lagging = m.chain]
  BY <1>1, <1>2 DEF Trading!Mined
<1> QED BY <1>1, <1>3, <1>4

LEMMA NonceIs ==
  ASSUME service \in Market, Nonces(service), NEW kind
  PROVE  /\ Trading!NextNonce \in Nat /\ Trading!NextNonce <= service.chain.next
         /\ Trading!NonceFor(kind) \in Nat /\ Trading!NonceFor(kind) <= service.chain.next
<1>1. Trading!Seen \in Trading!Wallet /\ Trading!Seen.next <= service.chain.next
  BY SeenIs
<1>2. PICK got \in Nat : got = Trading!Seen.next /\ got <= service.chain.next
  BY <1>1 DEF Trading!Wallet
<1>3. service.nonce \in Nat /\ service.nonce <= service.chain.next
  BY DEF Market, Nonces
<1>4. Trading!NextNonce \in {got, service.nonce}
  BY <1>2 DEF Trading!NextNonce
<1>5. Trading!NonceFor(kind) \in {got, service.nonce, Trading!NextNonce}
  BY <1>2 DEF Trading!NonceFor
<1> QED BY <1>2, <1>3, <1>4, <1>5

-----------------------------------------------------------------------------
(* The parts of the invariant that a step leaves alone.                    *)

LEMMA OutcomeKeeps ==
  ASSUME NEW m, NEW n, Recorded(m), n.done = m.done \/ n.done.at # "record"
  PROVE  Recorded(n)
  BY DEF Recorded

(* The client is idle again. *)
LEMMA IdleKeeps ==
  ASSUME NEW m, TradeInv(m), NEW n \in Market, n.job = Trading!Idle,
         n.chain.next \in Nat, n.nonce <= n.chain.next, n.lagging.next <= n.chain.next,
         Recorded(n), n.config = m.config /\ n.deployed = m.deployed, n.shown = m.shown
  PROVE  TradeInv(n)
<1>1. n.job.at = "idle"
  BY DEF Trading!Idle
<1> QED BY <1>1 DEF TradeInv, Nonces, Untouched, Touched, Sent, RouteIsQuoted, Reported

LEMMA StartKeeps ==
  ASSUME TradeInv(service), service.job.at = "idle",
         NEW kind \in Trades \ {"deploy"}, NEW in \in Coins, NEW out \in Coins,
         NEW tier \in Nat, NEW route \in Routes,
         route # <<>> /\ kind \in {"buy", "sell", "swap"} /\ ~(kind = "swap" /\ Native \in {in, out}) =>
           route = Trading!Quoted(service.pools, in, out, tier) /\ Paired(service.pools, route),
         Trading!Start(kind, in, out, tier, route)
  PROVE  TradeInv(service')
<1>1. service \in Market /\ Nonces(service) /\ service.job.at = "idle"
  BY DEF TradeInv, Trading!Free
<1>2. CASE route = <<>>
  <2>1. PICK d : d = [at |-> "error"]
    OBVIOUS
  <2>2. d \in Outcomes /\ d.at = "error"
    BY <2>1 DEF Outcomes
  <2>3. service' = [service EXCEPT !.done = d]
    BY <1>2, <2>1 DEF Trading!Start
  <2>4. /\ service' \in Market /\ service'.done = d /\ service'.job = service.job
        /\ service'.chain = service.chain /\ service'.lagging = service.lagging
        /\ service'.behind = service.behind /\ service'.nonce = service.nonce
        /\ service'.pools = service.pools /\ service'.config = service.config
        /\ service'.deployed = service.deployed /\ service'.shown = service.shown
    BY <1>1, <2>2, <2>3 DEF Market
  <2>5. Recorded(service')
    BY <2>2, <2>4 DEF Recorded
  <2> QED BY <1>1, <2>4, <2>5 DEF TradeInv, Nonces, Untouched, Touched, Sent, RouteIsQuoted, Reported
<1>3. CASE route # <<>>
  <2>1. PICK see \in Trading!Wallet : see = Trading!Seen /\ (~service.behind => see = service.chain)
    BY <1>1, SeenIs
  <2>2. PICK clean \in BOOLEAN : clean = ~service.behind
    OBVIOUS
  <2>3. PICK j : j = [at |-> "ready", kind |-> kind, in |-> in, out |-> out, tier |-> tier,
                      route |-> route, now |-> kind, nonce |-> 0, before |-> see,
                      clean |-> clean, approved |-> FALSE]
    OBVIOUS
  <2>4. /\ j \in Jobs /\ j.at = "ready" /\ j.kind = kind /\ j.in = in /\ j.out = out /\ j.tier = tier
        /\ j.route = route /\ j.before = see /\ j.clean = clean
    BY <2>3 DEF Jobs, BusyJobs, Moves
  <2>5. service' = [service EXCEPT !.job = j, !.done = Trading!Idle]
    BY <1>3, <2>1, <2>2, <2>3 DEF Trading!Start, Trading!Job
  <2>6. Trading!Idle \in Outcomes /\ Trading!Idle.at = "idle"
    BY DEF Outcomes, Trading!Idle
  <2>7. /\ service' \in Market /\ service'.done = Trading!Idle /\ service'.job = j
        /\ service'.chain = service.chain /\ service'.lagging = service.lagging
        /\ service'.behind = service.behind /\ service'.nonce = service.nonce
        /\ service'.pools = service.pools /\ service'.config = service.config
        /\ service'.deployed = service.deployed /\ service'.shown = service.shown
    BY <1>1, <2>4, <2>5, <2>6 DEF Market
  <2>8. Untouched(service')
    BY <2>1, <2>2, <2>4, <2>7 DEF Untouched
  <2>9. RouteIsQuoted(service'.pools, service'.job)
    BY <1>3, <2>4, <2>7 DEF RouteIsQuoted
  <2>10. Recorded(service')
    BY <2>6, <2>7 DEF Recorded
  <2> QED BY <2>4, <2>7, <2>8, <2>9, <2>10 DEF TradeInv, Nonces, Touched, Sent, Reported
<1> QED BY <1>2, <1>3

LEMMA TradeStarts ==
  ASSUME TradeInv(service), Trading!Trade \/ Trading!Swap \/ Trading!Plain
  PROVE  TradeInv(service')
<1>1. service.job.at = "idle"
  BY DEF Trading!Trade, Trading!Swap, Trading!Plain, Trading!Free
<1>2. \A t \in 1..Tiers : t \in Nat
  BY TradingAssumption
<1>3. <<>> \in Routes
  BY DEF Routes
<1>4. ASSUME NEW token \in Tokens, NEW tier \in 1..Tiers,
             Trading!Start("buy", Native, token, tier, Trading!NativeRoute(service.pools, Native, token, tier))
      PROVE  TradeInv(service')
  <2>1. PICK route : route = Trading!NativeRoute(service.pools, Native, token, tier)
    OBVIOUS
  <2>2. token \in Coins /\ Native \in Coins
    BY DEF Coins
  <2>3. route # <<>> =>
          /\ route \in Routes /\ route = Trading!Quoted(service.pools, Native, token, tier)
          /\ Paired(service.pools, route)
    BY <2>1, <2>2, TwoQuoted
  <2>4. route \in Routes
    BY <1>3, <2>3
  <2> QED BY <1>1, <1>2, <1>4, <2>1, <2>2, <2>3, <2>4, StartKeeps DEF Trades
<1>5. ASSUME NEW token \in Tokens, NEW tier \in 1..Tiers,
             Trading!Start("sell", token, Native, tier, Trading!NativeRoute(service.pools, token, Native, tier))
      PROVE  TradeInv(service')
  <2>1. PICK route : route = Trading!NativeRoute(service.pools, token, Native, tier)
    OBVIOUS
  <2>2. token \in Coins /\ Native \in Coins
    BY DEF Coins
  <2>3. route # <<>> =>
          /\ route \in Routes /\ route = Trading!Quoted(service.pools, token, Native, tier)
          /\ Paired(service.pools, route)
    BY <2>1, <2>2, TwoQuoted
  <2>4. route \in Routes
    BY <1>3, <2>3
  <2> QED BY <1>1, <1>2, <1>5, <2>1, <2>2, <2>3, <2>4, StartKeeps DEF Trades
<1>6. ASSUME NEW in \in Coins, NEW out \in Coins, NEW tier \in 1..Tiers, in # out,
             Trading!Start("swap", in, out, tier, Trading!SwapRoute(service.pools, in, out, tier))
      PROVE  TradeInv(service')
  <2>1. CASE Native \in {in, out}
    <3>1. PICK route : route = <<in, tier, out>>
      OBVIOUS
    <3>2. route \in Routes
      BY <1>2, <3>1 DEF Routes
    <3>3. Trading!SwapRoute(service.pools, in, out, tier) = route
      BY <2>1, <3>1 DEF Trading!SwapRoute
    <3> QED BY <1>1, <1>2, <1>6, <2>1, <3>2, <3>3, StartKeeps DEF Trades
  <2>2. CASE Native \notin {in, out}
    <3>1. in \in Tokens /\ out \in Tokens
      BY <2>2 DEF Coins
    <3>2. PICK route : route = Trading!HopRoute(service.pools, in, out)
      OBVIOUS
    <3>3. route # <<>> =>
            /\ route \in Routes /\ route = Trading!Quoted(service.pools, in, out, tier)
            /\ Paired(service.pools, route)
      BY <1>6, <3>1, <3>2, HopQuoted
    <3>4. route \in Routes
      BY <1>3, <3>3
    <3>5. Trading!SwapRoute(service.pools, in, out, tier) = route
      BY <2>2, <3>2 DEF Trading!SwapRoute
    <3> QED BY <1>1, <1>2, <1>6, <3>3, <3>4, <3>5, StartKeeps DEF Trades
  <2> QED BY <2>1, <2>2
<1>7. ASSUME NEW kind \in {"transfer", "coins", "admin", "other"},
             Trading!Start(kind, Native, Native, 1, <<Native>>)
      PROVE  TradeInv(service')
  <2>1. Native \in Coins /\ <<Native>> \in Routes /\ 1 \in Nat
    BY DEF Coins, Routes
  <2>2. kind \in Trades \ {"deploy"} /\ kind \notin {"buy", "sell", "swap"}
    BY DEF Trades
  <2>3. PICK route \in Routes : route = <<Native>>
    BY <2>1
  <2> QED BY <1>1, <1>7, <2>1, <2>2, <2>3, StartKeeps
<1> QED BY <1>4, <1>5, <1>6, <1>7 DEF Trading!Trade, Trading!Swap, Trading!Plain, Coins

LEMMA TradeParams ==
  ASSUME TradeInv(service), Trading!Params
  PROVE  TradeInv(service')
<1>1. /\ service \in Market /\ Nonces(service) /\ service.job \in Jobs /\ service.job.at = "ready"
  BY DEF TradeInv, Market, Trading!Params
<1>2. /\ service.job.kind \in Trades /\ service.job.in \in Coins /\ service.job.out \in Coins
      /\ service.job.tier \in Nat /\ service.job.route \in Routes /\ service.job.before \in Trading!Wallet
      /\ service.job.clean \in BOOLEAN /\ service.job.approved \in BOOLEAN
  BY <1>1 DEF Jobs, BusyJobs, Trading!Idle
<1>17. service.job \in BusyJobs
  BY <1>1 DEF Jobs, Trading!Idle
<1>3. PICK n \in Nat : n = (IF Trading!Keeps(service.job.kind) THEN service.nonce ELSE Trading!NextNonce)
                       /\ n <= service.chain.next
  BY <1>1, NonceIs DEF Nonces, Market
<1>4. PICK k \in Nat : k = Trading!NonceFor(service.job.kind) /\ k <= service.chain.next
  BY <1>1, NonceIs
<1>5. PICK approves \in BOOLEAN :
        approves = (service.job.kind \in {"sell", "swap"} /\ ~Trading!Seen.approved)
  OBVIOUS
<1>6. PICK now \in Moves : now = (IF approves THEN "approve" ELSE service.job.kind)
  BY <1>2 DEF Moves
<1>7. PICK approved \in BOOLEAN : approved = (service.job.approved \/ approves)
  OBVIOUS
<1>8. PICK j : j = [service.job EXCEPT !.at = "sending", !.nonce = k, !.now = now, !.approved = approved]
  OBVIOUS
<1>9. /\ j \in Jobs /\ j.at = "sending" /\ j.kind = service.job.kind /\ j.in = service.job.in
      /\ j.out = service.job.out /\ j.tier = service.job.tier /\ j.route = service.job.route
      /\ j.before = service.job.before /\ j.clean = service.job.clean
      /\ j.nonce = k /\ j.now = now /\ j.approved = approved
  <2>1. j \in BusyJobs
    BY <1>4, <1>6, <1>7, <1>8, <1>17 DEF BusyJobs
  <2> QED BY <1>8, <1>17, <2>1 DEF Jobs, BusyJobs
<1>10. service' = [service EXCEPT !.nonce = n, !.job = j]
  <2>1. service' =
          [service EXCEPT !.nonce = n, !.job.at = "sending", !.job.nonce = k, !.job.now = now,
                          !.job.approved = approved]
    BY <1>3, <1>4, <1>5, <1>6, <1>7 DEF Trading!Params
  <2> QED BY <1>1, <1>8, <2>1 DEF Market
<1>11. /\ service' \in Market /\ service'.done = service.done /\ service'.job = j
       /\ service'.chain = service.chain /\ service'.lagging = service.lagging
       /\ service'.behind = service.behind /\ service'.nonce = n
       /\ service'.pools = service.pools /\ service'.config = service.config
       /\ service'.deployed = service.deployed /\ service'.shown = service.shown
  BY <1>1, <1>9, <1>10 DEF Market
<1>12. ~approved => ~service.job.approved
  BY <1>7, Zenon
<1>13. Nonces(service')
  BY <1>1, <1>3, <1>4, <1>9, <1>11 DEF Nonces
<1>14. Untouched(service')
  BY <1>1, <1>9, <1>11, <1>12 DEF TradeInv, Untouched
<1>15. Sent(service')
  BY <1>5, <1>6, <1>7, <1>9, <1>11 DEF Sent
<1>16. RouteIsQuoted(service'.pools, service'.job)
  BY <1>1, <1>9, <1>11 DEF TradeInv, RouteIsQuoted
<1> QED BY <1>9, <1>11, <1>13, <1>14, <1>15, <1>16 DEF TradeInv, Touched, Recorded, Reported

(* The job ends, in an error or at the end of a call. *)
LEMMA Giving ==
  ASSUME NEW m, TradeInv(m), NEW n \in Market, NEW up \in Nat, up <= n.chain.next,
         n.lagging.next <= n.chain.next,
         n.config = m.config, n.deployed = m.deployed, n.shown = m.shown,
         NEW d \in Outcomes, d.at # "record" \/ d = m.done,
         NEW p, p = [n EXCEPT !.job = Trading!Idle, !.done = d, !.nonce = up]
  PROVE  TradeInv(p)
<1>1. Trading!Idle \in Jobs
  BY DEF Jobs
<1>2. /\ p \in Market /\ p.job = Trading!Idle /\ p.done = d /\ p.nonce = up /\ p.chain = n.chain
      /\ p.lagging = n.lagging /\ p.config = n.config /\ p.deployed = n.deployed /\ p.shown = n.shown
  BY <1>1 DEF Market
<1>3. Recorded(p)
  BY <1>2 DEF TradeInv, Recorded
<1>4. p.chain.next \in Nat
  BY <1>2 DEF Market, Trading!Wallet
<1> QED BY <1>2, <1>3, <1>4, IdleKeeps

LEMMA TradeSends ==
  ASSUME TradeInv(service), Trading!Send
  PROVE  TradeInv(service')
<1>1. /\ service \in Market /\ Nonces(service) /\ service.job \in Jobs /\ service.job.at = "sending"
      /\ service.chain \in Trading!Wallet /\ service.lagging \in Trading!Wallet
      /\ service.chain.next \in Nat /\ service.nonce \in Nat /\ service.nonce <= service.chain.next
  BY DEF TradeInv, Market, Trading!Send, Nonces, Trading!Wallet
<1>2. /\ service.job.kind \in Trades /\ service.job.in \in Coins /\ service.job.out \in Coins
      /\ service.job.tier \in Nat /\ service.job.route \in Routes /\ service.job.before \in Trading!Wallet
      /\ service.job.clean \in BOOLEAN /\ service.job.approved \in BOOLEAN
      /\ service.job.now \in Moves /\ service.job.nonce \in Nat
  BY <1>1 DEF Jobs, BusyJobs, Trading!Idle
<1>9. service.job \in BusyJobs
  BY <1>1 DEF Jobs, Trading!Idle
<1> DEFINE j == service.job
           count(mined) == IF Trading!Keeps(j.kind) THEN service.nonce
                           ELSE Trading!Bumped(service.nonce, mined)
<1>3. count(FALSE) \in Nat /\ count(FALSE) = service.nonce
      /\ count(TRUE) \in Nat /\ count(TRUE) <= service.nonce + 1
  BY <1>1 DEF Trading!Bumped
<1>4. PICK error : error = [at |-> "error"]
  OBVIOUS
<1>5. error \in Outcomes /\ error.at # "record"
  BY <1>4 DEF Outcomes
<1>6. CASE service' = Trading!Gives(service, count(FALSE))
  <2>1. service' = [service EXCEPT !.job = Trading!Idle, !.done = error, !.nonce = service.nonce]
    BY <1>3, <1>4, <1>6 DEF Trading!Gives
  <2>2. service.lagging.next <= service.chain.next
    BY <1>1 DEF Nonces
  <2> QED BY <1>1, <1>5, <2>1, <2>2, Giving
<1>7. ASSUME NEW behind \in BOOLEAN, NEW ok \in BOOLEAN, NEW move,
             move = (IF ok THEN j.now ELSE "reverted"),
             NEW m, m = [Trading!Mined(service, Trading!Effect(service.chain, move)) EXCEPT !.behind = behind],
             service' = IF ok THEN Trading!Succeeds([m EXCEPT !.nonce = count(TRUE)])
                        ELSE Trading!Gives(m, count(FALSE))
      PROVE  TradeInv(service')
  <2>1. PICK e \in Trading!Wallet :
          /\ e = Trading!Effect(service.chain, move)
          /\ move \in {"buy", "sell"} =>
               e.token = service.chain.token + Sign(move)
                 /\ e.native = service.chain.native - 1 - Sign(move)
          /\ move = "approve" => e.token = service.chain.token
    BY <1>1, TradeEffectIs
  <2>2. PICK x \in Trading!Wallet :
          /\ Trading!Mined(service, e) = [service EXCEPT !.chain = x, !.lagging = service.chain]
          /\ x.next = service.chain.next + 1 /\ x.token = e.token /\ x.native = e.native
    BY <1>1, MinedIs
  <2>3. m = [service EXCEPT !.chain = x, !.lagging = service.chain, !.behind = behind]
    BY <1>1, <1>7, <2>1, <2>2 DEF Market
  <2>4. /\ m \in Market /\ m.chain = x /\ m.lagging = service.chain /\ m.behind = behind
        /\ m.job = service.job /\ m.done = service.done /\ m.pools = service.pools
        /\ m.nonce = service.nonce
        /\ m.config = service.config /\ m.deployed = service.deployed /\ m.shown = service.shown
    BY <1>1, <2>3 DEF Market
  <2>5. /\ service.nonce <= x.next /\ count(TRUE) <= x.next /\ service.chain.next <= x.next
        /\ service.job.nonce <= x.next
    <3>1. service.job.nonce <= service.chain.next
      BY <1>1 DEF Nonces
    <3>2. PICK c \in Nat : c = count(TRUE) /\ c <= service.nonce + 1
      BY <1>3
    <3> HIDE DEF count
    <3>3. PICK y \in Nat : y = x.next
      BY DEF Trading!Wallet
    <3>4. PICK z \in Nat : z = service.chain.next
      BY <1>1
    <3>5. PICK q \in Nat : q = service.nonce /\ q <= z
      BY <1>1, <3>4
    <3>6. PICK s \in Nat : s = service.job.nonce /\ s <= z
      BY <1>2, <3>1, <3>4
    <3>7. y = z + 1 /\ c <= q + 1
      BY <2>2, <3>2, <3>3, <3>4, <3>5
    <3>8. q <= y /\ c <= y /\ z <= y /\ s <= y
      <4>1. q <= z /\ s <= z
        BY <3>5, <3>6
      <4>2. z <= y /\ q + 1 <= y
        BY <3>7, <4>1
      <4>3. c <= q + 1
        BY <3>7
      <4> QED BY <4>1, <4>2, <4>3
    <3> QED BY <3>2, <3>3, <3>4, <3>5, <3>6, <3>8
  <2>6. CASE ~ok
    <3>1. service' = [m EXCEPT !.job = Trading!Idle, !.done = error, !.nonce = service.nonce]
      BY <1>3, <1>4, <1>7, <2>6 DEF Trading!Gives
    <3> QED BY <1>1, <1>5, <2>4, <2>5, <3>1, Giving
  <2>7. PICK up \in Nat : up = count(TRUE) /\ up <= x.next
    BY <1>3, <2>5
  <2>8. PICK n : n = [m EXCEPT !.nonce = up]
    OBVIOUS
  <2>9. /\ n \in Market /\ n.chain = x /\ n.lagging = service.chain /\ n.behind = behind
        /\ n.job = service.job /\ n.done = service.done /\ n.pools = service.pools /\ n.nonce = up
        /\ n.config = service.config /\ n.deployed = service.deployed /\ n.shown = service.shown
    BY <2>4, <2>8 DEF Market
  <2>10. ok => service' = Trading!Succeeds(n) /\ move = service.job.now
    BY <1>7, <2>7, <2>8
  <2> HIDE DEF count
  <2>11. CASE ok /\ service.job.now = "approve"
    <3>1. PICK k : k = [service.job EXCEPT !.at = "ready"]
      OBVIOUS
    <3>2. /\ k \in Jobs /\ k.at = "ready" /\ k.kind = service.job.kind /\ k.in = service.job.in
          /\ k.out = service.job.out /\ k.tier = service.job.tier /\ k.route = service.job.route
          /\ k.before = service.job.before /\ k.clean = service.job.clean
          /\ k.approved = service.job.approved
      <4>1. k \in BusyJobs
        BY <1>9, <3>1 DEF BusyJobs
      <4> QED BY <1>9, <3>1, <4>1 DEF Jobs, BusyJobs
    <3>3. service' = [n EXCEPT !.job = k]
      <4>1. n.job.now = "approve"
        BY <2>9, <2>11
      <4>2. Trading!Succeeds(n) = [n EXCEPT !.job.at = "ready"]
        BY <4>1 DEF Trading!Succeeds
      <4> QED BY <2>9, <2>10, <2>11, <3>1, <4>2 DEF Market
    <3>4. /\ service' \in Market /\ service'.done = service.done /\ service'.job = k
          /\ service'.chain = x /\ service'.lagging = service.chain
          /\ service'.behind = behind /\ service'.nonce = up
          /\ service'.pools = service.pools /\ service'.config = service.config
          /\ service'.deployed = service.deployed /\ service'.shown = service.shown
      BY <2>9, <3>2, <3>3 DEF Market
    <3>5. service.job.approved
      BY <1>1, <1>2, <2>11 DEF TradeInv, Sent, Trades
    <3>6. Nonces(service')
      BY <2>5, <2>7, <3>2, <3>4 DEF Nonces
    <3>7. Untouched(service')
      <4>1. x.token = service.chain.token
        BY <2>1, <2>2, <2>10, <2>11
      <4>2. service.job.clean => service.chain.token = service.job.before.token
        BY <1>1 DEF TradeInv, Untouched
      <4> QED BY <3>2, <3>4, <3>5, <4>1, <4>2 DEF Untouched
    <3>8. RouteIsQuoted(service'.pools, service'.job)
      BY <1>1, <3>2, <3>4 DEF TradeInv, RouteIsQuoted
    <3> QED BY <3>2, <3>4, <3>6, <3>7, <3>8 DEF TradeInv, Touched, Sent, Recorded, Reported
  <2>12. CASE ok /\ service.job.now # "approve" /\ service.job.kind \in {"buy", "sell"}
    <3>1. PICK k : k = [service.job EXCEPT !.at = "after"]
      OBVIOUS
    <3>2. /\ k \in Jobs /\ k.at = "after" /\ k.kind = service.job.kind /\ k.in = service.job.in
          /\ k.out = service.job.out /\ k.tier = service.job.tier /\ k.route = service.job.route
          /\ k.before = service.job.before /\ k.clean = service.job.clean
          /\ k.approved = service.job.approved
      <4>1. k \in BusyJobs
        BY <1>9, <3>1 DEF BusyJobs
      <4> QED BY <1>9, <3>1, <4>1 DEF Jobs, BusyJobs
    <3>3. service' = [n EXCEPT !.job = k]
      <4>1. service' = [n EXCEPT !.job.at = "after"]
        BY <2>9, <2>10, <2>12 DEF Trading!Succeeds
      <4> QED BY <2>9, <3>1, <4>1 DEF Market
    <3>4. /\ service' \in Market /\ service'.done = service.done /\ service'.job = k
          /\ service'.chain = x /\ service'.lagging = service.chain
          /\ service'.behind = behind /\ service'.nonce = up
          /\ service'.pools = service.pools /\ service'.config = service.config
          /\ service'.deployed = service.deployed /\ service'.shown = service.shown
      BY <2>9, <3>2, <3>3 DEF Market
    <3>5. service.job.now = service.job.kind
      BY <1>1, <2>12 DEF TradeInv, Sent
    <3>6. Nonces(service')
      BY <2>5, <2>7, <3>2, <3>4 DEF Nonces
    <3>7. Touched(service')
      <4>1. /\ x.token = service.chain.token + Sign(service.job.kind)
            /\ x.native = service.chain.native - 1 - Sign(service.job.kind)
        BY <2>1, <2>2, <2>10, <2>12, <3>5
      <4>2. service.job.clean =>
              /\ service.chain.token = service.job.before.token
              /\ ~service.job.approved => service.chain.native = service.job.before.native
        BY <1>1 DEF TradeInv, Untouched
      <4> QED BY <2>12, <3>2, <3>4, <4>1, <4>2 DEF Touched
    <3>8. RouteIsQuoted(service'.pools, service'.job)
      BY <1>1, <3>2, <3>4 DEF TradeInv, RouteIsQuoted
    <3> QED BY <3>2, <3>4, <3>6, <3>7, <3>8 DEF TradeInv, Untouched, Sent, Recorded, Reported
  <2>13. CASE ok /\ service.job.now # "approve" /\ service.job.kind \notin {"buy", "sell"}
    <3>1. service' = [n EXCEPT !.job = Trading!Idle]
      BY <2>9, <2>10, <2>13 DEF Trading!Succeeds
    <3>2. service' = [n EXCEPT !.job = Trading!Idle, !.done = service.done, !.nonce = up]
      BY <2>9, <3>1 DEF Market
    <3>3. service.done \in Outcomes
      BY <1>1 DEF Market
    <3> QED BY <2>5, <2>7, <2>9, <3>2, <3>3, Giving
  <2> QED BY <2>6, <2>11, <2>12, <2>13
<1>8. ASSUME NEW behind \in BOOLEAN, NEW ok \in BOOLEAN,
             LET after == Trading!Effect(service.chain, IF ok THEN j.now ELSE "reverted")
                 m == [Trading!Mined(service, after) EXCEPT !.behind = behind] IN
             service' = IF ok THEN Trading!Succeeds([m EXCEPT !.nonce = count(TRUE)])
                        ELSE Trading!Gives(m, count(FALSE))
      PROVE  TradeInv(service')
  <2>1. PICK move : move = IF ok THEN j.now ELSE "reverted"
    OBVIOUS
  <2>2. PICK m : m = [Trading!Mined(service, Trading!Effect(service.chain, move)) EXCEPT !.behind = behind]
    OBVIOUS
  <2> QED BY <1>7, <1>8, <2>1, <2>2
<1> QED BY <1>6, <1>8 DEF Trading!Send

LEMMA TradeRecords ==
  ASSUME TradeInv(service), Trading!Record
  PROVE  TradeInv(service')
<1>1. /\ service \in Market /\ Nonces(service) /\ service.job \in BusyJobs /\ service.job.at = "after"
      /\ service.chain \in Trading!Wallet /\ service.nonce \in Nat /\ service.done \in Outcomes
  BY DEF TradeInv, Market, Jobs, Trading!Record, Trading!Idle
<1>2. /\ service.job.kind \in {"buy", "sell"} /\ service.job.before \in Trading!Wallet
      /\ service.job.clean \in BOOLEAN /\ service.job.approved \in BOOLEAN
  BY <1>1 DEF TradeInv, Touched, BusyJobs
<1>3. PICK see \in Trading!Wallet :
        /\ see = Trading!Seen
        /\ see = service.chain \/ (service.behind /\ see = service.lagging)
  BY <1>1, SeenIs
<1>4. see.token # service.job.before.token
  BY <1>3 DEF Trading!Record, Trading!ShowsTheTrade
<1>5. PICK token \in Int : token = see.token - service.job.before.token
  BY <1>2 DEF Trading!Wallet
<1>6. PICK native \in Int : native = see.native + 1 - service.job.before.native
  BY <1>2 DEF Trading!Wallet
<1>7. PICK d : d = [at |-> "record", kind |-> service.job.kind, clean |-> service.job.clean,
                    approved |-> service.job.approved, token |-> token, native |-> native]
  OBVIOUS
<1>8. /\ d \in Outcomes /\ d.kind = service.job.kind /\ d.clean = service.job.clean
      /\ d.approved = service.job.approved /\ d.token = token /\ d.native = native
  BY <1>2, <1>7 DEF Outcomes, Trades
<1>9. service' = [service EXCEPT !.job = Trading!Idle, !.done = d]
  BY <1>3, <1>5, <1>6, <1>7 DEF Trading!Record
<1>10. /\ service' \in Market /\ service'.done = d /\ service'.job = Trading!Idle
       /\ service'.chain = service.chain /\ service'.lagging = service.lagging
       /\ service'.nonce = service.nonce /\ service'.config = service.config
       /\ service'.deployed = service.deployed /\ service'.shown = service.shown
  BY <1>1, <1>8, <1>9 DEF Market, Jobs
<1>11. ASSUME d.clean
       PROVE  d.token = Sign(d.kind) /\ (~d.approved => d.native = -Sign(d.kind))
  <2>1. /\ service.chain.token = service.job.before.token + Sign(service.job.kind)
        /\ service.behind => service.lagging.token = service.job.before.token
        /\ ~service.job.approved =>
             service.chain.native = service.job.before.native - 1 - Sign(service.job.kind)
    BY <1>1, <1>8, <1>11 DEF TradeInv, Touched
  <2>2. see = service.chain
    BY <1>3, <1>4, <2>1
  <2>3. Sign(service.job.kind) \in Int
    BY DEF Sign
  <2>4. service.job.before.token \in Int /\ service.job.before.native \in Int
    BY <1>2 DEF Trading!Wallet
  <2>5. token = Sign(service.job.kind)
    BY <1>5, <2>1, <2>2, <2>3, <2>4
  <2>6. ~service.job.approved => native = -Sign(service.job.kind)
    BY <1>6, <2>1, <2>2, <2>3, <2>4
  <2> QED BY <1>8, <2>5, <2>6
<1>12. Recorded(service')
  BY <1>10, <1>11 DEF Recorded
<1>13. service.chain.next \in Nat /\ service.nonce <= service.chain.next
       /\ service.lagging.next <= service.chain.next
  BY <1>1 DEF Trading!Wallet, Nonces
<1> QED BY <1>10, <1>12, <1>13, IdleKeeps

LEMMA TradeDeploys ==
  ASSUME TradeInv(service), Trading!Deploy
  PROVE  TradeInv(service')
<1>1. service \in Market /\ Nonces(service)
  BY DEF TradeInv
<1>2. PICK see \in Trading!Wallet : see = Trading!Seen /\ see.next <= service.chain.next
  BY <1>1, SeenIs
<1>3. PICK clean \in BOOLEAN : clean = ~service.behind
  OBVIOUS
<1>4. PICK empty \in Routes : empty = <<>>
  <2>1. <<>> \in Routes
    BY DEF Routes
  <2> QED BY <2>1
<1>5. PICK k : k = [at |-> "ready", kind |-> "deploy", in |-> Native, out |-> Native, tier |-> 1,
                    route |-> empty, now |-> "deploy", nonce |-> 0, before |-> see,
                    clean |-> clean, approved |-> FALSE]
  OBVIOUS
<1>6. k \in BusyJobs /\ k.kind = "deploy"
  BY <1>5 DEF BusyJobs, Trades, Moves, Coins
<1>11. Trading!Job("deploy", Native, Native, 1, <<>>) = k
  BY <1>2, <1>3, <1>4, <1>5 DEF Trading!Job
<1>12. PICK n \in Nat : n = see.next
  BY DEF Trading!Wallet
<1>13. PICK j : j = [k EXCEPT !.at = "deploying", !.nonce = n]
  OBVIOUS
<1>14. j \in Jobs /\ j.at = "deploying" /\ j.nonce = n /\ j.kind = "deploy"
  BY <1>6, <1>13 DEF Jobs, BusyJobs
<1>15. PICK config \in BOOLEAN : config = FALSE
  OBVIOUS
<1>16. PICK none \in 0..5 : none = 0
  OBVIOUS
<1>8. service' = [service EXCEPT !.deployed = none, !.config = config, !.job = j]
  BY <1>2, <1>11, <1>12, <1>13, <1>15, <1>16 DEF Trading!Deploy
<1>9. /\ service' \in Market /\ service'.done = service.done /\ service'.job = j
      /\ service'.chain = service.chain /\ service'.lagging = service.lagging
      /\ service'.behind = service.behind /\ service'.nonce = service.nonce
      /\ service'.pools = service.pools /\ service'.config = config
      /\ service'.deployed = none /\ service'.shown = service.shown
  BY <1>1, <1>14, <1>8 DEF Market
<1>10. Nonces(service')
  BY <1>1, <1>2, <1>12, <1>14, <1>9 DEF Nonces
<1> QED BY <1>9, <1>10, <1>14, <1>15, <1>16
    DEF TradeInv, Untouched, Touched, Sent, Recorded, RouteIsQuoted, Reported

LEMMA TradeDeploysOn ==
  ASSUME TradeInv(service), Trading!DeployNext
  PROVE  TradeInv(service')
<1>1. /\ service \in Market /\ Nonces(service) /\ service.job \in BusyJobs /\ service.job.at = "deploying"
      /\ service.chain \in Trading!Wallet /\ service.chain.next \in Nat /\ service.job.nonce \in Nat
      /\ service.job.nonce <= service.chain.next
  BY DEF TradeInv, Market, Jobs, BusyJobs, Trading!DeployNext, Trading!Idle, Trading!Wallet, Nonces
<1>2. PICK d \in 0..4 : d = service.deployed
  BY <1>1 DEF TradeInv, Reported, Market
<1>3. PICK n \in 1..5 : n = d + 1
  OBVIOUS
<1>4. PICK config \in BOOLEAN : config = Trading!SetUp(n)
  BY DEF Trading!SetUp
<1>5. CASE service' = [service EXCEPT !.job = Trading!Idle, !.nonce = Trading!Seen.next,
                                      !.done = [at |-> "exit"]]
  <2>1. PICK see \in Trading!Wallet : see = Trading!Seen /\ see.next <= service.chain.next
    BY <1>1, SeenIs
  <2>2. PICK up \in Nat : up = see.next /\ up <= service.chain.next
    BY <2>1 DEF Trading!Wallet
  <2>3. PICK e : e = [at |-> "exit"]
    OBVIOUS
  <2>4. e \in Outcomes /\ e.at # "record"
    BY <2>3 DEF Outcomes
  <2>5. service' = [service EXCEPT !.job = Trading!Idle, !.done = e, !.nonce = up]
    BY <1>5, <2>1, <2>2, <2>3
  <2>6. service.lagging.next <= service.chain.next
    BY <1>1 DEF Nonces
  <2> QED BY <1>1, <2>2, <2>4, <2>5, <2>6, Giving
<1>6. ASSUME NEW m, m = Trading!Mined(service, Trading!Effect(service.chain, "deploy")),
             service' = [m EXCEPT !.deployed = n, !.config = config, !.behind = FALSE,
                                  !.job = IF n = 5 THEN Trading!Idle ELSE Trading!Later(service.job)]
      PROVE  TradeInv(service')
  <2>1. PICK e \in Trading!Wallet : e = Trading!Effect(service.chain, "deploy")
    BY <1>1, TradeEffectIs
  <2>2. PICK x \in Trading!Wallet :
          /\ Trading!Mined(service, e) = [service EXCEPT !.chain = x, !.lagging = service.chain]
          /\ x.next = service.chain.next + 1
    BY <1>1, MinedIs
  <2>3. PICK k \in Nat : k = service.job.nonce + 1
    BY <1>1
  <2>4. PICK j : j = IF n = 5 THEN Trading!Idle ELSE [service.job EXCEPT !.nonce = k]
    OBVIOUS
  <2>5. PICK later : later = [service.job EXCEPT !.nonce = k]
    OBVIOUS
  <2>6. later \in BusyJobs /\ later.at = "deploying" /\ later.nonce = k /\ later.kind = service.job.kind
    BY <1>1, <2>5 DEF BusyJobs
  <2>7. /\ j \in Jobs
        /\ n = 5 => j = Trading!Idle /\ j.at = "idle"
        /\ n # 5 => j.at = "deploying" /\ j.nonce = k
    BY <2>4, <2>5, <2>6 DEF Jobs, Trading!Idle
  <2>8. PICK still \in BOOLEAN : still = FALSE
    OBVIOUS
  <2>9. m = [service EXCEPT !.chain = x, !.lagging = service.chain]
    BY <1>6, <2>1, <2>2
  <2>10. service' = [m EXCEPT !.deployed = n, !.config = config, !.behind = still, !.job = j]
    BY <1>6, <2>3, <2>4, <2>8 DEF Trading!Later
  <2>11. /\ m \in Market /\ m.chain = x /\ m.lagging = service.chain /\ m.nonce = service.nonce
         /\ m.done = service.done /\ m.pools = service.pools /\ m.shown = service.shown
    BY <1>1, <2>9 DEF Market
  <2>12. n \in 0..5
    OBVIOUS
  <2>13. /\ service' \in Market /\ service'.done = service.done /\ service'.job = j
         /\ service'.chain = x /\ service'.lagging = service.chain /\ service'.nonce = service.nonce
         /\ service'.pools = service.pools /\ service'.config = config
         /\ service'.deployed = n /\ service'.shown = service.shown
    BY <2>7, <2>10, <2>11, <2>12 DEF Market
  <2>14. Nonces(service')
    <3>1. PICK z \in Nat : z = service.chain.next
      BY <1>1
    <3>2. x.next = z + 1
      BY <2>2, <3>1
    <3>3. k <= x.next
      BY <1>1, <2>3, <3>1, <3>2
    <3>4. PICK q \in Nat : q = service.nonce /\ q <= z
      BY <1>1, <3>1 DEF Nonces, Market
    <3>5. q <= x.next /\ z <= x.next
      BY <3>2, <3>4
    <3> QED BY <2>7, <2>13, <3>1, <3>3, <3>4, <3>5 DEF Nonces
  <2>15. (config => n = 5) /\ (n # 5 => n < 5)
    <3>1. config => n = 5
      BY <1>4, Zenon DEF Trading!SetUp
    <3>2. n # 5 => n < 5
      OBVIOUS
    <3> QED BY <3>1, <3>2
  <2>16. Reported(service')
    BY <1>1, <2>7, <2>13, <2>15 DEF TradeInv, Reported
  <2>17. j.at \in {"idle", "deploying"}
    BY <2>7
  <2>18. /\ Untouched(service') /\ Touched(service') /\ Sent(service')
         /\ RouteIsQuoted(service'.pools, service'.job)
    BY <2>13, <2>17 DEF Untouched, Touched, Sent, RouteIsQuoted
  <2>19. Recorded(service')
    BY <2>13 DEF TradeInv, Recorded
  <2> QED BY <2>13, <2>14, <2>16, <2>18, <2>19 DEF TradeInv
<1>7. CASE LET m == Trading!Mined(service, Trading!Effect(service.chain, "deploy")) IN
           service' = [m EXCEPT !.deployed = n, !.config = config, !.behind = FALSE,
                                !.job = IF n = 5 THEN Trading!Idle ELSE Trading!Later(service.job)]
  BY <1>6, <1>7
<1>8. ASSUME NEW m, m = Trading!Mined(service, Trading!Effect(service.chain, "deploy"))
      PROVE  m.job = service.job
  <2>1. PICK e \in Trading!Wallet : e = Trading!Effect(service.chain, "deploy")
    BY <1>1, TradeEffectIs
  <2>2. PICK x \in Trading!Wallet :
          /\ Trading!Mined(service, e) = [service EXCEPT !.chain = x, !.lagging = service.chain]
          /\ x.next = service.chain.next + 1
    BY <1>1, MinedIs
  <2> QED BY <1>1, <1>8, <2>1, <2>2 DEF Market
<1>9. CASE LET m == Trading!Mined(service, Trading!Effect(service.chain, "deploy")) IN
           service' = [m EXCEPT !.deployed = n, !.config = config, !.behind = FALSE,
                                !.job = IF n = 5 THEN Trading!Idle ELSE Trading!Later(@)]
  BY <1>7, <1>8, <1>9
<1> QED BY <1>2, <1>3, <1>4, <1>5, <1>9 DEF Trading!DeployNext

LEMMA TradeElsewhere ==
  ASSUME TradeInv(service), Trading!Elsewhere
  PROVE  TradeInv(service')
<1>1. /\ service \in Market /\ Nonces(service) /\ service.job \in Jobs
      /\ service.chain \in Trading!Wallet /\ service.chain.next \in Nat /\ service.nonce \in Nat
  BY DEF TradeInv, Market, Trading!Wallet
<1>2. PICK kind \in {"transfer", "other"}, behind \in BOOLEAN :
        service' = [Trading!Mined(service, Trading!Effect(service.chain, kind)) EXCEPT
                      !.behind = behind,
                      !.job = IF @.at = "idle" THEN @ ELSE [@ EXCEPT !.clean = FALSE]]
  BY DEF Trading!Elsewhere
<1>3. PICK e \in Trading!Wallet : e = Trading!Effect(service.chain, kind)
  BY <1>1, TradeEffectIs
<1>4. PICK x \in Trading!Wallet :
        /\ Trading!Mined(service, e) = [service EXCEPT !.chain = x, !.lagging = service.chain]
        /\ x.next = service.chain.next + 1
  BY <1>1, MinedIs
<1>5. PICK m : m = Trading!Mined(service, e)
  OBVIOUS
<1>6. /\ m \in Market /\ m.chain = x /\ m.lagging = service.chain /\ m.nonce = service.nonce
      /\ m.done = service.done /\ m.pools = service.pools /\ m.shown = service.shown
      /\ m.job = service.job /\ m.config = service.config /\ m.deployed = service.deployed
  BY <1>1, <1>4, <1>5 DEF Market
<1>7. PICK clean \in BOOLEAN : clean = FALSE
  OBVIOUS
<1>8. PICK j : j = IF service.job.at = "idle" THEN service.job ELSE [service.job EXCEPT !.clean = clean]
  OBVIOUS
<1>9. service' = [m EXCEPT !.behind = behind, !.job = j]
  BY <1>2, <1>3, <1>5, <1>6, <1>7, <1>8
<1>10. CASE service.job.at = "idle"
  <2>1. /\ service' \in Market /\ service'.done = service.done /\ service'.job = service.job
        /\ service'.chain = x /\ service'.lagging = service.chain /\ service'.nonce = service.nonce
        /\ service'.pools = service.pools /\ service'.config = service.config
        /\ service'.deployed = service.deployed /\ service'.shown = service.shown
    BY <1>1, <1>6, <1>8, <1>9, <1>10 DEF Market
  <2>2. Nonces(service')
    BY <1>1, <1>4, <1>10, <2>1 DEF Nonces
  <2> QED BY <1>10, <2>1, <2>2
      DEF TradeInv, Untouched, Touched, Sent, Recorded, RouteIsQuoted, Reported
<1>11. CASE service.job.at # "idle"
  <2>1. service.job \in BusyJobs
    BY <1>1, <1>11 DEF Jobs, Trading!Idle
  <2>2. /\ j \in BusyJobs /\ j.at = service.job.at /\ j.kind = service.job.kind /\ j.in = service.job.in
        /\ j.out = service.job.out /\ j.tier = service.job.tier /\ j.route = service.job.route
        /\ j.now = service.job.now /\ j.nonce = service.job.nonce /\ j.clean = clean
        /\ j.approved = service.job.approved
    BY <1>8, <1>11, <2>1 DEF BusyJobs
  <2>3. /\ service' \in Market /\ service'.done = service.done /\ service'.job = j
        /\ service'.chain = x /\ service'.lagging = service.chain /\ service'.nonce = service.nonce
        /\ service'.pools = service.pools /\ service'.config = service.config
        /\ service'.deployed = service.deployed /\ service'.shown = service.shown
    BY <1>6, <1>9, <2>2 DEF Market, Jobs
  <2>4. Nonces(service')
    <3>1. PICK z \in Nat : z = service.chain.next
      BY <1>1
    <3>2. x.next = z + 1
      BY <1>4, <3>1
    <3>3. PICK q \in Nat : q = service.nonce /\ q <= z
      BY <1>1, <3>1 DEF Nonces
    <3>4. PICK s \in Nat : s = service.job.nonce
      BY <2>1 DEF BusyJobs
    <3>5. service.job.at \in {"sending", "deploying"} => s <= z
      BY <1>1, <3>1, <3>4 DEF Nonces
    <3>6. q <= x.next /\ z <= x.next /\ (s <= z => s <= x.next)
      BY <3>2, <3>3, <3>4
    <3> QED BY <2>2, <2>3, <3>1, <3>3, <3>4, <3>5, <3>6 DEF Nonces
  <2>5. Untouched(service')
    BY <1>7, <2>2, <2>3 DEF Untouched
  <2>6. Touched(service')
    BY <1>7, <2>2, <2>3 DEF TradeInv, Touched
  <2>7. Sent(service') /\ Recorded(service')
    BY <2>2, <2>3 DEF TradeInv, Sent, Recorded
  <2>8. RouteIsQuoted(service'.pools, service'.job)
    BY <2>2, <2>3 DEF TradeInv, RouteIsQuoted
  <2>9. Reported(service')
    BY <2>2, <2>3 DEF TradeInv, Reported
  <2> QED BY <2>3, <2>4, <2>5, <2>6, <2>7, <2>8, <2>9 DEF TradeInv
<1> QED BY <1>10, <1>11

LEMMA TradeCatchesUp ==
  ASSUME TradeInv(service), Trading!CatchUp
  PROVE  TradeInv(service')
<1>1. PICK behind \in BOOLEAN : behind = FALSE
  OBVIOUS
<1>2. service' = [service EXCEPT !.behind = behind] /\ service \in Market
  BY <1>1 DEF Trading!CatchUp, TradeInv
<1>3. /\ service' \in Market /\ service'.done = service.done /\ service'.job = service.job
      /\ service'.chain = service.chain /\ service'.lagging = service.lagging
      /\ service'.nonce = service.nonce /\ service'.behind = behind
      /\ service'.pools = service.pools /\ service'.config = service.config
      /\ service'.deployed = service.deployed /\ service'.shown = service.shown
  BY <1>2 DEF Market
<1> QED BY <1>1, <1>3
    DEF TradeInv, Nonces, Untouched, Touched, Sent, Recorded, RouteIsQuoted, Reported

-----------------------------------------------------------------------------
(* Reports.                                                                *)

(* A sample has its records in order. *)
LEMMA SampleIs ==
  ASSUME NEW total \in Nat \ {0}, NEW n \in Nat \ {0, 1}
  PROVE  LET s == Trading!Sample(total, n)
         IN  s \in Seq(Nat) /\ \A i \in 2..Len(s) : s[i - 1] < s[i]
<1>1. CASE total <= n
  <2>1. PICK s : s = [i \in 1..total |-> i - 1]
    OBVIOUS
  <2>2. \A i \in 1..total : i - 1 \in Nat
    OBVIOUS
  <2>3. s \in Seq(Nat) /\ Len(s) = total /\ \A i \in 1..total : s[i] = i - 1
    BY <2>1, <2>2
  <2>4. \A i \in 2..total : i - 1 \in 1..total /\ i \in 1..total /\ (i - 1) - 1 < i - 1
    OBVIOUS
  <2>5. Trading!Sample(total, n) = s
    BY <1>1, <2>1 DEF Trading!Sample
  <2> QED BY <2>3, <2>4, <2>5
<1>2. CASE ~(total <= n)
  <2>1. PICK k \in Nat : k = n - 1 /\ k >= 1 /\ total > n
    BY <1>2
  <2>2. PICK step \in Nat : step = (total - 1) \div k /\ step * k <= total - 1 /\ step >= 1
    <3>1. PICK last \in Nat : last = total - 1 /\ last >= k
      BY <2>1
    <3>2. (last \div k) \in Int /\ (last % k) \in 0..(k - 1) /\ last = k * (last \div k) + (last % k)
      BY <2>1, <3>1
    <3>3. PICK q \in Int, z \in 0..(k - 1) : q = last \div k /\ last = k * q + z
      BY <3>2
    <3>4. q >= 1
      <4>1. CASE q <= 0
        <5>1. k * q <= 0
          BY <2>1, <4>1
        <5> QED BY <3>1, <3>3, <5>1
      <4> QED BY <4>1
    <3>5. k * q = q * k /\ q * k <= last
      BY <3>3
    <3> QED BY <3>1, <3>3, <3>4, <3>5
  <2>3. PICK s : s = [i \in 1..n |-> IF i = n THEN total - 1 ELSE (i - 1) * step]
    OBVIOUS
  <2>4. \A i \in 1..n : (IF i = n THEN total - 1 ELSE (i - 1) * step) \in Nat
    OBVIOUS
  <2>5. s \in Seq(Nat) /\ Len(s) = n
        /\ \A i \in 1..n : s[i] = IF i = n THEN total - 1 ELSE (i - 1) * step
    BY <2>3, <2>4
  <2>6. ASSUME NEW i \in 2..n
        PROVE  s[i - 1] < s[i]
    <3>1. PICK h \in Nat : h = i - 2
      OBVIOUS
    <3>2. PICK v \in Nat : v = h * step
      OBVIOUS
    <3>3. s[i - 1] = v
      BY <2>5, <3>1, <3>2
    <3>4. CASE i # n
      <4>1. (h + 1) * step = v + step
        BY <3>2
      <4>2. s[i] = (h + 1) * step
        BY <2>5, <3>1, <3>4
      <4> QED BY <2>2, <3>3, <4>1, <4>2
    <3>5. CASE i = n
      <4>1. k * step = v + step
        <5>1. k = h + 1
          BY <2>1, <3>1, <3>5
        <5> QED BY <3>2, <5>1
      <4>2. s[i] = total - 1
        BY <2>5, <3>5
      <4>3. v + step <= total - 1
        BY <2>2, <4>1
      <4> QED BY <2>2, <3>3, <4>2, <4>3
    <3> QED BY <3>4, <3>5
  <2>7. Trading!Sample(total, n) = s
    BY <1>2, <2>1, <2>2, <2>3 DEF Trading!Sample
  <2> QED BY <2>5, <2>6, <2>7
<1> QED BY <1>1, <1>2

LEMMA TradeShows ==
  ASSUME TradeInv(service), Trading!GetInfo
  PROVE  TradeInv(service')
<1>1. PICK total \in 1..MaxRecords, n \in 2..MaxRecords :
        service' = [service EXCEPT !.shown = Trading!Sample(total, n)]
  BY DEF Trading!GetInfo
<1>2. total \in Nat \ {0} /\ n \in Nat \ {0, 1}
  OBVIOUS
<1>3. PICK s : s = Trading!Sample(total, n)
  OBVIOUS
<1>4. s \in Seq(Nat) /\ \A i \in 2..Len(s) : s[i - 1] < s[i]
  BY <1>2, <1>3, SampleIs
<1>5. service' = [service EXCEPT !.shown = s] /\ service \in Market
  BY <1>1, <1>3 DEF TradeInv
<1>6. /\ service' \in Market /\ service'.done = service.done /\ service'.job = service.job
      /\ service'.chain = service.chain /\ service'.lagging = service.lagging
      /\ service'.nonce = service.nonce /\ service'.behind = service.behind
      /\ service'.pools = service.pools /\ service'.config = service.config
      /\ service'.deployed = service.deployed /\ service'.shown = s
  BY <1>4, <1>5 DEF Market
<1> QED BY <1>4, <1>6
    DEF TradeInv, Nonces, Untouched, Touched, Sent, Recorded, RouteIsQuoted, Reported

-----------------------------------------------------------------------------
(* The client.                                                             *)

LEMMA TradeInit == Trading!Init => TradeInv(service)
<1> SUFFICES ASSUME Trading!Init
             PROVE  TradeInv(service)
  OBVIOUS
<1>1. PICK pools \in SUBSET Trading!Pools, approved \in BOOLEAN :
        LET start == [next |-> 0, token |-> 0, native |-> 0, approved |-> approved] IN
        service = [chain |-> start, lagging |-> start, behind |-> FALSE, pools |-> pools,
                   nonce |-> 0, config |-> FALSE, deployed |-> 0, job |-> Trading!Idle,
                   done |-> Trading!Idle, shown |-> <<>>]
  BY DEF Trading!Init
<1>2. PICK start : start = [next |-> 0, token |-> 0, native |-> 0, approved |-> approved]
  OBVIOUS
<1>3. start \in Trading!Wallet /\ start.next = 0
  BY <1>2 DEF Trading!Wallet
<1>4. PICK idle : idle = Trading!Idle
  OBVIOUS
<1>5. idle \in Jobs /\ idle \in Outcomes /\ idle.at = "idle"
  BY <1>4 DEF Jobs, Outcomes, Trading!Idle
<1>6. PICK none \in BOOLEAN : none = FALSE
  OBVIOUS
<1>7. PICK shown : shown = <<>>
  OBVIOUS
<1>8. shown \in Seq(Nat) /\ Len(shown) = 0
  BY <1>7
<1>9. service = [chain |-> start, lagging |-> start, behind |-> none, pools |-> pools,
                 nonce |-> 0, config |-> none, deployed |-> 0, job |-> idle,
                 done |-> idle, shown |-> shown]
  BY <1>1, <1>2, <1>4, <1>6, <1>7
<1>10. /\ service \in Market /\ service.chain = start /\ service.lagging = start
       /\ service.job = idle /\ service.done = idle /\ service.shown = shown
       /\ service.nonce = 0 /\ service.config = none
  BY <1>3, <1>5, <1>8, <1>9 DEF Market
<1> QED BY <1>3, <1>5, <1>6, <1>8, <1>10
    DEF TradeInv, Nonces, Untouched, Touched, Sent, Recorded, RouteIsQuoted, Reported

LEMMA TradeStep == TradeInv(service) /\ Trading!Next => TradeInv(service')
  BY TradeStarts, TradeParams, TradeSends, TradeRecords, TradeDeploys, TradeDeploysOn,
     TradeElsewhere, TradeCatchesUp, TradeShows DEF Trading!Next

LEMMA TradeImplies ==
  ASSUME TradeInv(service)
  PROVE  /\ Trading!TypeOK /\ Trading!NoncesLeaveNoGap /\ Trading!RecordsAreTheTrades
         /\ Trading!RoutesAreQuoted /\ Trading!ReportsAreWhole
<1>1. service \in Market
  BY DEF TradeInv
<1>2. Trading!TypeOK
  <2>1. service.job.at \in {"idle", "ready", "sending", "after", "deploying"}
    BY <1>1 DEF Market, Jobs, BusyJobs, Trading!Idle
  <2> QED BY <1>1, <2>1 DEF Market, Trading!TypeOK
<1>3. Trading!NoncesLeaveNoGap
  BY DEF TradeInv, Nonces, Trading!NoncesLeaveNoGap
<1>4. Trading!RecordsAreTheTrades
  BY DEF TradeInv, Recorded, Sign, Trading!RecordsAreTheTrades
<1>5. Trading!RoutesAreQuoted
  BY DEF TradeInv, RouteIsQuoted, Paired, Trading!RoutesAreQuoted
<1>6. Trading!ReportsAreWhole
  BY DEF TradeInv, Reported, Trading!ReportsAreWhole
<1> QED BY <1>2, <1>3, <1>4, <1>5, <1>6

-----------------------------------------------------------------------------
(* The tool server of a vector store.                                      *)

(* Functions of values V with some of S for their domain.                  *)
PartialOf(S, V) == UNION {[D -> V] : D \in SUBSET S}

Remembered == [content : Texts, meta : Chroma!Metas]

Told == [type : {"create", "update", "delete"}, content : Texts \cup {"none"}]

Errors == {"failed", "already exists", "not found"}

Words == Errors \cup {"created", "updated", "deleted", "read", "listed", "found"}

Parts == Words \cup Remembered \cup SUBSET Memories

Replies == Seq(Parts)

Trying == [at : {"try"}, ask : Chroma!Asks, tries : 0..(Tries - 1), left : 1..Tries]

Deleting ==
  [at : {"delete"}, ask : [name : {"delete"}, id : Memories], tries : 0..(Tries - 1), left : 1..(Tries - 1)]

ToolCall == {Chroma!Quiet} \cup [at : {"done"}, reply : Replies] \cup Trying \cup Deleting

Shop ==
  [docs : PartialOf(Memories, Remembered), hub : PartialOf(Memories, Told), call : [Clients -> ToolCall],
   stuck : BOOLEAN, calls : Nat, faults : Nat, apart : SUBSET Memories]

Mirrored(s) ==
  \A i \in Memories \ s.apart :
    /\ i \in DOMAIN s.docs <=> (i \in DOMAIN s.hub /\ s.hub[i].type # "delete")
    /\ i \in DOMAIN s.docs => s.hub[i].content = s.docs[i].content

ChromaInv(s) == s \in Shop /\ Mirrored(s)

LEMMA PartialIs ==
  ASSUME NEW S, NEW V, NEW f
  PROVE  f \in PartialOf(S, V) <=> (DOMAIN f \subseteq S /\ f \in [DOMAIN f -> V])
  BY DEF PartialOf

(* g is f with v at an id; f without an id. *)
Puts(f, g, id, v) ==
  /\ DOMAIN g = {id} \cup DOMAIN f /\ g[id] = v
  /\ \A i \in DOMAIN f : i # id => g[i] = f[i]

Drops(f, g, id) == DOMAIN g = DOMAIN f \ {id} /\ \A i \in DOMAIN g : g[i] = f[i]

LEMMA ChromaPutIs ==
  ASSUME NEW V, NEW f \in PartialOf(Memories, V), NEW id \in Memories, NEW v \in V,
         NEW g, g = Chroma!Put(f, id, v)
  PROVE  g \in PartialOf(Memories, V) /\ Puts(f, g, id, v)
<1>1. DOMAIN f \subseteq Memories /\ f \in [DOMAIN f -> V]
  BY PartialIs
<1>2. /\ DOMAIN g = {id} \cup DOMAIN f /\ g[id] = v
      /\ \A i \in DOMAIN f : i # id => g[i] = f[i]
      /\ g \in [DOMAIN g -> V]
  BY <1>1 DEF Chroma!Put
<1> QED BY <1>1, <1>2, PartialIs DEF Puts

LEMMA ChromaDropIs ==
  ASSUME NEW V, NEW f \in PartialOf(Memories, V), NEW id,
         NEW g, g = Chroma!Drop(f, id)
  PROVE  g \in PartialOf(Memories, V) /\ Drops(f, g, id)
<1>1. DOMAIN f \subseteq Memories /\ f \in [DOMAIN f -> V]
  BY PartialIs
<1>2. /\ DOMAIN g = DOMAIN f \ {id} /\ \A i \in DOMAIN g : g[i] = f[i]
      /\ g \in [DOMAIN g -> V]
  BY <1>1 DEF Chroma!Drop
<1> QED BY <1>1, <1>2, PartialIs DEF Drops

(* Nothing is changed but what a client is told. *)
Replied(s, t) ==
  /\ t \in Shop /\ t.docs = s.docs /\ t.hub = s.hub /\ t.stuck = s.stuck /\ t.apart = s.apart

LEMMA ReplyIs ==
  ASSUME NEW s \in Shop, NEW c \in Clients, NEW r \in Replies, NEW t, t = Chroma!Reply(s, c, r)
  PROVE  Replied(s, t)
<1>1. PICK e : e = [at |-> "done", reply |-> r]
  OBVIOUS
<1>2. e \in ToolCall
  BY <1>1 DEF ToolCall
<1>3. t = [s EXCEPT !.call[c] = e]
  BY <1>1 DEF Chroma!Reply
<1> QED BY <1>2, <1>3 DEF Shop, Replied

LEMMA PairIsReply ==
  ASSUME NEW a \in Parts, NEW b \in Parts
  PROVE  <<a, b>> \in Replies
  BY DEF Replies

LEMMA RaiseIs ==
  ASSUME NEW s \in Shop, NEW c \in Clients, s.call[c] \in Trying \/ s.call[c] \in Deleting,
         NEW error \in Errors, NEW t, t = Chroma!Raise(s, c, error)
  PROVE  Replied(s, t)
<1>1. <<error>> \in Replies
  BY DEF Replies, Parts, Words
<1>2. s.call[c].tries \in 0..(Tries - 1) /\ s.call[c].left \in 1..Tries /\ s.call[c].ask \in Chroma!Asks
  BY ToolServerAssumption DEF Trying, Deleting, Chroma!Asks
<1>3. CASE s.call[c].tries = Tries - 1
  BY <1>1, <1>3, ReplyIs DEF Chroma!Raise
<1>4. CASE s.call[c].tries # Tries - 1
  <2>1. PICK k \in 0..(Tries - 1) : k = s.call[c].tries + 1
    BY <1>2, <1>4, ToolServerAssumption
  <2>2. PICK e : e = [s.call[c] EXCEPT !.tries = k, !.at = "try"]
    OBVIOUS
  <2>3. e \in Trying
    BY <1>2, <2>2, ToolServerAssumption DEF Trying, Deleting
  <2>4. t = [s EXCEPT !.call[c].tries = k, !.call[c].at = "try"]
    BY <1>4, <2>1 DEF Chroma!Raise
  <2>5. t = [s EXCEPT !.call[c] = e]
    BY <2>2, <2>4 DEF Shop
  <2>6. e \in ToolCall
    BY <2>3 DEF ToolCall
  <2> QED BY <2>5, <2>6 DEF Shop, Replied
<1> QED BY <1>3, <1>4

SameBut(f, g, id) ==
  \A i \in Memories \ {id} : (i \in DOMAIN f <=> i \in DOMAIN g) /\ (i \in DOMAIN f => g[i] = f[i])

(* A change of one id, which is apart or told to the hub. *)
Changed(s, t, id) ==
  /\ t \in Shop /\ SameBut(s.docs, t.docs, id) /\ SameBut(s.hub, t.hub, id)
  /\ s.apart \subseteq t.apart \cup {id}
  /\ id \notin t.apart =>
       /\ id \in DOMAIN t.docs <=> (id \in DOMAIN t.hub /\ t.hub[id].type # "delete")
       /\ id \in DOMAIN t.docs => t.hub[id].content = t.docs[id].content

LEMMA ChangedKeeps ==
  ASSUME NEW s, Mirrored(s), NEW t, NEW id \in Memories, Changed(s, t, id)
  PROVE  ChromaInv(t)
  BY DEF ChromaInv, Mirrored, Changed, SameBut

LEMMA RepliedKeeps ==
  ASSUME NEW s, ChromaInv(s), NEW t, Replied(s, t)
  PROVE  ChromaInv(t)
  BY DEF ChromaInv, Mirrored, Replied

LEMMA ChangedReplied ==
  ASSUME NEW s, NEW t, NEW id, Changed(s, t, id), NEW u, Replied(t, u)
  PROVE  Changed(s, u, id)
  BY DEF Changed, Replied

(* The hub has the record, or waits for it. *)
Uploaded(s, t, ask, type, as) ==
  /\ t \in Shop /\ t.docs = s.docs /\ t.call = s.call
  /\ \/ /\ t.apart = as /\ t.stuck = s.stuck /\ SameBut(s.hub, t.hub, ask.id)
        /\ ask.id \in DOMAIN t.hub /\ t.hub[ask.id].type = type
        /\ type # "delete" => t.hub[ask.id].content = ask.content
     \/ t.stuck /\ t.hub = s.hub /\ t.apart = s.apart \cup {ask.id}

LEMMA UploadIs ==
  ASSUME NEW s \in Shop, NEW ask, ask.id \in Memories, NEW type \in {"create", "update", "delete"},
         type # "delete" => ask.content \in Texts, NEW as, as \subseteq Memories,
         NEW t \in Chroma!Upload(s, ask, type, as)
  PROVE  Uploaded(s, t, ask, type, as)
<1>1. CASE t = [s EXCEPT !.hub = Chroma!Put(@, ask.id, [type |-> type,
                            content |-> IF type = "delete" THEN "none" ELSE ask.content]), !.apart = as]
  <2>1. PICK v : v = [type |-> type, content |-> IF type = "delete" THEN "none" ELSE ask.content]
    OBVIOUS
  <2>2. v \in Told /\ v.type = type /\ (type # "delete" => v.content = ask.content)
    BY <2>1 DEF Told
  <2>4. PICK h \in PartialOf(Memories, Told) : h = s.hub
    BY DEF Shop
  <2>10. PICK id \in Memories : id = ask.id
    OBVIOUS
  <2>3. PICK g : g = Chroma!Put(h, id, v)
    OBVIOUS
  <2>11. v \in Told
    BY <2>2
  <2>5. g \in PartialOf(Memories, Told) /\ Puts(h, g, id, v)
    BY <2>11, <2>3, ChromaPutIs
  <2>6. t = [s EXCEPT !.hub = g, !.apart = as]
    BY <1>1, <2>1, <2>3, <2>4, <2>10
  <2>7. t \in Shop /\ t.docs = s.docs /\ t.call = s.call /\ t.apart = as /\ t.hub = g
        /\ t.stuck = s.stuck
    BY <2>5, <2>6 DEF Shop
  <2> QED BY <2>2, <2>4, <2>5, <2>7, <2>10 DEF SameBut, Puts, Uploaded
<1>2. CASE t = [Chroma!Faulty(s) EXCEPT !.stuck = TRUE, !.apart = @ \cup {ask.id}]
  <2>1. PICK b \in BOOLEAN : b
    OBVIOUS
  <2>2. PICK n \in Nat : n = s.faults + 1
    BY DEF Shop
  <2>3. PICK as2 : as2 = s.apart \cup {ask.id}
    OBVIOUS
  <2>4. as2 \subseteq Memories
    BY <2>3 DEF Shop
  <2>5. Chroma!Faulty(s) = [s EXCEPT !.faults = n]
    BY <2>2 DEF Chroma!Faulty
  <2>6. PICK u : u = [s EXCEPT !.faults = n]
    OBVIOUS
  <2>7. /\ u \in Shop /\ u.docs = s.docs /\ u.hub = s.hub /\ u.call = s.call /\ u.apart = s.apart
    BY <2>2, <2>6 DEF Shop
  <2>8. t = [u EXCEPT !.stuck = b, !.apart = as2]
    BY <1>2, <2>1, <2>3, <2>5, <2>6, <2>7
  <2>9. t \in Shop /\ t.docs = s.docs /\ t.call = s.call /\ t.apart = as2 /\ t.hub = s.hub /\ t.stuck = b
    BY <2>4, <2>7, <2>8 DEF Shop
  <2> QED BY <2>1, <2>3, <2>9 DEF Uploaded
<1> QED BY <1>1, <1>2 DEF Chroma!Upload

(* What fails leaves the memory apart. *)
LEMMA FailureIs ==
  ASSUME NEW s \in Shop, NEW c \in Clients, s.call[c] \in Trying, s.call[c].ask.id \in Memories,
         NEW u \in Shop, u.call = s.call, NEW v \in {s, u}, u.hub = s.hub,
         SameBut(s.docs, u.docs, s.call[c].ask.id), s.apart \subseteq u.apart \cup {s.call[c].ask.id},
         NEW t, t = Chroma!Raise([Chroma!Faulty(v) EXCEPT !.apart = @ \cup {s.call[c].ask.id}], c, "failed")
  PROVE  Changed(s, t, s.call[c].ask.id)
<1>1. PICK id \in Memories : id = s.call[c].ask.id
  OBVIOUS
<1>2. PICK n \in Nat : n = v.faults + 1
  BY DEF Shop
<1>3. PICK as : as = v.apart \cup {id}
  OBVIOUS
<1>4. as \subseteq Memories
  BY <1>3 DEF Shop
<1>5. PICK w : w = [v EXCEPT !.faults = n, !.apart = as]
  OBVIOUS
<1>6. w = [Chroma!Faulty(v) EXCEPT !.apart = @ \cup {s.call[c].ask.id}]
  BY <1>1, <1>2, <1>3, <1>5 DEF Chroma!Faulty, Shop
<1>7. w \in Shop /\ w.call = s.call /\ w.docs = v.docs /\ w.hub = v.hub /\ w.apart = as
  BY <1>2, <1>4, <1>5 DEF Shop
<1>8. "failed" \in Errors
  BY DEF Errors
<1>9. Replied(w, t)
  BY <1>6, <1>7, <1>8, RaiseIs
<1>10. SameBut(s.docs, v.docs, id) /\ SameBut(s.hub, v.hub, id) /\ s.apart \subseteq as
  BY <1>1, <1>3 DEF SameBut
<1> QED BY <1>1, <1>3, <1>7, <1>9, <1>10 DEF Changed, Replied

LEMMA AskIs ==
  ASSUME NEW ask \in Chroma!Asks
  PROVE  /\ ask.name \in {"create", "update", "read", "delete", "list", "search"}
         /\ ask.name \in {"create", "update"} =>
              ask.id \in Memories /\ ask.content \in Texts /\ ask.meta \in Chroma!Metas
         /\ ask.name \in {"read", "delete"} => ask.id \in Memories
  BY DEF Chroma!Asks

(* What is stored and told to the hub, and what the hub waits for. *)
LEMMA StoredIs ==
  ASSUME NEW s, ChromaInv(s), NEW c \in Clients, s.call[c] \in Trying, NEW ask, ask = s.call[c].ask,
         ask.id \in Memories, ask.content \in Texts, NEW type \in {"create", "update"},
         NEW u \in Shop, u.hub = s.hub, u.call = s.call, u.apart = s.apart,
         Puts(s.docs, u.docs, ask.id, u.docs[ask.id]), u.docs[ask.id].content = ask.content,
         NEW v \in Chroma!Upload(u, ask, type, s.apart \ {ask.id}),
         NEW word \in Words, NEW t, t = IF v.stuck THEN v ELSE Chroma!Reply(v, c, <<word>>)
  PROVE  ChromaInv(t)
<1>1. PICK id \in Memories : id = ask.id
  OBVIOUS
<1>2. PICK as : as = s.apart \ {id}
  OBVIOUS
<1>3. as \subseteq Memories
  BY <1>2 DEF ChromaInv, Shop
<1>4. /\ v \in Shop /\ v.docs = u.docs /\ v.call = u.call
      /\ \/ /\ v.apart = as /\ SameBut(u.hub, v.hub, id)
            /\ id \in DOMAIN v.hub /\ v.hub[id].type = type /\ v.hub[id].content = ask.content
         \/ v.stuck /\ v.hub = u.hub /\ v.apart = u.apart \cup {id}
  <2>1. v \in Chroma!Upload(u, ask, type, as) /\ type \in {"create", "update", "delete"}
        /\ type # "delete"
    BY <1>1, <1>2
  <2>2. Uploaded(u, v, ask, type, as)
    BY <1>3, <2>1, UploadIs
  <2> QED BY <1>1, <2>1, <2>2 DEF Uploaded
<1>5. SameBut(s.docs, v.docs, id) /\ id \in DOMAIN v.docs /\ v.docs[id].content = ask.content
  BY <1>1, <1>4 DEF SameBut, Puts
<1>6. SameBut(s.hub, v.hub, id)
  BY <1>4 DEF SameBut
<1>7. s.apart \subseteq v.apart \cup {id}
  BY <1>2, <1>4
<1>8. Changed(s, v, id)
  BY <1>4, <1>5, <1>6, <1>7 DEF Changed
<1>9. ChromaInv(v)
  BY <1>8, ChangedKeeps DEF ChromaInv
<1>10. CASE v.stuck
  BY <1>9, <1>10
<1>11. CASE ~v.stuck
  <2>1. <<word>> \in Replies
    BY DEF Replies, Parts
  <2>2. Replied(v, t)
    BY <1>4, <1>11, <2>1, ReplyIs
  <2> QED BY <1>9, <2>2, RepliedKeeps
<1> QED BY <1>10, <1>11

LEMMA RaisedKeeps ==
  ASSUME NEW s, ChromaInv(s), NEW c \in Clients, s.call[c] \in Trying, NEW error \in Errors,
         NEW t, t = Chroma!Raise(s, c, error)
  PROVE  ChromaInv(t)
  BY RaiseIs, RepliedKeeps DEF ChromaInv

LEMMA FailedKeeps ==
  ASSUME NEW s, ChromaInv(s), NEW c \in Clients, s.call[c] \in Trying, s.call[c].ask.id \in Memories,
         NEW u \in Shop, u.call = s.call, u.hub = s.hub, u.apart = s.apart,
         SameBut(s.docs, u.docs, s.call[c].ask.id), NEW t \in Chroma!Failures(s, c, u)
  PROVE  ChromaInv(t)
<1>1. PICK v \in {s, u} :
        t = Chroma!Raise([Chroma!Faulty(v) EXCEPT !.apart = @ \cup {s.call[c].ask.id}], c, "failed")
  BY DEF Chroma!Failures
<1>2. s \in Shop /\ Mirrored(s)
  BY DEF ChromaInv
<1>3. s.apart \subseteq u.apart \cup {s.call[c].ask.id}
  OBVIOUS
<1>4. Changed(s, t, s.call[c].ask.id)
  BY <1>1, <1>2, <1>3, FailureIs
<1> QED BY <1>2, <1>4, ChangedKeeps

LEMMA ChromaCreates ==
  ASSUME NEW s, ChromaInv(s), NEW c \in Clients, s.call[c] \in Trying, NEW ask, ask = s.call[c].ask,
         ask.name = "create", NEW t \in Chroma!Create(s, c, ask)
  PROVE  ChromaInv(t)
<1>1. s \in Shop /\ ask \in Chroma!Asks
  BY DEF ChromaInv, Trying
<1>2. ask.id \in Memories /\ ask.content \in Texts /\ ask.meta \in Chroma!Metas
  BY <1>1, AskIs
<1>3. "already exists" \in Errors /\ "failed" \in Errors /\ "created" \in Words
  BY DEF Errors, Words
<1>4. CASE Chroma!Exists(s, ask.id)
  BY <1>3, <1>4, RaisedKeeps DEF Chroma!Create
<1>5. CASE ~Chroma!Exists(s, ask.id)
  <2>1. PICK id \in Memories : id = ask.id
    BY <1>2
  <2>14. PICK meta \in Chroma!Metas : meta = IF ask.meta = "number" THEN "text" ELSE ask.meta
    BY <1>2 DEF Chroma!Metas
  <2>15. PICK content \in Texts : content = ask.content
    BY <1>2
  <2>2. PICK d \in Remembered : d.content = content /\ d = [content |-> content, meta |-> meta]
    BY DEF Remembered
  <2>3. PICK f \in PartialOf(Memories, Remembered) : f = s.docs
    BY <1>1 DEF Shop
  <2>4. PICK g : g = Chroma!Put(f, id, d)
    OBVIOUS
  <2>5. g \in PartialOf(Memories, Remembered) /\ Puts(f, g, id, d)
    BY <2>4, ChromaPutIs
  <2>6. PICK u : u = [s EXCEPT !.docs = g]
    OBVIOUS
  <2>7. u = Chroma!AddDoc(s, ask)
    BY <1>5, <2>14, <2>15, <2>1, <2>2, <2>3, <2>4, <2>6 DEF Chroma!AddDoc, Chroma!Exists
  <2>8. u \in Shop /\ u.docs = g /\ u.hub = s.hub /\ u.call = s.call /\ u.apart = s.apart
    BY <1>1, <2>5, <2>6 DEF Shop
  <2>9. Puts(s.docs, u.docs, id, u.docs[id]) /\ u.docs[id].content = ask.content
    BY <2>2, <2>3, <2>5, <2>8, <2>15 DEF Puts
  <2>10. SameBut(s.docs, u.docs, id)
    BY <2>9 DEF SameBut, Puts
  <2>11. CASE t \in Chroma!Said(Chroma!Upload(u, ask, "create", s.apart \ {ask.id}), c, "created")
    <3>1. PICK v \in Chroma!Upload(u, ask, "create", s.apart \ {ask.id}) :
            t = IF v.stuck THEN v ELSE Chroma!Reply(v, c, <<"created">>)
      BY <2>11 DEF Chroma!Said
    <3> QED BY <1>2, <1>3, <2>1, <2>8, <2>9, <3>1, StoredIs
  <2>12. CASE t \in Chroma!Failures(s, c, u)
    BY <2>1, <2>8, <2>10, <2>12, FailedKeeps
  <2>13. CASE t \in Chroma!Refusals(s, c, ask)
    BY <1>3, <2>13, RaisedKeeps DEF Chroma!Refusals
  <2> QED BY <1>5, <2>7, <2>11, <2>12, <2>13 DEF Chroma!Create
<1> QED BY <1>4, <1>5

LEMMA ChromaUpdates ==
  ASSUME NEW s, ChromaInv(s), NEW c \in Clients, s.call[c] \in Trying, NEW ask, ask = s.call[c].ask,
         ask.name = "update", NEW t \in Chroma!Update(s, c, ask)
  PROVE  ChromaInv(t)
<1>1. s \in Shop /\ ask \in Chroma!Asks
  BY DEF ChromaInv, Trying
<1>2. ask.id \in Memories /\ ask.content \in Texts /\ ask.meta \in Chroma!Metas
  BY <1>1, AskIs
<1>3. "not found" \in Errors /\ "updated" \in Words
  BY DEF Errors, Words
<1>4. CASE ~Chroma!Exists(s, ask.id)
  BY <1>3, <1>4, RaisedKeeps DEF Chroma!Update
<1>5. CASE Chroma!Exists(s, ask.id)
  <2>1. PICK id \in Memories : id = ask.id /\ id \in DOMAIN s.docs
    BY <1>2, <1>5 DEF Chroma!Exists
  <2>2. s.docs \in [DOMAIN s.docs -> Remembered] /\ DOMAIN s.docs \subseteq Memories
    BY <1>1, PartialIs DEF Shop
  <2>14. PICK meta \in Chroma!Metas : meta = IF ask.meta = "none" THEN s.docs[id].meta ELSE ask.meta
    BY <1>2, <2>1, <2>2 DEF Remembered
  <2>15. PICK content \in Texts : content = ask.content
    BY <1>2
  <2>3. PICK d \in Remembered : d.content = content /\ d = [content |-> content, meta |-> meta]
    BY DEF Remembered
  <2>4. PICK g : g = [s.docs EXCEPT ![id] = d]
    OBVIOUS
  <2>5. DOMAIN g = DOMAIN s.docs /\ g \in [DOMAIN s.docs -> Remembered] /\ Puts(s.docs, g, id, d)
    BY <2>1, <2>2, <2>4 DEF Puts
  <2>6. g \in PartialOf(Memories, Remembered)
    BY <2>2, <2>5, PartialIs
  <2>7. PICK u : u = [s EXCEPT !.docs = g]
    OBVIOUS
  <2>8. u = Chroma!UpdateDoc(s, ask)
    BY <1>1, <2>1, <2>3, <2>4, <2>7, <2>14, <2>15 DEF Chroma!UpdateDoc, Shop
  <2>9. u \in Shop /\ u.docs = g /\ u.hub = s.hub /\ u.call = s.call /\ u.apart = s.apart
    BY <1>1, <2>6, <2>7 DEF Shop
  <2>10. Puts(s.docs, u.docs, id, u.docs[id]) /\ u.docs[id].content = ask.content
    BY <2>3, <2>5, <2>9, <2>15 DEF Puts
  <2>11. SameBut(s.docs, u.docs, id)
    BY <2>10 DEF SameBut, Puts
  <2>12. CASE t \in Chroma!Said(Chroma!Upload(u, ask, "update", s.apart \ {ask.id}), c, "updated")
    <3>1. PICK v \in Chroma!Upload(u, ask, "update", s.apart \ {ask.id}) :
            t = IF v.stuck THEN v ELSE Chroma!Reply(v, c, <<"updated">>)
      BY <2>12 DEF Chroma!Said
    <3> QED BY <1>2, <1>3, <2>1, <2>9, <2>10, <3>1, StoredIs
  <2>13. CASE t \in Chroma!Failures(s, c, u)
    BY <2>1, <2>9, <2>11, <2>13, FailedKeeps
  <2> QED BY <1>5, <2>8, <2>12, <2>13 DEF Chroma!Update
<1> QED BY <1>4, <1>5

LEMMA ChromaReads ==
  ASSUME NEW s, ChromaInv(s), NEW c \in Clients, s.call[c] \in Trying, NEW ask, ask = s.call[c].ask,
         ask.name \in {"read", "list", "search"}, NEW t \in Chroma!Read(s, c, ask)
  PROVE  ChromaInv(t)
<1>1. s \in Shop /\ ask \in Chroma!Asks
  BY DEF ChromaInv, Trying
<1>2. "not found" \in Errors /\ "failed" \in Errors /\ {"read", "listed", "found"} \subseteq Words
  BY DEF Errors, Words
<1>3. DOMAIN s.docs \subseteq Memories /\ s.docs \in [DOMAIN s.docs -> Remembered]
  BY <1>1, PartialIs DEF Shop
<1>4. ASSUME NEW r \in Replies, t = Chroma!Reply(s, c, r)
      PROVE  ChromaInv(t)
  BY <1>1, <1>4, ReplyIs, RepliedKeeps
<1>5. CASE ask.name = "read" /\ Chroma!Exists(s, ask.id) /\ t = Chroma!Reply(s, c, <<"read", s.docs[ask.id]>>)
  <2>1. s.docs[ask.id] \in Remembered
    BY <1>3, <1>5 DEF Chroma!Exists
  <2>2. <<"read", s.docs[ask.id]>> \in Replies
    BY <1>2, <2>1, PairIsReply DEF Parts
  <2> QED BY <1>4, <1>5, <2>2
<1>6. CASE t = Chroma!Reply(s, c, <<"listed", DOMAIN s.docs>>)
  <2>1. <<"listed", DOMAIN s.docs>> \in Replies
    BY <1>2, <1>3, PairIsReply DEF Parts
  <2> QED BY <1>4, <1>6, <2>1
<1>7. CASE t = Chroma!Reply(s, c, <<"found", Chroma!Matches(s, ask)>>)
  <2>1. Chroma!Matches(s, ask) \in SUBSET Memories
    BY <1>3 DEF Chroma!Matches
  <2>2. <<"found", Chroma!Matches(s, ask)>> \in Replies
    BY <1>2, <2>1, PairIsReply DEF Parts
  <2> QED BY <1>4, <1>7, <2>2
<1>8. CASE t = Chroma!Raise(s, c, "not found")
  BY <1>2, <1>8, RaisedKeeps
<1>9. CASE t = Chroma!Raise(Chroma!Faulty(s), c, "failed")
  <2>1. PICK n \in Nat : n = s.faults + 1
    BY <1>1 DEF Shop
  <2>2. PICK u : u = [s EXCEPT !.faults = n]
    OBVIOUS
  <2>3. u = Chroma!Faulty(s)
    BY <2>1, <2>2 DEF Chroma!Faulty
  <2>4. u \in Shop /\ u.docs = s.docs /\ u.hub = s.hub /\ u.call = s.call /\ u.apart = s.apart
    BY <1>1, <2>1, <2>2 DEF Shop
  <2>5. ChromaInv(u)
    BY <2>4 DEF ChromaInv, Mirrored
  <2> QED BY <1>2, <1>9, <2>3, <2>4, <2>5, RaisedKeeps
<1> QED BY <1>1, <1>5, <1>6, <1>7, <1>8, <1>9, AskIs DEF Chroma!Read

(* One try to delete what the hub has been told of, or what has slept since. *)
LEMMA ChromaDeletesDoc ==
  ASSUME NEW s, s \in Shop, NEW c \in Clients, s.call[c] \in Trying \/ s.call[c] \in Deleting,
         NEW id \in Memories, id = s.call[c].ask.id, s.call[c].ask \in [name : {"delete"}, id : Memories],
         NEW s0, Mirrored(s0), SameBut(s0.docs, s.docs, id), SameBut(s0.hub, s.hub, id),
         s0.apart \subseteq s.apart \cup {id},
         s.call[c].left = Tries => id \in s.apart \/ (id \in DOMAIN s.hub /\ s.hub[id].type = "delete"),
         NEW t \in Chroma!DeleteDoc(s, c)
  PROVE  ChromaInv(t)
<1>1. PICK f \in PartialOf(Memories, Remembered) : f = s.docs
  BY DEF Shop
<1>2. PICK g : g = Chroma!Drop(f, id)
  OBVIOUS
<1>3. g \in PartialOf(Memories, Remembered) /\ Drops(f, g, id)
  BY <1>2, ChromaDropIs
<1>4. PICK as : as = IF s.call[c].left = Tries THEN s.apart ELSE s.apart \cup {id}
  OBVIOUS
<1>5. as \subseteq Memories
  BY <1>4 DEF Shop
<1>6. PICK gone : gone = [s EXCEPT !.docs = g, !.apart = as]
  OBVIOUS
<1>7. gone \in Shop /\ gone.docs = g /\ gone.hub = s.hub /\ gone.call = s.call /\ gone.apart = as
  BY <1>3, <1>5, <1>6 DEF Shop
<1>8. SameBut(s0.docs, g, id) /\ id \notin DOMAIN g /\ s0.apart \subseteq as \cup {id}
  BY <1>1, <1>3, <1>4 DEF SameBut, Drops
<1>9. CASE t = Chroma!Reply(gone, c, <<"deleted">>)
  <2>1. <<"deleted">> \in Replies
    BY DEF Replies, Parts, Words
  <2>2. Changed(s0, gone, id)
    BY <1>4, <1>7, <1>8 DEF Changed
  <2>3. ChromaInv(gone)
    BY <2>2, ChangedKeeps
  <2>4. Replied(gone, t)
    BY <1>7, <1>9, <2>1, ReplyIs
  <2> QED BY <2>3, <2>4, RepliedKeeps
<1>10. ASSUME NEW v \in {s, gone},
              t = Chroma!Again([Chroma!Faulty(v) EXCEPT !.apart = @ \cup {id}], c)
       PROVE  ChromaInv(t)
  <2>1. PICK n \in Nat : n = v.faults + 1
    BY <1>7 DEF Shop
  <2>2. PICK bs : bs = v.apart \cup {id}
    OBVIOUS
  <2>3. bs \subseteq Memories
    BY <1>7, <2>2 DEF Shop
  <2>4. PICK w : w = [v EXCEPT !.faults = n, !.apart = bs]
    OBVIOUS
  <2>5. w = [Chroma!Faulty(v) EXCEPT !.apart = @ \cup {id}]
    BY <1>7, <2>1, <2>2, <2>4 DEF Chroma!Faulty, Shop
  <2>6. w \in Shop /\ w.call = s.call /\ w.docs = v.docs /\ w.hub = v.hub /\ w.apart = bs
    BY <1>7, <2>1, <2>3, <2>4 DEF Shop
  <2>7. SameBut(s0.docs, v.docs, id) /\ SameBut(s0.hub, v.hub, id) /\ s0.apart \subseteq bs
    BY <1>4, <1>7, <1>8, <2>2
  <2>8. Changed(s0, w, id)
    BY <2>2, <2>6, <2>7 DEF Changed
  <2>9. ChromaInv(w)
    BY <2>8, ChangedKeeps
  <2>10. CASE s.call[c].left = 1
    <3>1. "failed" \in Errors
      BY DEF Errors
    <3>2. t = Chroma!Raise(w, c, "failed")
      BY <1>10, <2>5, <2>6, <2>10 DEF Chroma!Again
    <3>3. Replied(w, t)
      BY <2>6, <3>1, <3>2, RaiseIs
    <3> QED BY <2>9, <3>3, RepliedKeeps
  <2>11. CASE s.call[c].left # 1
    <3>1. s.call[c].left \in 1..Tries
      BY ToolServerAssumption DEF Trying, Deleting
    <3>2. PICK k \in 1..(Tries - 1) : k = s.call[c].left - 1
      BY <2>11, <3>1, ToolServerAssumption
    <3>3. PICK e : e = [s.call[c] EXCEPT !.at = "delete", !.left = k]
      OBVIOUS
    <3>4. e \in Deleting
      BY <3>3 DEF Trying, Deleting
    <3>5. t = [w EXCEPT !.call[c].at = "delete", !.call[c].left = k]
      BY <1>10, <2>5, <2>6, <2>11, <3>2 DEF Chroma!Again
    <3>6. t = [w EXCEPT !.call[c] = e]
      BY <2>6, <3>3, <3>5 DEF Shop
    <3>7. e \in ToolCall
      BY <3>4 DEF ToolCall
    <3>8. Replied(w, t)
      BY <2>6, <3>6, <3>7 DEF Shop, Replied
    <3> QED BY <2>9, <3>8, RepliedKeeps
  <2> QED BY <2>10, <2>11
<1>11. gone = [s EXCEPT !.docs = Chroma!Drop(@, id), !.apart = IF s.call[c].left = Tries THEN @ ELSE @ \cup {id}]
  BY <1>1, <1>2, <1>4, <1>6
<1> QED BY <1>9, <1>10, <1>11 DEF Chroma!DeleteDoc

LEMMA ChromaDeletes ==
  ASSUME NEW s, ChromaInv(s), NEW c \in Clients, s.call[c] \in Trying, NEW ask, ask = s.call[c].ask,
         ask.name = "delete", ~s.stuck, NEW t \in Chroma!Delete(s, c, ask)
  PROVE  ChromaInv(t)
<1>1. s \in Shop /\ Mirrored(s) /\ ask \in Chroma!Asks
  BY DEF ChromaInv, Trying
<1>2. PICK id \in Memories : id = ask.id
  BY <1>1, AskIs
<1>3. ask \in [name : {"delete"}, id : Memories]
  BY <1>1 DEF Chroma!Asks
<1>4. CASE ~Chroma!Exists(s, ask.id)
  <2>1. "not found" \in Errors
    BY DEF Errors
  <2> QED BY <1>4, <2>1, RaisedKeeps DEF Chroma!Delete
<1>5. CASE Chroma!Exists(s, ask.id)
  <2>1. PICK as : as = s.apart \ {ask.id}
    OBVIOUS
  <2>2. as \subseteq Memories
    BY <1>1, <2>1 DEF Shop
  <2>3. PICK v \in Chroma!Upload(s, ask, "delete", as) :
          t \in IF v.stuck THEN {v} ELSE Chroma!DeleteDoc([v EXCEPT !.call[c].left = Tries], c)
    BY <1>5, <2>1 DEF Chroma!Delete
  <2>4. Uploaded(s, v, ask, "delete", as)
    <3>1. PICK type \in {"create", "update", "delete"} : type = "delete"
      OBVIOUS
    <3> QED BY <1>1, <1>2, <2>2, <2>3, <3>1, UploadIs
  <2>5. /\ v \in Shop /\ v.docs = s.docs /\ v.call = s.call
        /\ \/ v.apart = as /\ SameBut(s.hub, v.hub, id) /\ id \in DOMAIN v.hub /\ v.hub[id].type = "delete"
           \/ v.stuck /\ v.hub = s.hub /\ v.apart = s.apart \cup {id}
    BY <1>2, <2>4 DEF Uploaded
  <2>6. SameBut(s.docs, v.docs, id) /\ SameBut(s.hub, v.hub, id) /\ s.apart \subseteq v.apart \cup {id}
    BY <1>2, <2>1, <2>5 DEF SameBut
  <2>7. CASE v.stuck
    <3>1. Changed(s, v, id)
      BY <1>2, <2>4, <2>5, <2>6, <2>7 DEF Changed, Uploaded
    <3> QED BY <1>1, <2>3, <2>7, <3>1, ChangedKeeps
  <2>9. CASE ~v.stuck
    <3>1. PICK e : e = [s.call[c] EXCEPT !.left = Tries]
      OBVIOUS
    <3>2. e \in Trying /\ e.ask = ask /\ e.left = Tries
      BY <3>1, ToolServerAssumption DEF Trying
    <3>3. PICK w : w = [v EXCEPT !.call[c] = e]
      OBVIOUS
    <3>4. w = [v EXCEPT !.call[c].left = Tries]
      BY <2>5, <3>1, <3>3
    <3>5. /\ w \in Shop /\ w.docs = v.docs /\ w.hub = v.hub /\ w.apart = v.apart
          /\ w.call[c] = e
      BY <2>5, <3>2, <3>3 DEF Shop, ToolCall
    <3>6. t \in Chroma!DeleteDoc(w, c)
      BY <2>3, <2>9, <3>4
    <3> QED BY <1>1, <1>2, <1>3, <2>5, <2>6, <2>9, <3>2, <3>5, <3>6, ChromaDeletesDoc
  <2> QED BY <2>7, <2>9
<1> QED BY <1>4, <1>5

LEMMA ChromaTries ==
  ASSUME NEW s, ChromaInv(s), NEW c \in Clients, s.call[c] \in Trying, ~s.stuck,
         NEW t \in Chroma!Tried(s, c)
  PROVE  ChromaInv(t)
<1>1. PICK ask : ask = s.call[c].ask
  OBVIOUS
<1>2. ask.name \in {"create", "update", "read", "delete", "list", "search"}
  BY <1>1, AskIs DEF Trying
<1>3. CASE ask.name = "create"
  BY <1>1, <1>3, ChromaCreates DEF Chroma!Tried
<1>4. CASE ask.name = "update"
  BY <1>1, <1>4, ChromaUpdates DEF Chroma!Tried
<1>5. CASE ask.name = "delete"
  BY <1>1, <1>5, ChromaDeletes DEF Chroma!Tried
<1>6. CASE ask.name \in {"read", "list", "search"}
  BY <1>1, <1>6, ChromaReads DEF Chroma!Tried
<1> QED BY <1>2, <1>3, <1>4, <1>5, <1>6

LEMMA ChromaCalls ==
  ASSUME ChromaInv(service), NEW c \in Clients, Chroma!Call(c)
  PROVE  ChromaInv(service')
<1>1. service \in Shop /\ ~service.stuck
  BY DEF ChromaInv, Chroma!Call, Chroma!Free
<1>2. PICK ask \in Chroma!Asks :
        service' \in Chroma!Tried([service EXCEPT !.calls = @ + 1,
                       !.call[c] = [at |-> "try", ask |-> ask, tries |-> 0, left |-> Tries]], c)
  BY DEF Chroma!Call
<1>3. PICK n \in Nat : n = service.calls + 1
  BY <1>1 DEF Shop
<1>4. PICK z \in 0..(Tries - 1) : z = 0
  BY ToolServerAssumption
<1>5. PICK e : e = [at |-> "try", ask |-> ask, tries |-> z, left |-> Tries]
  OBVIOUS
<1>6. e \in Trying
  BY <1>5, ToolServerAssumption DEF Trying
<1>7. PICK u : u = [service EXCEPT !.calls = n, !.call[c] = e]
  OBVIOUS
<1>8. e \in ToolCall
  BY <1>6 DEF ToolCall
<1>9. /\ u \in Shop /\ u.docs = service.docs /\ u.hub = service.hub /\ u.apart = service.apart
      /\ u.stuck = service.stuck /\ u.call[c] = e
  BY <1>1, <1>3, <1>7, <1>8 DEF Shop
<1>10. ChromaInv(u)
  BY <1>9 DEF ChromaInv, Mirrored
<1>11. service' \in Chroma!Tried(u, c)
  BY <1>2, <1>3, <1>4, <1>5, <1>7
<1> QED BY <1>1, <1>6, <1>9, <1>10, <1>11, ChromaTries

LEMMA ChromaTriesAgain ==
  ASSUME ChromaInv(service), NEW c \in Clients, Chroma!TryAgain(c)
  PROVE  ChromaInv(service')
<1>1. service.call[c] \in ToolCall /\ service.call[c].at = "try" /\ ~service.stuck
  BY DEF ChromaInv, Shop, Chroma!TryAgain, Chroma!Free
<1>2. service.call[c] \in Trying
  BY <1>1 DEF ToolCall, Trying, Deleting, Chroma!Quiet
<1> QED BY <1>1, <1>2, ChromaTries DEF Chroma!TryAgain

LEMMA ChromaDeletesAgain ==
  ASSUME ChromaInv(service), NEW c \in Clients, Chroma!DeleteAgain(c)
  PROVE  ChromaInv(service')
<1>1. service \in Shop /\ Mirrored(service) /\ service.call[c] \in ToolCall /\ service.call[c].at = "delete"
  BY DEF ChromaInv, Shop, Chroma!DeleteAgain
<1>2. service.call[c] \in Deleting
  BY <1>1 DEF ToolCall, Trying, Deleting, Chroma!Quiet
<1>3. PICK id \in Memories : id = service.call[c].ask.id
  BY <1>2 DEF Deleting
<1>4. service.call[c].ask \in [name : {"delete"}, id : Memories] /\ service.call[c].left # Tries
  BY <1>2, ToolServerAssumption DEF Deleting
<1>5. /\ SameBut(service.docs, service.docs, id) /\ SameBut(service.hub, service.hub, id)
      /\ service.apart \subseteq service.apart \cup {id}
  BY DEF SameBut
<1>6. service' \in Chroma!DeleteDoc(service, c)
  BY DEF Chroma!DeleteAgain
<1> QED BY <1>1, <1>2, <1>3, <1>4, <1>5, <1>6, ChromaDeletesDoc

LEMMA ChromaRestarts ==
  ASSUME ChromaInv(service), Chroma!Restart
  PROVE  ChromaInv(service')
<1>1. PICK b \in BOOLEAN : b = FALSE
  OBVIOUS
<1>2. PICK call \in [Clients -> ToolCall] : call = [c \in Clients |-> Chroma!Quiet]
  BY DEF ToolCall
<1>3. service' = [service EXCEPT !.stuck = b, !.call = call]
  BY <1>1, <1>2 DEF Chroma!Restart
<1>4. /\ service' \in Shop /\ service'.docs = service.docs /\ service'.hub = service.hub
      /\ service'.apart = service.apart
  BY <1>3 DEF ChromaInv, Shop
<1> QED BY <1>4 DEF ChromaInv, Mirrored

LEMMA ChromaInit == Chroma!Init => ChromaInv(service)
<1> SUFFICES ASSUME Chroma!Init
             PROVE  ChromaInv(service)
  OBVIOUS
<1>1. PICK none : none = <<>>
  OBVIOUS
<1>2. DOMAIN none = {}
  BY <1>1
<1>3. none \in PartialOf(Memories, Remembered) /\ none \in PartialOf(Memories, Told)
  <2>1. none \in Seq({}) /\ none \in [DOMAIN none -> Remembered] /\ none \in [DOMAIN none -> Told]
    BY <1>1, <1>2
  <2> QED BY <1>2, <2>1, PartialIs
<1>4. PICK b \in BOOLEAN : b = FALSE
  OBVIOUS
<1>5. PICK call \in [Clients -> ToolCall] : call = [c \in Clients |-> Chroma!Quiet]
  BY DEF ToolCall
<1>6. service = [docs |-> none, hub |-> none, call |-> call, stuck |-> b,
                 calls |-> 0, faults |-> 0, apart |-> {}]
  BY <1>1, <1>4, <1>5 DEF Chroma!Init
<1>7. service \in Shop /\ service.docs = none /\ service.hub = none
  BY <1>3, <1>6 DEF Shop
<1> QED BY <1>2, <1>7 DEF ChromaInv, Mirrored

LEMMA ChromaStep == ChromaInv(service) /\ Chroma!Next => ChromaInv(service')
  BY ChromaCalls, ChromaTriesAgain, ChromaDeletesAgain, ChromaRestarts DEF Chroma!Next, Chroma!Call, Chroma!TryAgain, Chroma!DeleteAgain, Chroma!Free

LEMMA ChromaImplies ==
  ASSUME ChromaInv(service)
  PROVE  Chroma!TypeOK /\ Chroma!HubTellsTheCollection
<1>1. Chroma!HubTellsTheCollection
  BY DEF ChromaInv, Mirrored, Chroma!HubTellsTheCollection
<1>2. service \in Shop
  BY DEF ChromaInv
<1>3. /\ DOMAIN service.docs \subseteq Memories /\ DOMAIN service.hub \subseteq Memories
      /\ service.docs \in [DOMAIN service.docs -> Remembered]
  BY <1>2, PartialIs DEF Shop
<1>4. Chroma!Range(service.docs) \subseteq [content : Texts, meta : Chroma!Metas]
  BY <1>3 DEF Chroma!Range, Remembered
<1>5. ASSUME NEW c \in Clients
      PROVE  \/ service.call[c] = Chroma!Quiet
             \/ service.call[c].at = "done"
             \/ /\ service.call[c].at \in {"try", "delete"}
                /\ service.call[c].ask \in Chroma!Asks
                /\ service.call[c].tries \in 0..(Tries - 1)
  <2>1. service.call[c] \in ToolCall
    BY <1>2 DEF Shop
  <2> QED BY <2>1 DEF ToolCall, Trying, Deleting, Chroma!Asks
<1> QED BY <1>1, <1>2, <1>3, <1>4, <1>5 DEF Shop, Chroma!TypeOK

-----------------------------------------------------------------------------
(* The knowledge base.                                                     *)

Papers == PartialOf(Knowledge!Ids, Contents)

Shelf ==
  [docs : Papers, hub : Papers, stuck : BOOLEAN, writes : 0..MaxWrites,
   apart : SUBSET Knowledge!Ids, strict : BOOLEAN]

Copied(k) == \A i \in DOMAIN k.docs \ k.apart : i \in DOMAIN k.hub /\ k.hub[i] = k.docs[i]

Distinct(k) ==
  k.strict => \A i, j \in DOMAIN k.docs : i # j => Knowledge!Distance(k.docs[i], k.docs[j]) >= Alike

KnowledgeInv(k) == k \in Shelf /\ IsFiniteSet(DOMAIN k.docs) /\ Copied(k) /\ Distinct(k)

(* A batch is one document or two. *)
LEMMA BatchIs ==
  ASSUME NEW batch \in Knowledge!Batches
  PROVE  /\ batch \in Seq(Knowledge!Docs) /\ Len(batch) \in {1, 2} /\ DOMAIN batch = 1..Len(batch)
         /\ \A n \in DOMAIN batch :
              batch[n].content \in Contents /\ Knowledge!IdOf(batch[n]) \in Knowledge!Ids
<1>1. batch \in Seq(Knowledge!Docs) /\ Len(batch) \in {1, 2} /\ DOMAIN batch = 1..Len(batch)
  <2>1. CASE batch \in {<<d>> : d \in Knowledge!Docs}
    <3>1. PICK d \in Knowledge!Docs : batch = <<d>>
      BY <2>1
    <3>2. batch \in Seq(Knowledge!Docs) /\ Len(batch) = 1
      BY <3>1
    <3> QED BY <3>2
  <2>2. CASE batch \in Knowledge!Docs \X Knowledge!Docs
    <3>1. PICK d \in Knowledge!Docs, e \in Knowledge!Docs : batch = <<d, e>>
      BY <2>2
    <3>2. batch \in Seq(Knowledge!Docs) /\ Len(batch) = 2
      BY <3>1
    <3> QED BY <3>2
  <2> QED BY <2>1, <2>2 DEF Knowledge!Batches
<1>2. ASSUME NEW n \in DOMAIN batch
      PROVE  batch[n].content \in Contents /\ Knowledge!IdOf(batch[n]) \in Knowledge!Ids
  <2>1. PICK d \in Knowledge!Docs : d = batch[n]
    BY <1>1
  <2> QED BY <2>1 DEF Knowledge!Docs, Knowledge!IdOf, Knowledge!Ids
<1> QED BY <1>1, <1>2

(* Some position is the last of those that satisfy a condition. *)
LEMMA GreatestNat ==
  ASSUME NEW N \in Nat, NEW T, T \subseteq 1..N, T # {}
  PROVE  \E m \in T : \A k \in T : k <= m
<1> DEFINE D == {N - t : t \in T}
<1>1. D \subseteq Nat /\ D # {}
  <2>1. ASSUME NEW t \in T
        PROVE  N - t \in Nat
    <3>1. t \in 1..N
      OBVIOUS
    <3> QED BY <3>1
  <2>2. PICK t \in T : TRUE
    OBVIOUS
  <2>3. N - t \in D
    BY <2>2
  <2> QED BY <2>1, <2>3
<1>2. PICK d \in D : \A e \in D : d <= e
  BY <1>1, LeastNat
<1>3. PICK m \in T : d = N - m
  OBVIOUS
<1>4. ASSUME NEW k \in T
      PROVE  k <= m
  <2>1. N - k \in D
    OBVIOUS
  <2>2. N - m <= N - k
    BY <1>2, <1>3, <2>1
  <2>3. k \in 1..N /\ m \in 1..N
    OBVIOUS
  <2> QED BY <2>2, <2>3
<1> QED BY <1>4

(* g is f with the documents at some positions. *)
PutsAll(f, g, batch, at) ==
  /\ DOMAIN g = DOMAIN f \cup Knowledge!IdsOf(batch, at)
  /\ \A i \in DOMAIN f \ Knowledge!IdsOf(batch, at) : g[i] = f[i]
  /\ \A i \in Knowledge!IdsOf(batch, at) :
       \E n \in at : /\ Knowledge!IdOf(batch[n]) = i /\ g[i] = batch[n].content
                     /\ \A m \in at : Knowledge!IdOf(batch[m]) = i => m <= n

LEMMA LastIs ==
  ASSUME NEW batch \in Knowledge!Batches, NEW at, at \subseteq DOMAIN batch,
         NEW i \in Knowledge!IdsOf(batch, at)
  PROVE  \E n \in at : /\ Knowledge!IdOf(batch[n]) = i /\ Knowledge!LastOf(batch, at, i) = batch[n].content
                       /\ \A m \in at : Knowledge!IdOf(batch[m]) = i => m <= n
<1> DEFINE T == {n \in at : Knowledge!IdOf(batch[n]) = i}
<1>1. PICK N \in Nat : N = Len(batch) /\ DOMAIN batch = 1..N
  BY BatchIs
<1>2. T \subseteq 1..N /\ T # {}
  BY <1>1 DEF Knowledge!IdsOf
<1>3. PICK m \in T : \A k \in T : k <= m
  BY <1>1, <1>2, GreatestNat
<1>4. \E n \in at : /\ Knowledge!IdOf(batch[n]) = i
                    /\ \A k \in at : Knowledge!IdOf(batch[k]) = i => k <= n
  BY <1>3
<1>5. PICK p : p = CHOOSE n \in at : /\ Knowledge!IdOf(batch[n]) = i
                                     /\ \A k \in at : Knowledge!IdOf(batch[k]) = i => k <= n
  OBVIOUS
<1>6. p \in at /\ Knowledge!IdOf(batch[p]) = i
      /\ \A k \in at : Knowledge!IdOf(batch[k]) = i => k <= p
  BY <1>4, <1>5
<1>7. Knowledge!LastOf(batch, at, i) = batch[p].content
  BY <1>5 DEF Knowledge!LastOf
<1> QED BY <1>6, <1>7

LEMMA PapersPut ==
  ASSUME NEW f \in Papers, NEW batch \in Knowledge!Batches, NEW at, at \subseteq DOMAIN batch,
         NEW g, g = Knowledge!Put(f, batch, at)
  PROVE  g \in Papers /\ PutsAll(f, g, batch, at) /\ (IsFiniteSet(DOMAIN f) => IsFiniteSet(DOMAIN g))
<1>1. DOMAIN f \subseteq Knowledge!Ids /\ f \in [DOMAIN f -> Contents]
  BY PartialIs DEF Papers
<1>2. PICK ids : ids = Knowledge!IdsOf(batch, at)
  OBVIOUS
<1>3. ids \subseteq Knowledge!Ids
  BY <1>2, BatchIs DEF Knowledge!IdsOf
<1>4. /\ DOMAIN g = DOMAIN f \cup ids
      /\ \A i \in DOMAIN g : g[i] = IF i \in ids THEN Knowledge!LastOf(batch, at, i) ELSE f[i]
      /\ g = [i \in DOMAIN g |-> g[i]]
  BY <1>2 DEF Knowledge!Put
<1>5. ASSUME NEW i \in ids
      PROVE  \E n \in at : /\ Knowledge!IdOf(batch[n]) = i /\ g[i] = batch[n].content
                           /\ \A m \in at : Knowledge!IdOf(batch[m]) = i => m <= n
  BY <1>2, <1>4, LastIs
<1>6. ASSUME NEW i \in DOMAIN g
      PROVE  g[i] \in Contents
  <2>1. CASE i \in ids
    BY <1>5, <2>1, BatchIs
  <2>2. CASE i \notin ids
    BY <1>1, <1>4, <2>2
  <2> QED BY <2>1, <2>2
<1>7. g \in Papers
  BY <1>1, <1>3, <1>4, <1>6, PartialIs DEF Papers
<1>8. PutsAll(f, g, batch, at)
  BY <1>2, <1>4, <1>5 DEF PutsAll
<1>9. ASSUME IsFiniteSet(DOMAIN f)
      PROVE  IsFiniteSet(DOMAIN g)
  <2>1. PICK x : x = Knowledge!IdOf(batch[1])
    OBVIOUS
  <2>2. PICK y : y = Knowledge!IdOf(batch[2])
    OBVIOUS
  <2>3. IsFiniteSet({x, y})
    <3>1. IsFiniteSet({x})
      BY FS_Singleton
    <3>2. IsFiniteSet({x} \cup {y})
      BY <3>1, FS_AddElement
    <3>3. {x} \cup {y} = {x, y}
      OBVIOUS
    <3> QED BY <3>2, <3>3
  <2>4. \A n \in at : n = 1 \/ n = 2
    BY BatchIs
  <2>6. ids \subseteq {x, y}
    BY <1>2, <2>1, <2>2, <2>4 DEF Knowledge!IdsOf
  <2>5. IsFiniteSet(ids)
    BY <2>3, <2>6, FS_Subset
  <2> QED BY <1>4, <1>9, <2>5, FS_Union
<1> QED BY <1>7, <1>8, <1>9

LEMMA CardinalIs == ASSUME NEW S PROVE Knowledge!Cardinality(S) = Cardinality(S)
  BY DEF Knowledge!Cardinality, Cardinality

(* A document that is not a duplicate is far from all there are. *)
LEMMA EvaluatedIs ==
  ASSUME NEW docs \in Papers, IsFiniteSet(DOMAIN docs), NEW content \in Contents,
         ~Knowledge!Evaluated(docs, content), NEW i \in DOMAIN docs
  PROVE  Knowledge!Distance(docs[i], content) >= Alike
<1>1. DOMAIN docs \subseteq Knowledge!Ids /\ docs \in [DOMAIN docs -> Contents]
  BY PartialIs DEF Papers
<1>2. PICK far : far = [j \in DOMAIN docs |-> Knowledge!Distance(docs[j], content)]
  OBVIOUS
<1>3. \A j \in DOMAIN docs : far[j] = Knowledge!Distance(docs[j], content) /\ far[j] \in Nat
  <2>1. ASSUME NEW j \in DOMAIN docs
        PROVE  Knowledge!Distance(docs[j], content) \in Nat
    <3>1. docs[j] \in Nat /\ content \in Nat
      BY <1>1, KnowledgeAssumption
    <3> QED BY <3>1 DEF Knowledge!Distance
  <2> QED BY <1>2, <2>1
<1> DEFINE Least(S) == \A j \in S, k \in DOMAIN docs \ S : far[j] <= far[k]
<1>4. PICK pool : pool = DOMAIN docs
  OBVIOUS
<1>5. PICK least : least \in pool /\ \A k \in pool : far[least] <= far[k]
  <2> DEFINE T == {far[j] : j \in pool}
  <2>1. T \subseteq Nat /\ T # {}
    BY <1>3, <1>4
  <2>2. PICK m \in T : \A k \in T : m <= k
    BY <2>1, LeastNat
  <2> QED BY <2>2
<1>6. PICK one : one = IF 1 < Knowledge!Cardinality(pool) THEN 1 ELSE Knowledge!Cardinality(pool)
  OBVIOUS
<1>7. one = 1
  <2>1. Cardinality(pool) \in Nat /\ Cardinality(pool) # 0
    BY <1>4, <1>5, FS_CardinalityType, FS_EmptySet
  <2>2. PICK n \in Nat : n = Knowledge!Cardinality(pool) /\ n # 0
    BY <2>1, CardinalIs
  <2> QED BY <1>6, <2>2
<1>8. \E S \in SUBSET pool : Knowledge!Cardinality(S) = one /\ \A j \in S, k \in pool \ S : far[j] <= far[k]
  <2>1. Knowledge!Cardinality({least}) = 1
    BY FS_Singleton, CardinalIs
  <2> QED BY <1>5, <1>7, <2>1
<1>9. PICK near : near = CHOOSE S \in SUBSET pool :
                           Knowledge!Cardinality(S) = one /\ \A j \in S, k \in pool \ S : far[j] <= far[k]
  OBVIOUS
<1>10. near \in SUBSET pool /\ Cardinality(near) = 1 /\ \A j \in near, k \in pool \ near : far[j] <= far[k]
  BY <1>7, <1>8, <1>9, CardinalIs
<1>11. PICK x : near = {x}
  BY <1>4, <1>10, FS_Subset, FS_Singleton
<1>12. x \in pool /\ far[x] <= far[i]
  BY <1>3, <1>4, <1>10, <1>11
<1>13. Knowledge!Retrieve(docs, content, 1, 0) = near
  <2>1. {j \in DOMAIN docs : 0 > 0 => docs[j] = content} = pool
    BY <1>4
  <2>2. near = Knowledge!Nearest(docs, pool, content, 1)
    <3>2. Knowledge!Nearest(docs, pool, content, 1) = CHOOSE S \in SUBSET pool :
          /\ Knowledge!Cardinality(S) = IF 1 < Knowledge!Cardinality(pool) THEN 1 ELSE Knowledge!Cardinality(pool)
          /\ \A j \in S, k \in pool \ S : Knowledge!Distance(docs[j], content) <= Knowledge!Distance(docs[k], content)
      BY DEF Knowledge!Nearest
    <3>1. ASSUME NEW S \in SUBSET pool
          PROVE  (\A j \in S, k \in pool \ S : far[j] <= far[k])
                   <=> (\A j \in S, k \in pool \ S :
                          Knowledge!Distance(docs[j], content) <= Knowledge!Distance(docs[k], content))
      BY <1>3, <1>4
    <3> QED BY <1>6, <1>9, <3>1, <3>2
  <2>3. {j \in near : 0 > 0 => Knowledge!Distance(docs[j], content) >= 0} = near
    OBVIOUS
  <2> QED BY <2>1, <2>2, <2>3 DEF Knowledge!Retrieve
<1>14. ~(far[x] < Alike)
  BY <1>3, <1>4, <1>11, <1>12, <1>13 DEF Knowledge!Evaluated
<1>15. far[i] >= Alike
  <2>1. far[x] \in Nat /\ far[i] \in Nat /\ Alike \in Nat
    BY <1>3, <1>4, <1>12, KnowledgeAssumption
  <2> QED BY <1>12, <1>14, <2>1
<1> QED BY <1>3, <1>15

LEMMA DistanceIs ==
  ASSUME NEW a \in Contents, NEW b \in Contents
  PROVE  Knowledge!Distance(a, b) = Knowledge!Distance(b, a)
<1>1. a \in Nat /\ b \in Nat
  BY KnowledgeAssumption
<1> QED BY <1>1 DEF Knowledge!Distance

(* Only documents of a batch differ. *)
SameWithout(f, g, ids) ==
  \A i \in Knowledge!Ids \ ids : (i \in DOMAIN f <=> i \in DOMAIN g) /\ (i \in DOMAIN f => g[i] = f[i])

LEMMA PutWithout ==
  ASSUME NEW f \in Papers, NEW g, NEW batch, NEW at, NEW ids, Knowledge!IdsOf(batch, at) \subseteq ids,
         PutsAll(f, g, batch, at)
  PROVE  SameWithout(f, g, ids)
  BY DEF PutsAll, SameWithout

(* A call of which the upload hangs. *)
LEMMA HungKeeps ==
  ASSUME NEW k0, KnowledgeInv(k0), NEW batch \in Knowledge!Batches, NEW at, at \subseteq DOMAIN batch,
         NEW k \in Shelf, IsFiniteSet(DOMAIN k.docs), Distinct(k), k.hub = k0.hub, k.apart = k0.apart,
         SameWithout(k0.docs, k.docs, Knowledge!IdsOf(batch, at)), NEW h \in Knowledge!Hung(k, batch, at)
  PROVE  KnowledgeInv(h)
<1>1. PICK n \in 0..Len(batch) :
        h = [k EXCEPT !.hub = Knowledge!Put(@, batch, at \cap (1..n)),
                      !.apart = @ \cup Knowledge!IdsOf(batch, at), !.stuck = TRUE]
  BY DEF Knowledge!Hung
<1>2. PICK some : some = at \cap (1..n)
  OBVIOUS
<1>3. some \subseteq DOMAIN batch
  BY <1>2
<1>4. PICK f \in Papers : f = k.hub
  BY DEF Shelf
<1>5. PICK g : g = Knowledge!Put(f, batch, some)
  OBVIOUS
<1>6. g \in Papers /\ PutsAll(f, g, batch, some)
  BY <1>3, <1>5, PapersPut
<1>7. PICK ids : ids = Knowledge!IdsOf(batch, at)
  OBVIOUS
<1>8. ids \subseteq Knowledge!Ids /\ Knowledge!IdsOf(batch, some) \subseteq ids
  BY <1>2, <1>7, BatchIs DEF Knowledge!IdsOf
<1>9. PICK as : as = k.apart \cup ids
  OBVIOUS
<1>10. PICK b \in BOOLEAN : b
  OBVIOUS
<1>11. h = [k EXCEPT !.hub = g, !.apart = as, !.stuck = b]
  BY <1>1, <1>2, <1>4, <1>5, <1>7, <1>9, <1>10
<1>12. as \in SUBSET Knowledge!Ids
  BY <1>8, <1>9 DEF Shelf
<1>13. h \in Shelf /\ h.docs = k.docs /\ h.hub = g /\ h.apart = as /\ h.strict = k.strict
  BY <1>6, <1>11, <1>12 DEF Shelf
<1>14. SameWithout(k0.hub, g, ids)
  BY <1>4, <1>6, <1>8, PutWithout
<1>15. DOMAIN h.docs \subseteq Knowledge!Ids
  BY <1>13, PartialIs DEF Shelf, Papers
<1>16. Copied(h)
  BY <1>7, <1>9, <1>13, <1>14, <1>15 DEF KnowledgeInv, Copied, SameWithout
<1>17. Distinct(h) /\ IsFiniteSet(DOMAIN h.docs)
  BY <1>13 DEF Distinct
<1> QED BY <1>13, <1>16, <1>17 DEF KnowledgeInv

LEMMA CountedIs ==
  ASSUME KnowledgeInv(service), Knowledge!Free, NEW k, k = Knowledge!Counted
  PROVE  /\ k \in Shelf /\ k.docs = service.docs /\ k.hub = service.hub /\ k.apart = service.apart
         /\ k.strict = service.strict /\ KnowledgeInv(k)
<1>1. service \in Shelf /\ service.writes < MaxWrites
  BY DEF KnowledgeInv, Knowledge!Free
<1>2. PICK n \in 0..MaxWrites : n = service.writes + 1
  BY <1>1, KnowledgeAssumption DEF Shelf
<1>3. k = [service EXCEPT !.writes = n]
  BY <1>2 DEF Knowledge!Counted
<1>4. /\ k \in Shelf /\ k.docs = service.docs /\ k.hub = service.hub /\ k.apart = service.apart
      /\ k.strict = service.strict
  BY <1>1, <1>3 DEF Shelf
<1> QED BY <1>4 DEF KnowledgeInv, Copied, Distinct

(* What is added one by one, strictly, is far from all there is. *)
LEMMA StrictlyAdded ==
  ASSUME KnowledgeInv(service), service.strict, NEW batch \in Knowledge!Batches, Len(batch) = 1,
         NEW new, new = {n \in DOMAIN batch : Knowledge!Kept(batch[n], TRUE)},
         NEW g \in Papers, PutsAll(service.docs, g, batch, new),
         NEW i \in DOMAIN g, NEW j \in DOMAIN g, i # j
  PROVE  Knowledge!Distance(g[i], g[j]) >= Alike
<1>1. PICK docs \in Papers : docs = service.docs /\ IsFiniteSet(DOMAIN docs)
  BY DEF KnowledgeInv, Shelf
<1>2. docs \in [DOMAIN docs -> Contents]
  BY PartialIs DEF Papers
<1>3. PICK ids : ids = Knowledge!IdsOf(batch, new)
  OBVIOUS
<1>4. DOMAIN batch = {1}
  BY BatchIs
<1>5. \A a \in ids, b \in ids : a = b
  BY <1>3, <1>4 DEF Knowledge!IdsOf
<1>6. /\ DOMAIN g = DOMAIN docs \cup ids /\ \A a \in DOMAIN docs \ ids : g[a] = docs[a]
  BY <1>1, <1>3 DEF PutsAll
<1>7. ASSUME NEW a \in ids, NEW b \in DOMAIN docs \ ids
      PROVE  Knowledge!Distance(g[b], g[a]) >= Alike /\ Knowledge!Distance(g[a], g[b]) >= Alike
  <2>1. PICK n \in new : g[a] = batch[n].content
    BY <1>3 DEF PutsAll
  <2>2. ~Knowledge!Evaluated(docs, batch[n].content) /\ batch[n].content \in Contents
    BY <1>1, BatchIs DEF Knowledge!Kept
  <2>3. Knowledge!Distance(docs[b], batch[n].content) >= Alike
    BY <1>1, <2>2, EvaluatedIs
  <2>4. docs[b] \in Contents
    BY <1>2
  <2> QED BY <1>6, <2>1, <2>2, <2>3, <2>4, DistanceIs
<1>8. CASE i \in ids
  BY <1>5, <1>6, <1>7, <1>8
<1>9. CASE j \in ids
  BY <1>5, <1>6, <1>7, <1>9
<1>10. CASE i \notin ids /\ j \notin ids
  BY <1>1, <1>6, <1>10 DEF KnowledgeInv, Distinct
<1> QED BY <1>8, <1>9, <1>10

LEMMA KnowledgeAdds ==
  ASSUME KnowledgeInv(service), Knowledge!Add
  PROVE  KnowledgeInv(service')
<1>1. Knowledge!Free
  BY DEF Knowledge!Add
<1>2. PICK batch \in Knowledge!Batches, strict \in BOOLEAN :
         LET all == DOMAIN batch
             new == {n \in all : Knowledge!Kept(batch[n], strict)}
             k == [Knowledge!Counted EXCEPT !.docs = Knowledge!Put(@, batch, new),
                                            !.strict = @ /\ strict /\ Len(batch) = 1] IN
         IF Knowledge!Twice(batch, new) THEN service' = Knowledge!Counted
         ELSE service' \in {Knowledge!Leave(Knowledge!Uploaded(k, batch, all), Knowledge!IdsOf(batch, all \ new))}
                             \cup Knowledge!Hung(k, batch, all)
  BY DEF Knowledge!Add
<1>3. PICK k0 : k0 = Knowledge!Counted
  OBVIOUS
<1>4. /\ k0 \in Shelf /\ k0.docs = service.docs /\ k0.hub = service.hub /\ k0.apart = service.apart
      /\ k0.strict = service.strict /\ KnowledgeInv(k0)
  BY <1>1, <1>3, CountedIs
<1>5. PICK all : all = DOMAIN batch
  OBVIOUS
<1>6. PICK new : new = {n \in all : Knowledge!Kept(batch[n], strict)}
  OBVIOUS
<1>7. PICK f \in Papers : f = k0.docs
  BY <1>4 DEF Shelf
<1>8. PICK g : g = Knowledge!Put(f, batch, new)
  OBVIOUS
<1>9. g \in Papers /\ PutsAll(f, g, batch, new) /\ IsFiniteSet(DOMAIN g)
  <2>1. new \subseteq DOMAIN batch /\ IsFiniteSet(DOMAIN f)
    BY <1>4, <1>5, <1>6, <1>7 DEF KnowledgeInv
  <2> QED BY <1>8, <2>1, PapersPut
<1>10. PICK st \in BOOLEAN : st = (k0.strict /\ strict /\ Len(batch) = 1)
  BY Zenon
<1>11. PICK k : k = [k0 EXCEPT !.docs = g, !.strict = st]
  OBVIOUS
<1>12. k \in Shelf /\ k.docs = g /\ k.hub = k0.hub /\ k.apart = k0.apart /\ k.strict = st
  BY <1>4, <1>9, <1>11 DEF Shelf
<1>13. k = [k0 EXCEPT !.docs = Knowledge!Put(@, batch, new), !.strict = @ /\ strict /\ Len(batch) = 1]
  BY <1>7, <1>8, <1>10, <1>11
<1>14. Distinct(k)
  <2>1. CASE st
    <3>1. service.strict /\ strict /\ Len(batch) = 1
      BY <1>4, <1>10, <2>1
    <3>2. new = {n \in DOMAIN batch : Knowledge!Kept(batch[n], TRUE)}
      BY <1>5, <1>6, <3>1 DEF Knowledge!Kept
    <3>3. PutsAll(service.docs, g, batch, new)
      BY <1>4, <1>7, <1>9
    <3> QED BY <1>9, <1>12, <3>1, <3>2, <3>3, StrictlyAdded DEF Distinct
  <2>2. CASE ~st
    BY <1>12, <2>2 DEF Distinct
  <2> QED BY <2>1, <2>2
<1>15. PICK ids : ids = Knowledge!IdsOf(batch, all)
  OBVIOUS
<1>16. Knowledge!IdsOf(batch, new) \subseteq ids /\ ids \subseteq Knowledge!Ids
  BY <1>5, <1>6, <1>15, BatchIs DEF Knowledge!IdsOf
<1>17. SameWithout(k0.docs, k.docs, ids)
  BY <1>7, <1>9, <1>12, <1>16, PutWithout
<1>18. CASE service' = Knowledge!Counted
  BY <1>3, <1>4, <1>18
<1>19. CASE service' \in Knowledge!Hung(k, batch, all)
  <2>1. all \subseteq DOMAIN batch
    BY <1>5
  <2> QED BY <1>4, <1>9, <1>12, <1>14, <1>15, <1>17, <1>19, <2>1, HungKeeps
<1>20. CASE service' = Knowledge!Leave(Knowledge!Uploaded(k, batch, all), Knowledge!IdsOf(batch, all \ new))
  <2>1. PICK h \in Papers : h = k.hub
    BY <1>12 DEF Shelf
  <2>2. PICK hub : hub = Knowledge!Put(h, batch, all)
    OBVIOUS
  <2>3. hub \in Papers /\ PutsAll(h, hub, batch, all)
    BY <1>5, <2>2, PapersPut
  <2>4. PICK old : old = Knowledge!IdsOf(batch, all \ new)
    OBVIOUS
  <2>5. PICK as : as = (k.apart \ ids) \cup old
    OBVIOUS
  <2>6. as \in SUBSET Knowledge!Ids
    <3>1. old \subseteq ids
      BY <1>15, <2>4 DEF Knowledge!IdsOf
    <3> QED BY <1>12, <1>16, <2>5, <3>1 DEF Shelf
  <2>7. service' = [k EXCEPT !.hub = hub, !.apart = as]
    <3>1. Knowledge!Uploaded(k, batch, all) = [k EXCEPT !.hub = hub, !.apart = k.apart \ ids]
      BY <1>15, <2>1, <2>2 DEF Knowledge!Uploaded
    <3>2. PICK u : u = [k EXCEPT !.hub = hub, !.apart = k.apart \ ids]
      OBVIOUS
    <3>3. u.apart = k.apart \ ids
      BY <1>12, <3>2 DEF Shelf
    <3>4. service' = [u EXCEPT !.apart = as]
      BY <1>20, <2>4, <2>5, <3>1, <3>2, <3>3 DEF Knowledge!Leave
    <3> QED BY <1>12, <3>2, <3>4 DEF Shelf
  <2>8. /\ service' \in Shelf /\ service'.docs = g /\ service'.hub = hub /\ service'.apart = as
        /\ service'.strict = st
    BY <1>12, <2>3, <2>6, <2>7 DEF Shelf
  <2>9. Distinct(service')
    BY <1>12, <1>14, <2>8 DEF Distinct
  <2>10. ASSUME NEW i \in DOMAIN g \ as
         PROVE  i \in DOMAIN hub /\ hub[i] = g[i]
    <3>1. CASE i \in ids
      <4>1. i \notin old
        BY <2>5, <2>10
      <4>2. PICK n \in all : /\ Knowledge!IdOf(batch[n]) = i /\ hub[i] = batch[n].content
                             /\ \A m \in all : Knowledge!IdOf(batch[m]) = i => m <= n
        BY <1>15, <2>3, <3>1 DEF PutsAll
      <4>3. n \in new
        BY <2>4, <4>1, <4>2 DEF Knowledge!IdsOf
      <4>4. i \in Knowledge!IdsOf(batch, new)
        BY <4>2, <4>3 DEF Knowledge!IdsOf
      <4>5. PICK m \in new : /\ Knowledge!IdOf(batch[m]) = i /\ g[i] = batch[m].content
                             /\ \A x \in new : Knowledge!IdOf(batch[x]) = i => x <= m
        BY <1>9, <4>4 DEF PutsAll
      <4>6. m <= n /\ n <= m /\ m \in Nat /\ n \in Nat
        <5>1. m \in all /\ all = 1..Len(batch) /\ Len(batch) \in Nat
          BY <1>5, <1>6, BatchIs
        <5> QED BY <4>2, <4>3, <4>5, <5>1
      <4>7. m = n
        BY <4>6
      <4>8. i \in DOMAIN hub
        BY <1>15, <2>3, <3>1 DEF PutsAll
      <4> QED BY <4>2, <4>5, <4>7, <4>8
    <3>2. CASE i \notin ids
      <4>1. i \in DOMAIN f /\ g[i] = f[i]
        BY <1>9, <1>16, <2>10, <3>2 DEF PutsAll
      <4>2. i \notin k0.apart
        BY <1>12, <2>5, <2>10, <3>2
      <4>3. i \in DOMAIN k0.hub /\ k0.hub[i] = f[i]
        BY <1>4, <1>7, <4>1, <4>2 DEF KnowledgeInv, Copied
      <4>4. i \in DOMAIN hub /\ hub[i] = h[i]
        BY <1>12, <1>15, <2>1, <2>3, <3>2, <4>3 DEF PutsAll
      <4> QED BY <1>12, <2>1, <4>1, <4>3, <4>4
    <3> QED BY <3>1, <3>2
  <2> QED BY <1>9, <2>8, <2>9, <2>10 DEF KnowledgeInv, Copied
<1> QED BY <1>2, <1>3, <1>5, <1>6, <1>13, <1>18, <1>19, <1>20

LEMMA KnowledgeUpdates ==
  ASSUME KnowledgeInv(service), Knowledge!Update
  PROVE  KnowledgeInv(service')
<1>1. Knowledge!Free
  BY DEF Knowledge!Update
<1>2. PICK batch \in Knowledge!Batches :
         LET all == DOMAIN batch
             sent == {n \in all : \A m \in 1..n : batch[m].id # NoId}
             known == {n \in all : batch[n].id \in DOMAIN service.docs}
             k == [Knowledge!Counted EXCEPT !.strict = FALSE]
             after == Knowledge!Uploaded(k, batch, sent)
             ids == Knowledge!IdsOf(batch, sent) IN
         service' \in Knowledge!Hung(k, batch, sent) \cup
                 IF sent # all \/ Knowledge!Twice(batch, all) THEN {Knowledge!Leave(after, ids)}
                 ELSE {Knowledge!Leave([after EXCEPT !.docs = Knowledge!Put(@, batch, known)],
                                       ids \ Knowledge!IdsOf(batch, known))}
  BY DEF Knowledge!Update
<1>3. PICK k0 : k0 = Knowledge!Counted
  OBVIOUS
<1>4. /\ k0 \in Shelf /\ k0.docs = service.docs /\ k0.hub = service.hub /\ k0.apart = service.apart
      /\ KnowledgeInv(k0)
  BY <1>1, <1>3, CountedIs
<1>5. PICK all : all = DOMAIN batch
  OBVIOUS
<1>6. PICK sent : sent = {n \in all : \A m \in 1..n : batch[m].id # NoId}
  OBVIOUS
<1>7. PICK known : known = {n \in all : batch[n].id \in DOMAIN service.docs}
  OBVIOUS
<1>8. PICK b \in BOOLEAN : b = FALSE
  OBVIOUS
<1>9. PICK k : k = [k0 EXCEPT !.strict = b]
  OBVIOUS
<1>10. /\ k \in Shelf /\ k.docs = k0.docs /\ k.hub = k0.hub /\ k.apart = k0.apart /\ k.strict = b
  BY <1>4, <1>9 DEF Shelf
<1>11. Distinct(k) /\ IsFiniteSet(DOMAIN k.docs)
  BY <1>4, <1>8, <1>10 DEF KnowledgeInv, Distinct
<1>12. PICK ids : ids = Knowledge!IdsOf(batch, sent)
  OBVIOUS
<1>13. ids \subseteq Knowledge!Ids /\ sent \subseteq DOMAIN batch /\ known \subseteq DOMAIN batch
  BY <1>5, <1>6, <1>7, <1>12, BatchIs DEF Knowledge!IdsOf
<1>14. PICK h \in Papers : h = k.hub
  BY <1>10 DEF Shelf
<1>15. PICK hub : hub = Knowledge!Put(h, batch, sent)
  OBVIOUS
<1>16. hub \in Papers /\ PutsAll(h, hub, batch, sent)
  BY <1>13, <1>15, PapersPut
<1>17. PICK as : as = k.apart \ ids
  OBVIOUS
<1>18. PICK u : u = [k EXCEPT !.hub = hub, !.apart = as]
  OBVIOUS
<1>19. u = Knowledge!Uploaded(k, batch, sent)
  BY <1>12, <1>14, <1>15, <1>17, <1>18 DEF Knowledge!Uploaded
<1>20. /\ u \in Shelf /\ u.docs = k.docs /\ u.hub = hub /\ u.apart = as /\ u.strict = b
  BY <1>10, <1>16, <1>17, <1>18 DEF Shelf
<1>21. CASE service' \in Knowledge!Hung(k, batch, sent)
  <2>1. SameWithout(k0.docs, k.docs, ids)
    BY <1>10 DEF SameWithout
  <2> QED BY <1>4, <1>10, <1>11, <1>12, <1>13, <1>21, <2>1, HungKeeps
<1>22. CASE service' = Knowledge!Leave(u, ids)
  <2>1. PICK bs : bs = as \cup ids
    OBVIOUS
  <2>2. bs \in SUBSET Knowledge!Ids /\ k0.apart \subseteq bs /\ ids \subseteq bs
    BY <1>10, <1>13, <1>17, <2>1 DEF Shelf
  <2>3. service' = [u EXCEPT !.apart = bs]
    BY <1>20, <1>22, <2>1 DEF Knowledge!Leave
  <2>4. /\ service' \in Shelf /\ service'.docs = k0.docs /\ service'.hub = hub /\ service'.apart = bs
        /\ service'.strict = b
    BY <1>10, <1>20, <2>2, <2>3 DEF Shelf
  <2>5. Copied(service')
    BY <1>4, <1>10, <1>12, <1>14, <1>16, <2>2, <2>4 DEF KnowledgeInv, Copied, PutsAll
  <2> QED BY <1>8, <1>10, <1>11, <2>4, <2>5 DEF KnowledgeInv, Distinct
<1>23. CASE /\ sent = all
            /\ service' = Knowledge!Leave([u EXCEPT !.docs = Knowledge!Put(@, batch, known)],
                                          ids \ Knowledge!IdsOf(batch, known))
  <2>1. PICK f \in Papers : f = u.docs
    BY <1>20 DEF Shelf
  <2>2. PICK g : g = Knowledge!Put(f, batch, known)
    OBVIOUS
  <2>3. g \in Papers /\ PutsAll(f, g, batch, known) /\ IsFiniteSet(DOMAIN g)
    <3>1. IsFiniteSet(DOMAIN f)
      BY <1>11, <1>20, <2>1
    <3> QED BY <1>13, <2>2, <3>1, PapersPut
  <2>4. PICK old : old = Knowledge!IdsOf(batch, known)
    OBVIOUS
  <2>5. PICK bs : bs = as \cup (ids \ old)
    OBVIOUS
  <2>6. bs \in SUBSET Knowledge!Ids
    BY <1>10, <1>13, <1>17, <2>5 DEF Shelf
  <2>7. PICK v : v = [u EXCEPT !.docs = g]
    OBVIOUS
  <2>8. v \in Shelf /\ v.docs = g /\ v.hub = hub /\ v.apart = as /\ v.strict = b
    BY <1>20, <2>3, <2>7 DEF Shelf
  <2>9. service' = [v EXCEPT !.apart = bs]
    BY <1>23, <2>1, <2>2, <2>4, <2>5, <2>7, <2>8 DEF Knowledge!Leave
  <2>10. /\ service' \in Shelf /\ service'.docs = g /\ service'.hub = hub /\ service'.apart = bs
         /\ service'.strict = b
    BY <2>6, <2>8, <2>9 DEF Shelf
  <2>11. ASSUME NEW n \in known
         PROVE  Knowledge!IdOf(batch[n]) = batch[n].id /\ batch[n].id \in DOMAIN k0.docs
    <3>1. n \in sent /\ n \in 1..n
      <4>1. n \in all /\ n \in 1..Len(batch)
        BY <1>5, <1>7, BatchIs
      <4> QED BY <1>23, <4>1
    <3>2. batch[n].id # NoId
      BY <1>6, <3>1
    <3> QED BY <1>4, <1>7, <3>2 DEF Knowledge!IdOf
  <2>12. old \subseteq DOMAIN k0.docs /\ old \subseteq ids
    BY <1>7, <1>12, <1>23, <2>4, <2>11 DEF Knowledge!IdsOf
  <2>13. DOMAIN g = DOMAIN k0.docs /\ f = k0.docs
    BY <1>10, <1>20, <2>1, <2>3, <2>4, <2>12 DEF PutsAll
  <2>14. ASSUME NEW i \in DOMAIN g \ bs
         PROVE  i \in DOMAIN hub /\ hub[i] = g[i]
    <3>1. CASE i \in ids
      <4>1. i \in old
        BY <2>5, <2>14, <3>1
      <4>2. PICK n \in sent : /\ Knowledge!IdOf(batch[n]) = i /\ hub[i] = batch[n].content
                              /\ \A m \in sent : Knowledge!IdOf(batch[m]) = i => m <= n
        BY <1>12, <1>16, <3>1 DEF PutsAll
      <4>3. PICK m \in known : /\ Knowledge!IdOf(batch[m]) = i /\ g[i] = batch[m].content
                               /\ \A x \in known : Knowledge!IdOf(batch[x]) = i => x <= m
        BY <2>3, <2>4, <4>1 DEF PutsAll
      <4>4. n \in known
        <5>1. batch[n].id # NoId
          <6>1. n \in 1..Len(batch)
            BY <1>5, <1>23, <4>2, BatchIs
          <6>2. n \in 1..n
            BY <6>1
          <6> QED BY <1>6, <4>2, <6>2
        <5>2. batch[n].id = i
          BY <4>2, <5>1 DEF Knowledge!IdOf
        <5>3. i \in DOMAIN service.docs
          BY <1>4, <2>12, <4>1
        <5> QED BY <1>7, <1>23, <4>2, <5>2, <5>3
      <4>5. m <= n /\ n <= m /\ m \in Nat /\ n \in Nat
        <5>1. m \in sent /\ all = 1..Len(batch) /\ Len(batch) \in Nat
          BY <1>5, <1>7, <1>23, BatchIs
        <5> QED BY <1>23, <4>2, <4>3, <4>4, <5>1
      <4>6. m = n
        BY <4>5
      <4>7. i \in DOMAIN hub
        BY <1>12, <1>16, <3>1 DEF PutsAll
      <4> QED BY <4>2, <4>3, <4>6, <4>7
    <3>2. CASE i \notin ids
      <4>1. i \in DOMAIN k0.docs /\ g[i] = k0.docs[i]
        BY <2>3, <2>4, <2>12, <2>13, <2>14, <3>2 DEF PutsAll
      <4>2. i \notin k0.apart
        BY <1>10, <1>17, <2>5, <2>14, <3>2
      <4>3. i \in DOMAIN k0.hub /\ k0.hub[i] = k0.docs[i]
        BY <1>4, <4>1, <4>2 DEF KnowledgeInv, Copied
      <4>4. i \in DOMAIN hub /\ hub[i] = h[i]
        BY <1>10, <1>12, <1>14, <1>16, <3>2, <4>3 DEF PutsAll
      <4> QED BY <1>10, <1>14, <4>1, <4>3, <4>4
    <3> QED BY <3>1, <3>2
  <2> QED BY <1>8, <2>3, <2>10, <2>14 DEF KnowledgeInv, Copied, Distinct
<1> QED BY <1>2, <1>3, <1>5, <1>6, <1>7, <1>8, <1>9, <1>12, <1>19, <1>21, <1>22, <1>23

(* A collection with fewer documents. *)
LEMMA FewerKeeps ==
  ASSUME KnowledgeInv(service), Knowledge!Free, NEW g \in Papers, DOMAIN g \subseteq DOMAIN service.docs,
         \A i \in DOMAIN g : g[i] = service.docs[i],
         service' = [Knowledge!Counted EXCEPT !.docs = g]
  PROVE  KnowledgeInv(service')
<1>1. PICK k0 : k0 = Knowledge!Counted
  OBVIOUS
<1>2. /\ k0 \in Shelf /\ k0.docs = service.docs /\ k0.hub = service.hub /\ k0.apart = service.apart
      /\ k0.strict = service.strict
  BY <1>1, CountedIs
<1>3. /\ service' \in Shelf /\ service'.docs = g /\ service'.hub = service.hub
      /\ service'.apart = service.apart /\ service'.strict = service.strict
  BY <1>1, <1>2 DEF Shelf
<1>4. IsFiniteSet(DOMAIN g)
  BY FS_Subset DEF KnowledgeInv
<1>5. Copied(service')
  BY <1>3 DEF KnowledgeInv, Copied
<1>6. Distinct(service')
  BY <1>3 DEF KnowledgeInv, Distinct
<1> QED BY <1>3, <1>4, <1>5, <1>6 DEF KnowledgeInv

LEMMA KnowledgeDeletes ==
  ASSUME KnowledgeInv(service), Knowledge!Delete
  PROVE  KnowledgeInv(service')
<1>1. PICK ids \in SUBSET Knowledge!Ids :
        service' = [Knowledge!Counted EXCEPT !.docs = [i \in DOMAIN service.docs \ ids |-> service.docs[i]]]
  BY DEF Knowledge!Delete
<1>2. DOMAIN service.docs \subseteq Knowledge!Ids /\ service.docs \in [DOMAIN service.docs -> Contents]
  BY PartialIs DEF KnowledgeInv, Shelf, Papers
<1>3. PICK g : g = [i \in DOMAIN service.docs \ ids |-> service.docs[i]]
  OBVIOUS
<1>4. /\ DOMAIN g = DOMAIN service.docs \ ids /\ \A i \in DOMAIN g : g[i] = service.docs[i]
      /\ g \in [DOMAIN g -> Contents]
  BY <1>2, <1>3
<1>5. g \in Papers
  BY <1>2, <1>4, PartialIs DEF Papers
<1> QED BY <1>1, <1>3, <1>4, <1>5, FewerKeeps DEF Knowledge!Delete

LEMMA NoPapers ==
  ASSUME NEW none, none = <<>>
  PROVE  none \in Papers /\ DOMAIN none = {} /\ IsFiniteSet(DOMAIN none)
<1>1. DOMAIN none = {} /\ none \in [DOMAIN none -> Contents]
  OBVIOUS
<1> QED BY <1>1, PartialIs, FS_EmptySet DEF Papers

LEMMA KnowledgeClears ==
  ASSUME KnowledgeInv(service), Knowledge!Clear
  PROVE  KnowledgeInv(service')
<1>1. PICK none : none = <<>>
  OBVIOUS
<1>2. none \in Papers /\ DOMAIN none = {}
  BY <1>1, NoPapers
<1>3. service' = [Knowledge!Counted EXCEPT !.docs = none]
  BY <1>1 DEF Knowledge!Clear
<1> QED BY <1>2, <1>3, FewerKeeps DEF Knowledge!Clear

LEMMA KnowledgeRestarts ==
  ASSUME KnowledgeInv(service), Knowledge!Restart
  PROVE  KnowledgeInv(service')
<1>1. PICK b \in BOOLEAN : b = FALSE
  OBVIOUS
<1>2. service' = [service EXCEPT !.stuck = b] /\ service \in Shelf
  BY <1>1 DEF Knowledge!Restart, KnowledgeInv
<1>3. /\ service' \in Shelf /\ service'.docs = service.docs /\ service'.hub = service.hub
      /\ service'.apart = service.apart /\ service'.strict = service.strict
  BY <1>2 DEF Shelf
<1> QED BY <1>3 DEF KnowledgeInv, Copied, Distinct

LEMMA KnowledgeInit == Knowledge!Init => KnowledgeInv(service)
<1> SUFFICES ASSUME Knowledge!Init
             PROVE  KnowledgeInv(service)
  OBVIOUS
<1>1. PICK none : none = <<>>
  OBVIOUS
<1>2. none \in Papers /\ DOMAIN none = {} /\ IsFiniteSet(DOMAIN none)
  BY <1>1, NoPapers
<1>3. PICK b \in BOOLEAN : b = FALSE
  OBVIOUS
<1>4. PICK st \in BOOLEAN : st = TRUE
  OBVIOUS
<1>5. PICK n \in 0..MaxWrites : n = 0
  BY KnowledgeAssumption
<1>6. service = [docs |-> none, hub |-> none, stuck |-> b, writes |-> n, apart |-> {}, strict |-> st]
  BY <1>1, <1>3, <1>4, <1>5 DEF Knowledge!Init
<1>7. service \in Shelf /\ service.docs = none
  BY <1>2, <1>6 DEF Shelf
<1> QED BY <1>2, <1>7 DEF KnowledgeInv, Copied, Distinct

LEMMA KnowledgeStep == KnowledgeInv(service) /\ Knowledge!Next => KnowledgeInv(service')
  BY KnowledgeAdds, KnowledgeUpdates, KnowledgeDeletes, KnowledgeClears, KnowledgeRestarts DEF Knowledge!Next

LEMMA KnowledgeImplies ==
  ASSUME KnowledgeInv(service)
  PROVE  Knowledge!TypeOK /\ Knowledge!HubHasTheDocuments /\ Knowledge!StrictKeepsApart
<1>1. service \in Shelf
  BY DEF KnowledgeInv
<1>2. /\ DOMAIN service.docs \subseteq Knowledge!Ids /\ service.docs \in [DOMAIN service.docs -> Contents]
      /\ DOMAIN service.hub \subseteq Knowledge!Ids /\ service.hub \in [DOMAIN service.hub -> Contents]
  BY <1>1, PartialIs DEF Shelf, Papers
<1>3. Knowledge!Range(service.docs) \cup Knowledge!Range(service.hub) \subseteq Contents
  BY <1>2 DEF Knowledge!Range
<1>4. Knowledge!TypeOK
  BY <1>1, <1>2, <1>3 DEF Knowledge!TypeOK, Shelf
<1> QED BY <1>4 DEF KnowledgeInv, Copied, Distinct, Knowledge!HubHasTheDocuments, Knowledge!StrictKeepsApart

-----------------------------------------------------------------------------
(* A loop over 1..N that stays in a set has a result.                      *)
Loop(acc, S, base, N, step) ==
  /\ acc \in [0..N -> S]
  /\ \A n \in 0..N : acc[n] = IF n = 0 THEN base ELSE step[n][acc[n - 1]]

LEMMA Recursion ==
  ASSUME NEW S, NEW base \in S, NEW N \in Nat, NEW step \in [1..N -> [S -> S]]
  PROVE  \E acc : Loop(acc, S, base, N, step)
<1> DEFINE Run(acc, k) ==
             \A n \in 0..k : acc[n] = IF n = 0 THEN base ELSE step[n][acc[n - 1]]
           T == {k \in 0..N : \E acc \in [0..k -> S] : Run(acc, k)}
<1>1. 0 \in T
  <2>1. PICK acc : acc = [n \in 0..0 |-> base]
    OBVIOUS
  <2>2. acc \in [0..0 -> S] /\ Run(acc, 0)
    BY <2>1
  <2> QED BY <2>2
<1>2. ASSUME NEW k \in 0..N, k \in T, k < N
      PROVE  k + 1 \in T
  <2>1. PICK acc \in [0..k -> S] : Run(acc, k)
    BY <1>2
  <2>2. PICK next \in S : next = step[k + 1][acc[k]]
    BY <1>2
  <2>3. PICK more : more = [n \in 0..(k + 1) |-> IF n = k + 1 THEN next ELSE acc[n]]
    OBVIOUS
  <2>4. more[k + 1] = next /\ \A n \in 0..k : more[n] = acc[n]
    BY <2>3
  <2>5. more \in [0..(k + 1) -> S]
    BY <2>3
  <2>6. ASSUME NEW n \in 0..(k + 1)
        PROVE  more[n] = IF n = 0 THEN base ELSE step[n][more[n - 1]]
    <3>1. CASE n = k + 1
      <4>1. n # 0 /\ n - 1 = k /\ k \in 0..k
        BY <3>1
      <4> QED BY <2>2, <2>4, <3>1, <4>1
    <3>2. CASE n # k + 1
      <4>1. n \in 0..k /\ (n # 0 => n - 1 \in 0..k)
        BY <3>2
      <4> QED BY <2>1, <2>4, <4>1
    <3> QED BY <3>1, <3>2
  <2>7. Run(more, k + 1)
    BY <2>6
  <2> QED BY <1>2, <2>5, <2>7
<1>3. N \in T
  <2> HIDE DEF T
  <2>1. 0..N \subseteq T
    BY <1>1, <1>2, Steps
  <2> QED BY <2>1
<1> QED BY <1>3 DEF Loop

-----------------------------------------------------------------------------
(* The index of tools.                                                     *)

Names == Seq(STRING)

Target == [server : Names, tool : Names]

IndexJob ==
  [at : Aggregator!Steps, next : Nat \ {0}, load : Seq(Aggregator!Servers), call : Names,
   want : Target, target : Target]

Row == [server : Aggregator!Servers, tools : SUBSET Names]

ToolIndex ==
  [names : Seq(Aggregator!Servers), map : PartialOf(Names, Target), rows : Seq(Row),
   grpc : SUBSET Grpc, loaded : BOOLEAN, persist : BOOLEAN,
   manager : {"none", "open", "cancelled", "closed"}, job : [Tasks -> IndexJob],
   absent : SUBSET Aggregator!Servers]

(* A name that the index has for a tool. *)
FullName(n, r) == n = r.server \o r.tool /\ Len(r.tool) > 0

Hits(j) ==
  /\ Len(j.want.server) = 1 => j.target = j.want
  /\ Len(j.call) = 1 /\ Len(j.target.server) > 0 => j.target.tool \in ToolsOf[j.target.server]

Covers(names) == \A k \in 1..Len(Configured) : \E i \in 1..Len(names) : names[i] = Configured[k]

(* A coroutine knows what the index had under the name it calls, and loads *)
(* at least what is configured.                                            *)
JobFine(j) ==
  /\ Len(j.want.server) = 0 \/ FullName(j.call, j.want)
  /\ j.at = "called" => Hits(j)
  /\ j.at \in {"ask", "askOne", "getOne"} => Len(j.load) = 1
  /\ j.at \in {"ask", "askOne"} => j.load[1] \in Grpc
  /\ j.at = "gather" => Covers(j.load)

Listed(a, s) == \E i \in 1..Len(a.rows) : a.rows[i].server = s

Complete(a) ==
  \A k \in 1..Len(Configured) :
    Configured[k] \in Grpc \/ Listed(a, Configured[k]) \/ Configured[k] \in a.absent

Rows(a) ==
  \A i \in 1..Len(a.rows) :
    /\ a.rows[i].tools \subseteq ToolsOf[a.rows[i].server]
    /\ \A t \in a.rows[i].tools : a.rows[i].server \o t \in DOMAIN a.map

IndexInv(a) ==
  /\ a \in ToolIndex
  /\ \A n \in DOMAIN a.map : FullName(n, a.map[n])
  /\ Rows(a)
  /\ Covers(a.names)
  /\ a.loaded => Complete(a)
  /\ \A t \in Tasks : JobFine(a.job[t])

LEMMA ServersAre ==
  /\ Aggregator!Servers \subseteq Names
  /\ \A k \in 1..Len(Configured) : Configured[k] \in Aggregator!Servers
  /\ Configured \in Seq(Aggregator!Servers)
  /\ \A s \in Aggregator!Servers : ToolsOf[s] \subseteq Names \ {<<>>}
<1> DEFINE S == Loadable \cup {Configured[i] : i \in DOMAIN Configured}
<1>1. Aggregator!Servers = S
  BY DEF Aggregator!Servers, Aggregator!Range
<1>2. DOMAIN Configured = 1..Len(Configured) /\ \A k \in 1..Len(Configured) : Configured[k] \in Names
  BY AggregatorAssumption DEF Names
<1>3. Configured \in Seq(S)
  <2>1. \A k \in 1..Len(Configured) : Configured[k] \in S
    BY <1>2
  <2> HIDE DEF S
  <2> QED BY <2>1, AggregatorAssumption
<1> QED BY <1>1, <1>2, <1>3, AggregatorAssumption DEF Names

LEMMA PartsAre ==
  ASSUME NEW s \in Names, NEW u \in Names, NEW n, n = s \o u
  PROVE  /\ n \in Names /\ Len(n) = Len(s) + Len(u)
         /\ SubSeq(n, Len(s) + 1, Len(n)) = u
         /\ Len(s) = 1 => <<Head(n)>> = s /\ Tail(n) = u
<1>1. n \in Seq(STRING) /\ Len(n) = Len(s) + Len(u) /\ Len(s) \in Nat /\ Len(u) \in Nat
  BY DEF Names
<1>2. \A i \in 1..Len(s) : n[i] = s[i]
  BY DEF Names
<1>3. \A i \in 1..Len(u) : n[Len(s) + i] = u[i]
  BY DEF Names
<1>4. SubSeq(n, Len(s) + 1, Len(n)) = u
  BY DEF Names
<1>5. ASSUME Len(s) = 1
      PROVE  <<Head(n)>> = s /\ Tail(n) = u
  <2>1. Head(n) = s[1]
    BY <1>1, <1>2, <1>5
  <2>2. <<s[1]>> = s
    BY <1>5 DEF Names
  <2>3. Tail(n) = SubSeq(n, 2, Len(n))
    BY <1>1, <1>5, TailIsSubSeq
  <2> QED BY <2>1, <2>2, <2>3, <1>4, <1>5
<1> QED BY <1>1, <1>4, <1>5 DEF Names

LEMMA NamesAndTargets ==
  /\ <<>> \in Names
  /\ Aggregator!Nowhere \in Target /\ Len(Aggregator!Nowhere.server) = 0
  /\ Aggregator!Idle \in IndexJob /\ JobFine(Aggregator!Idle)
  BY DEF Names, Target, Aggregator!Nowhere, Aggregator!Idle, IndexJob, JobFine, Aggregator!Steps

(* A step of one coroutine that leaves the index as it is. *)
LEMMA JobIsPut ==
  ASSUME NEW a, IndexInv(a), NEW t \in Tasks, NEW j \in IndexJob, JobFine(j)
  PROVE  IndexInv([a EXCEPT !.job[t] = j])
<1>1. PICK b : b = [a EXCEPT !.job[t] = j]
  OBVIOUS
<1>2. /\ b.names = a.names /\ b.map = a.map /\ b.rows = a.rows /\ b.loaded = a.loaded
      /\ b.absent = a.absent /\ b.job = [a.job EXCEPT ![t] = j] /\ b \in ToolIndex
  BY <1>1 DEF IndexInv, ToolIndex
<1>3. \A r \in Tasks : JobFine(b.job[r])
  BY <1>2 DEF IndexInv, ToolIndex
<1> QED BY <1>1, <1>2, <1>3 DEF IndexInv, Rows, Complete, Listed

LEMMA QuitKeeps ==
  ASSUME NEW a, IndexInv(a), NEW t \in Tasks
  PROVE  IndexInv(Aggregator!Quit(a, t))
  BY JobIsPut, NamesAndTargets DEF Aggregator!Quit, Aggregator!Do

LEMMA FindIs ==
  ASSUME NEW a, IndexInv(a), NEW name \in Names
  PROVE  LET f == Aggregator!Find(a, name)
         IN  f \in Target /\ (Len(f.server) > 0 => f.tool \in ToolsOf[f.server])
<1> DEFINE with == {i \in DOMAIN a.rows : name \in a.rows[i].tools}
           best == CHOOSE x \in with : \A y \in with : x >= y
<1>1. a.rows \in Seq(Row) /\ DOMAIN a.rows = 1..Len(a.rows) /\ Len(a.rows) \in Nat
  BY DEF IndexInv, ToolIndex
<1>2. CASE with = {}
  BY <1>2, NamesAndTargets DEF Aggregator!Find
<1>3. CASE with # {}
  <2>1. with \subseteq 1..Len(a.rows)
    BY <1>1
  <2>2. \E x \in with : \A y \in with : y <= x
    BY <1>1, <1>3, <2>1, GreatestNat
  <2>3. \E x \in with : \A y \in with : x >= y
    BY <1>1, <2>1, <2>2
  <2>4. best \in with
    <3> HIDE DEF with
    <3> QED BY <2>3
  <2>5. Aggregator!Find(a, name) = [server |-> a.rows[best].server, tool |-> name]
    BY <1>3 DEF Aggregator!Find, Aggregator!Max
  <2>6. PICK b \in 1..Len(a.rows) : b = best /\ name \in a.rows[b].tools
    BY <2>1, <2>4
  <2>7. a.rows[b] \in Row /\ a.rows[b].tools \subseteq ToolsOf[a.rows[b].server]
    BY <1>1 DEF IndexInv, Rows
  <2>8. a.rows[b].server \in Names
    BY <2>7, ServersAre DEF Row
  <2> HIDE DEF best
  <2> QED BY <2>5, <2>6, <2>7, <2>8 DEF Target
<1> QED BY <1>2, <1>3

LEMMA CallKeeps ==
  ASSUME NEW a, IndexInv(a), NEW t \in Tasks
  PROVE  IndexInv(Aggregator!Call(a, t))
<1>1. PICK name, want : name = a.job[t].call /\ want = a.job[t].want
  OBVIOUS
<1>2. /\ name \in Names /\ want \in Target /\ Len(name) \in Nat
      /\ Len(want.server) = 0 \/ FullName(name, want)
  BY <1>1 DEF IndexInv, ToolIndex, IndexJob, JobFine, Names
<1>3. PICK target : target = IF Len(name) > 1 THEN Aggregator!Split(name) ELSE Aggregator!Find(a, name)
  OBVIOUS
<1>4. PICK j : j = [Aggregator!Idle EXCEPT !.at = "called", !.call = name, !.want = want, !.target = target]
  OBVIOUS
<1>5. target \in Target
  <2>1. CASE Len(name) > 1
    <3>1. name \in Seq(STRING) /\ name # <<>>
      BY <1>2, <2>1 DEF Names
    <3>2. Head(name) \in STRING /\ Tail(name) \in Seq(STRING)
      BY <3>1, HeadTailProperties
    <3> QED BY <1>3, <2>1, <3>2 DEF Aggregator!Split, Target, Names
  <2>2. CASE ~(Len(name) > 1)
    BY <1>2, <1>3, <2>2, FindIs
  <2> QED BY <2>1, <2>2
<1>6. ASSUME Len(want.server) = 1
      PROVE  target = want
  <2>1. FullName(name, want) /\ want.server \in Names /\ want.tool \in Names
    BY <1>2, <1>6 DEF Target
  <2>2. /\ Len(name) = Len(want.server) + Len(want.tool)
        /\ Len(want.server) = 1 => <<Head(name)>> = want.server /\ Tail(name) = want.tool
    BY <2>1, PartsAre DEF FullName
  <2>3. Len(want.tool) > 0 /\ Len(want.tool) \in Nat
    BY <2>1 DEF FullName, Names
  <2>4. Len(name) > 1
    BY <1>6, <2>2, <2>3
  <2>5. target = [server |-> want.server, tool |-> want.tool]
    BY <1>3, <1>6, <2>2, <2>4 DEF Aggregator!Split
  <2> QED BY <1>2, <2>5 DEF Target
<1>7. Len(name) = 1 /\ Len(target.server) > 0 => target.tool \in ToolsOf[target.server]
  BY <1>2, <1>3, FindIs
<1>8. /\ j \in IndexJob /\ j.at = "called" /\ j.call = name /\ j.want = want /\ j.target = target
  BY <1>2, <1>4, <1>5, NamesAndTargets DEF Aggregator!Idle, IndexJob, Aggregator!Steps
<1>9. JobFine(j)
  BY <1>2, <1>6, <1>7, <1>8 DEF JobFine, Hits
<1>10. Aggregator!Call(a, t) = [a EXCEPT !.job[t] = j]
  BY <1>1, <1>3, <1>4 DEF Aggregator!Call, Aggregator!Do
<1> QED BY <1>8, <1>9, <1>10, JobIsPut

LEMMA LoadedKeeps ==
  ASSUME NEW a, IndexInv(a), NEW t \in Tasks
  PROVE  IndexInv(Aggregator!Loaded(a, t))
  BY QuitKeeps, CallKeeps DEF Aggregator!Loaded

LEMMA GatherKeeps ==
  ASSUME NEW a, IndexInv(a), NEW t \in Tasks
  PROVE  IndexInv(Aggregator!Gather(a, t))
<1>1. PICK j : j = [a.job[t] EXCEPT !.at = "gather", !.load = a.names]
  OBVIOUS
<1>2. a.job[t] \in IndexJob /\ JobFine(a.job[t]) /\ a.names \in Seq(Aggregator!Servers) /\ Covers(a.names)
  BY DEF IndexInv, ToolIndex
<1>3. /\ j \in IndexJob /\ j.at = "gather" /\ j.load = a.names
      /\ j.want = a.job[t].want /\ j.call = a.job[t].call
  BY <1>1, <1>2 DEF IndexJob, Aggregator!Steps
<1>4. JobFine(j)
  BY <1>2, <1>3 DEF JobFine
<1>5. Aggregator!Gather(a, t) = [a EXCEPT !.job[t] = j]
  BY <1>1 DEF Aggregator!Gather, Aggregator!Do
<1> QED BY <1>3, <1>4, <1>5, JobIsPut

(* Going on with what is called, after a wait. *)
LEMMA WalkKeeps ==
  ASSUME NEW a, IndexInv(a), NEW t \in Tasks
  PROVE  IndexInv(Aggregator!Walk(a, t))
<1> DEFINE asks == {i \in a.job[t].next..Len(a.names) : a.names[i] \in Grpc \ a.grpc}
           first == CHOOSE x \in asks : \A y \in asks : x <= y
<1>1. /\ a \in ToolIndex /\ a.job[t] \in IndexJob /\ JobFine(a.job[t])
      /\ a.names \in Seq(Aggregator!Servers) /\ a.job[t].next \in Nat \ {0} /\ Len(a.names) \in Nat
  BY DEF IndexInv, ToolIndex, IndexJob
<1>2. CASE asks # {}
  <2>1. asks \subseteq Nat
    BY <1>1
  <2>2. \E x \in asks : \A y \in asks : x <= y
    <3> HIDE DEF asks
    <3> QED BY <1>2, <2>1, LeastNat
  <2>3. first \in asks
    <3> HIDE DEF asks
    <3> QED BY <2>2
  <2>4. PICK i \in asks : i = first
    BY <2>3
  <2>5. i \in Nat \ {0} /\ i <= Len(a.names) /\ a.names[i] \in Grpc
    BY <1>1
  <2>7. PICK s, n : s = a.names[i] /\ n = i + 1
    OBVIOUS
  <2>8. s \in Aggregator!Servers /\ s \in Grpc /\ n \in Nat \ {0}
    <3>1. i \in 1..Len(a.names)
      BY <2>5, <1>1
    <3> QED BY <1>1, <2>5, <2>7, <3>1
  <2>13. PICK list : list = <<s>>
    OBVIOUS
  <2>14. list \in Seq(Aggregator!Servers) /\ Len(list) = 1 /\ list[1] = s
    BY <2>8, <2>13
  <2>9. PICK j : j = [a.job[t] EXCEPT !.at = "ask", !.next = n, !.load = list]
    OBVIOUS
  <2>10. /\ j \in IndexJob /\ j.at = "ask" /\ j.load = list
         /\ j.want = a.job[t].want /\ j.call = a.job[t].call
    BY <1>1, <2>8, <2>9, <2>14 DEF IndexJob, Aggregator!Steps
  <2>11. JobFine(j)
    BY <1>1, <2>8, <2>10, <2>14 DEF JobFine
  <2>12. Aggregator!Walk(a, t) = [a EXCEPT !.job[t] = j]
    BY <1>2, <2>4, <2>7, <2>9, <2>13 DEF Aggregator!Walk, Aggregator!Min, Aggregator!Do
  <2> QED BY <2>10, <2>11, <2>12, JobIsPut
<1>3. CASE asks = {} /\ a.persist /\ \E s \in Aggregator!Range(a.names) : s \notin Grpc
  <2>1. PICK j : j = [a.job[t] EXCEPT !.at = "connect"]
    OBVIOUS
  <2>2. j \in IndexJob /\ j.at = "connect" /\ j.want = a.job[t].want /\ j.call = a.job[t].call
    BY <1>1, <2>1 DEF IndexJob, Aggregator!Steps
  <2>3. JobFine(j)
    BY <1>1, <2>2 DEF JobFine
  <2>4. Aggregator!Walk(a, t) = [a EXCEPT !.job[t] = j]
    BY <1>3, <2>1 DEF Aggregator!Walk, Aggregator!Do
  <2> QED BY <2>2, <2>3, <2>4, JobIsPut
<1>4. CASE asks = {} /\ ~(a.persist /\ \E s \in Aggregator!Range(a.names) : s \notin Grpc)
  BY <1>4, GatherKeeps DEF Aggregator!Walk
<1> QED BY <1>2, <1>3, <1>4

LEMMA LoadKeeps ==
  ASSUME NEW a, IndexInv(a), NEW t \in Tasks
  PROVE  IndexInv(Aggregator!Load(a, t))
<1>1. CASE a.loaded
  BY <1>1, LoadedKeeps DEF Aggregator!Load
<1>2. CASE ~a.loaded
  <2>1. PICK none, empty : none = <<>> /\ empty = <<>>
    OBVIOUS
  <2>2. none \in PartialOf(Names, Target) /\ DOMAIN none = {} /\ empty \in Seq(Row) /\ Len(empty) = 0
    BY <2>1 DEF PartialOf
  <2>3. PICK b : b = [a EXCEPT !.map = none, !.rows = empty]
    OBVIOUS
  <2>4. /\ b \in ToolIndex /\ b.map = none /\ b.rows = empty /\ b.names = a.names
        /\ b.loaded = a.loaded /\ b.job = a.job
    BY <2>2, <2>3 DEF IndexInv, ToolIndex
  <2>5. IndexInv(b)
    BY <1>2, <2>2, <2>4 DEF IndexInv, Rows
  <2>6. PICK j : j = [a.job[t] EXCEPT !.next = 1]
    OBVIOUS
  <2>7. a.job[t] \in IndexJob /\ JobFine(a.job[t])
    BY DEF IndexInv, ToolIndex
  <2>8. /\ j \in IndexJob /\ j.at = a.job[t].at /\ j.want = a.job[t].want /\ j.call = a.job[t].call
        /\ j.load = a.job[t].load /\ j.target = a.job[t].target
    BY <2>6, <2>7 DEF IndexJob
  <2>9. JobFine(j)
    BY <2>7, <2>8 DEF JobFine, Hits
  <2>10. Aggregator!Load(a, t) = Aggregator!Walk([b EXCEPT !.job[t] = j], t)
    BY <1>2, <2>1, <2>3, <2>6 DEF Aggregator!Load, Aggregator!Do
  <2>11. IndexInv([b EXCEPT !.job[t] = j])
    BY <2>5, <2>8, <2>9, JobIsPut
  <2> QED BY <2>10, <2>11, WalkKeeps
<1> QED BY <1>1, <1>2

(* The index with the tools of a server. *)
LEMMA IndexKeeps ==
  ASSUME NEW a, IndexInv(a), NEW s \in Aggregator!Servers, NEW tools, tools \subseteq ToolsOf[s]
  PROVE  LET b == Aggregator!Index(a, s, tools)
         IN  /\ IndexInv(b) /\ Listed(b, s) /\ b.names = a.names
             /\ \A r : Listed(a, r) \/ r \in a.absent => Listed(b, r) \/ r \in b.absent
<1> DEFINE new == {s \o t : t \in tools}
           row == [server |-> s, tools |-> tools]
           fresh == [n \in new \cup DOMAIN a.map |->
                       IF n \in new THEN [server |-> s, tool |-> SubSeq(n, Len(s) + 1, Len(n))]
                       ELSE a.map[n]]
           listed == IF Aggregator!IsListed(a, s)
                     THEN [i \in DOMAIN a.rows |-> IF a.rows[i].server = s THEN row ELSE a.rows[i]]
                     ELSE Append(a.rows, row)
<1>1. /\ a \in ToolIndex /\ a.rows \in Seq(Row) /\ Len(a.rows) \in Nat /\ DOMAIN a.rows = 1..Len(a.rows)
      /\ DOMAIN a.map \subseteq Names /\ a.map \in [DOMAIN a.map -> Target]
  BY PartialIs DEF IndexInv, ToolIndex
<1>2. s \in Names /\ tools \subseteq Names \ {<<>>} /\ row \in Row
  BY ServersAre DEF Row
<1>3. PICK m, q : m = fresh /\ q = listed
  OBVIOUS
<1>4. /\ DOMAIN m = new \cup DOMAIN a.map
      /\ \A n \in new : m[n] = [server |-> s, tool |-> SubSeq(n, Len(s) + 1, Len(n))]
      /\ \A n \in DOMAIN a.map : n \notin new => m[n] = a.map[n]
  <2> HIDE DEF new
  <2> QED BY <1>3
<1>5. ASSUME NEW n \in new
      PROVE  n \in Names /\ m[n] \in Target /\ FullName(n, m[n])
  <2>1. PICK t \in tools : n = s \o t
    OBVIOUS
  <2>2. t \in Names /\ t # <<>> /\ Len(t) > 0
    <3>1. t \in Names /\ t # <<>>
      BY <1>2
    <3> QED BY <3>1, EmptySeq DEF Names
  <2>3. n \in Names /\ SubSeq(n, Len(s) + 1, Len(n)) = t
    BY <1>2, <2>1, <2>2, PartsAre
  <2>4. m[n] = [server |-> s, tool |-> t]
    BY <1>4, <2>3
  <2>5. m[n].server = s /\ m[n].tool = t /\ m[n] \in Target
    BY <1>2, <2>2, <2>4 DEF Target
  <2> QED BY <2>1, <2>2, <2>3, <2>5 DEF FullName
<1> HIDE DEF new
<1>6. ASSUME NEW n \in DOMAIN m
      PROVE  n \in Names /\ m[n] \in Target /\ FullName(n, m[n])
  <2>1. CASE n \in new
    BY <1>5, <2>1
  <2>2. CASE n \notin new
    <3>1. n \in DOMAIN a.map /\ m[n] = a.map[n]
      BY <1>4, <2>2
    <3> QED BY <1>1, <3>1 DEF IndexInv
  <2> QED BY <2>1, <2>2
<1>7. m \in PartialOf(Names, Target)
  <2>1. m \in [DOMAIN m -> Target]
    <3>1. m = [n \in DOMAIN m |-> m[n]]
      BY <1>3
    <3> QED BY <1>6, <3>1
  <2> QED BY <1>6, <2>1, PartialIs
<1>8. /\ q \in Seq(Row) /\ Len(q) \in Nat /\ Len(a.rows) <= Len(q)
      /\ \A i \in 1..Len(q) : q[i] = row \/ (i \in 1..Len(a.rows) /\ q[i] = a.rows[i])
      /\ \A i \in 1..Len(a.rows) : q[i].server = a.rows[i].server
      /\ \E i \in 1..Len(q) : q[i].server = s
  <2> DEFINE has == \E i \in 1..Len(a.rows) : a.rows[i].server = s
  <2>1. PICK r \in Row : r = row /\ r.server = s
    BY <1>2
  <2>2. Aggregator!IsListed(a, s) <=> has
    BY <1>1 DEF Aggregator!IsListed, Aggregator!Range
  <2>3. CASE has
    <3>1. q = [i \in 1..Len(a.rows) |-> IF a.rows[i].server = s THEN r ELSE a.rows[i]]
      BY <1>1, <1>3, <2>1, <2>2, <2>3
    <3>2. q \in Seq(Row) /\ Len(q) = Len(a.rows)
      BY <1>1, <3>1
    <3> QED BY <1>1, <2>1, <2>3, <3>1, <3>2
  <2>4. CASE ~has
    <3>1. q = Append(a.rows, r)
      BY <1>3, <2>1, <2>2, <2>4
    <3>2. /\ q \in Seq(Row) /\ Len(q) = Len(a.rows) + 1 /\ q[Len(q)] = r
          /\ \A i \in 1..Len(a.rows) : q[i] = a.rows[i]
      BY <1>1, <3>1
    <3> QED BY <1>1, <2>1, <3>2
  <2> QED BY <2>3, <2>4
<1>9. PICK b : b = [a EXCEPT !.map = m, !.rows = q, !.absent = a.absent \ {s}]
  OBVIOUS
<1>10. /\ b \in ToolIndex /\ b.map = m /\ b.rows = q /\ b.absent = a.absent \ {s}
       /\ b.names = a.names /\ b.loaded = a.loaded /\ b.job = a.job
  BY <1>1, <1>7, <1>8, <1>9 DEF ToolIndex
<1>11. Rows(b)
  <2>1. ASSUME NEW i \in 1..Len(q)
        PROVE  /\ q[i].tools \subseteq ToolsOf[q[i].server]
               /\ \A t \in q[i].tools : q[i].server \o t \in DOMAIN m
    <3>1. CASE q[i] = row
      <4>1. q[i].tools = tools /\ q[i].server = s
        BY <3>1
      <4>2. \A t \in tools : s \o t \in new
        BY DEF new
      <4> QED BY <1>4, <4>1, <4>2
    <3>2. CASE i \in 1..Len(a.rows) /\ q[i] = a.rows[i]
      BY <1>4, <3>2 DEF IndexInv, Rows
    <3> QED BY <1>8, <3>1, <3>2
  <2> QED BY <1>10, <2>1 DEF Rows
<1>12. Listed(b, s)
  BY <1>8, <1>10 DEF Listed
<1>13. ASSUME NEW r, Listed(a, r) \/ r \in a.absent
       PROVE  Listed(b, r) \/ r \in b.absent
  <2>1. CASE Listed(a, r)
    <3>1. PICK i \in 1..Len(a.rows) : a.rows[i].server = r
      BY <2>1 DEF Listed
    <3>2. i \in 1..Len(q) /\ q[i].server = r
      BY <1>1, <1>8, <3>1
    <3> QED BY <1>10, <3>2 DEF Listed
  <2>2. CASE r \in a.absent
    BY <1>10, <1>12, <2>2
  <2> QED BY <1>13, <2>1, <2>2
<1>14. a.loaded => Complete(b)
  BY <1>13 DEF IndexInv, Complete
<1>15. IndexInv(b)
  BY <1>6, <1>10, <1>11, <1>14 DEF IndexInv
<1>16. Aggregator!Index(a, s, tools) = b
  BY <1>3, <1>9 DEF Aggregator!Index, new
<1> QED BY <1>10, <1>12, <1>13, <1>15, <1>16

LEMMA NamesGrow ==
  ASSUME NEW a, IndexInv(a), NEW s \in Aggregator!Servers
  PROVE  /\ IndexInv([a EXCEPT !.names = Append(@, s)])
         /\ s \in Grpc => IndexInv([a EXCEPT !.names = Append(@, s), !.grpc = @ \cup {s}])
<1>1. a \in ToolIndex /\ a.names \in Seq(Aggregator!Servers) /\ Len(a.names) \in Nat
  BY DEF IndexInv, ToolIndex
<1>2. PICK names : names = Append(a.names, s)
  OBVIOUS
<1>3. /\ names \in Seq(Aggregator!Servers) /\ Len(names) = Len(a.names) + 1
      /\ \A i \in 1..Len(a.names) : names[i] = a.names[i]
  BY <1>1, <1>2
<1>4. Covers(names)
  BY <1>1, <1>3 DEF IndexInv, Covers
<1>5. ASSUME NEW g, g \subseteq Grpc
      PROVE  IndexInv([a EXCEPT !.names = names, !.grpc = g])
  <2>1. PICK b : b = [a EXCEPT !.names = names, !.grpc = g]
    OBVIOUS
  <2>2. /\ b \in ToolIndex /\ b.map = a.map /\ b.rows = a.rows /\ b.absent = a.absent
        /\ b.names = names /\ b.loaded = a.loaded /\ b.job = a.job
    BY <1>1, <1>3, <1>5, <2>1 DEF ToolIndex
  <2>3. IndexInv(b)
    BY <1>4, <2>2 DEF IndexInv, Rows, Complete, Listed
  <2> QED BY <2>1, <2>3
<1>6. [a EXCEPT !.names = Append(@, s)] = [a EXCEPT !.names = names, !.grpc = a.grpc]
  BY <1>1, <1>2 DEF ToolIndex
<1>7. [a EXCEPT !.names = Append(@, s), !.grpc = @ \cup {s}] = [a EXCEPT !.names = names, !.grpc = a.grpc \cup {s}]
  BY <1>1, <1>2 DEF ToolIndex
<1>8. a.grpc \subseteq Grpc
  BY <1>1 DEF ToolIndex
<1> QED BY <1>5, <1>6, <1>7, <1>8

LEMMA GrpcKeeps ==
  ASSUME NEW a, IndexInv(a), NEW s \in Aggregator!Servers, s \in Grpc, NEW tools, tools \subseteq ToolsOf[s]
  PROVE  IndexInv(Aggregator!IndexGrpc(a, s, tools))
<1>1. IndexInv(Aggregator!Index(a, s, tools))
  BY IndexKeeps
<1> QED BY <1>1, NamesGrow DEF Aggregator!IndexGrpc

LEMMA EntersKeeps ==
  ASSUME NEW a, IndexInv(a), NEW s \in Aggregator!Servers, NEW good, NEW empty
  PROVE  LET b == Aggregator!Enters(a, s, good, empty)
         IN  /\ IndexInv(b)
             /\ Listed(b, s) \/ s \in b.absent
             /\ \A r : Listed(a, r) \/ r \in a.absent => Listed(b, r) \/ r \in b.absent
<1>1. CASE s \in good
  BY <1>1, IndexKeeps DEF Aggregator!Enters
<1>2. CASE s \notin good /\ s \in empty
  BY <1>2, IndexKeeps DEF Aggregator!Enters
<1>3. CASE s \notin good /\ s \notin empty
  <2>1. PICK b : b = [a EXCEPT !.absent = a.absent \cup {s}]
    OBVIOUS
  <2>2. /\ b \in ToolIndex /\ b.map = a.map /\ b.rows = a.rows /\ b.absent = a.absent \cup {s}
        /\ b.names = a.names /\ b.loaded = a.loaded /\ b.job = a.job
    BY <2>1 DEF IndexInv, ToolIndex
  <2>3. IndexInv(b)
    BY <2>2 DEF IndexInv, Rows, Complete, Listed
  <2>4. Aggregator!Enters(a, s, good, empty) = b
    BY <1>3, <2>1 DEF Aggregator!Enters, IndexInv, ToolIndex
  <2> QED BY <2>2, <2>3, <2>4 DEF Listed
<1> QED BY <1>1, <1>2, <1>3

(* The loop over the results of gather. *)
LEMMA AllEnteredIs ==
  ASSUME NEW a, IndexInv(a), NEW load \in Seq(Aggregator!Servers), NEW good, NEW empty
  PROVE  LET b == Aggregator!AllEntered(a, load, good, empty)
         IN  IndexInv(b) /\ \A k \in 1..Len(load) : Listed(b, load[k]) \/ load[k] \in b.absent
<1> DEFINE S == {x \in ToolIndex : IndexInv(x)}
           Made(f) == f = [n \in 0..Len(load) |->
                             IF n = 0 THEN a ELSE Aggregator!Enters(f[n - 1], load[n], good, empty)]
           Seen(x, n) == \A k \in 1..n : Listed(x, load[k]) \/ load[k] \in x.absent
<1>1. a \in S
  BY DEF IndexInv
<1>16. \A x \in S : IndexInv(x)
  OBVIOUS
<1>2. PICK N \in Nat : N = Len(load)
  OBVIOUS
<1>3. PICK step : step = [n \in 1..N |-> [x \in S |-> Aggregator!Enters(x, load[n], good, empty)]]
  OBVIOUS
<1>4. step \in [1..N -> [S -> S]]
  <2>1. ASSUME NEW n \in 1..N, NEW x \in S
        PROVE  Aggregator!Enters(x, load[n], good, empty) \in S
    <3>1. load[n] \in Aggregator!Servers
      BY <1>2
    <3>2. IndexInv(Aggregator!Enters(x, load[n], good, empty))
      BY <1>16, <3>1, EntersKeeps
    <3> QED BY <3>2 DEF IndexInv
  <2> HIDE DEF S
  <2> QED BY <1>3, <2>1
<1> HIDE DEF S
<1>5. PICK acc : Loop(acc, S, a, N, step)
  BY <1>1, <1>4, Recursion
<1>17. /\ acc \in [0..N -> S]
       /\ \A n \in 0..N : acc[n] = IF n = 0 THEN a ELSE step[n][acc[n - 1]]
  BY <1>5 DEF Loop
<1>6. ASSUME NEW n \in 1..N
      PROVE  acc[n] = Aggregator!Enters(acc[n - 1], load[n], good, empty) /\ acc[n - 1] \in S
  <2>1. n \in 0..N /\ n # 0 /\ n - 1 \in 0..N
    OBVIOUS
  <2>2. acc[n] = step[n][acc[n - 1]] /\ acc[n - 1] \in S
    BY <1>17, <2>1
  <2> QED BY <1>3, <2>2
<1>7. \E f : Made(f)
  <2>1. PICK g : g = [n \in 0..N |->
                        IF n = 0 THEN a ELSE Aggregator!Enters(acc[n - 1], load[n], good, empty)]
    OBVIOUS
  <2>2. ASSUME NEW n \in 0..N
        PROVE  g[n] = acc[n]
    <3>1. CASE n = 0
      BY <1>17, <2>1, <3>1
    <3>2. CASE n # 0
      <4>1. n \in 1..N
        BY <3>2
      <4>2. acc[n] = Aggregator!Enters(acc[n - 1], load[n], good, empty)
        BY <1>6, <4>1
      <4> QED BY <2>1, <3>2, <4>2
    <3> QED BY <3>1, <3>2
  <2>3. g = acc
    BY <1>17, <2>1, <2>2
  <2>4. Made(g)
    BY <1>2, <2>1, <2>3
  <2> QED BY <2>4
<1>8. PICK f : f = CHOOSE g : Made(g)
  OBVIOUS
<1>9. Made(f)
  <2> HIDE DEF Made
  <2> QED BY <1>7, <1>8
<1>10. Aggregator!AllEntered(a, load, good, empty) = f[N]
  BY <1>2, <1>8 DEF Aggregator!AllEntered
<1>11. f[0] = a /\ \A n \in 1..N : f[n] = Aggregator!Enters(f[n - 1], load[n], good, empty)
  BY <1>2, <1>9
<1> HIDE DEF Made
<1> DEFINE T == {n \in 0..N : IndexInv(f[n]) /\ Seen(f[n], n)}
<1>12. 0 \in T
  BY <1>11
<1>13. ASSUME NEW k \in 0..N, k \in T, k < N
       PROVE  k + 1 \in T
  <2>1. k + 1 \in 1..N /\ (k + 1) - 1 = k
    BY <1>13
  <2>2. f[k + 1] = Aggregator!Enters(f[k], load[k + 1], good, empty)
    BY <1>11, <2>1
  <2>3. load[k + 1] \in Aggregator!Servers
    BY <1>2, <2>1
  <2>4. IndexInv(f[k]) /\ Seen(f[k], k)
    BY <1>13
  <2>5. /\ IndexInv(f[k + 1])
        /\ Listed(f[k + 1], load[k + 1]) \/ load[k + 1] \in f[k + 1].absent
        /\ \A r : Listed(f[k], r) \/ r \in f[k].absent => Listed(f[k + 1], r) \/ r \in f[k + 1].absent
    BY <2>2, <2>3, <2>4, EntersKeeps
  <2>6. Seen(f[k + 1], k + 1)
    <3>1. ASSUME NEW i \in 1..(k + 1)
          PROVE  Listed(f[k + 1], load[i]) \/ load[i] \in f[k + 1].absent
      <4>1. i = k + 1 \/ i \in 1..k
        OBVIOUS
      <4> QED BY <2>4, <2>5, <4>1
    <3> QED BY <3>1
  <2> QED BY <2>1, <2>5, <2>6
<1>14. 0..N \subseteq T
  <2> HIDE DEF T
  <2> QED BY <1>12, <1>13, Steps
<1>15. N \in T
  BY <1>14
<1> QED BY <1>2, <1>10, <1>15

LEMMA AggregatorInit == Aggregator!Init => IndexInv(service)
<1> SUFFICES ASSUME Aggregator!Init
             PROVE  IndexInv(service)
  OBVIOUS
<1>6. PICK none, empty, start : none = <<>> /\ empty = <<>> /\ start = [t \in Tasks |-> Aggregator!Idle]
  OBVIOUS
<1>7. service \in [names : {Configured}, map : {none}, rows : {empty}, grpc : {{}},
                   loaded : {FALSE}, persist : BOOLEAN, manager : {"none"}, job : {start}, absent : {{}}]
  BY <1>6 DEF Aggregator!Init
<1>8. PICK persist \in BOOLEAN : persist = service.persist
  BY <1>7
<1>1. /\ service.names = Configured /\ service.map = none /\ service.rows = empty
      /\ service.loaded = FALSE /\ service.job = start
  BY <1>7
<1>2. none \in PartialOf(Names, Target) /\ DOMAIN none = {} /\ empty \in Seq(Row) /\ Len(empty) = 0
  BY <1>6 DEF PartialOf
<1>3. start \in [Tasks -> IndexJob] /\ \A t \in Tasks : JobFine(start[t])
  BY <1>6, NamesAndTargets
<1>4. service \in ToolIndex
  BY <1>7, <1>2, <1>3, ServersAre DEF ToolIndex
<1>5. Covers(Configured)
  BY AggregatorAssumption DEF Covers
<1> QED BY <1>1, <1>2, <1>3, <1>4, <1>5 DEF IndexInv, Rows

LEMMA BeginKeeps ==
  ASSUME IndexInv(service), NEW t \in Tasks, NEW name \in Names
  PROVE  IndexInv(Aggregator!Begin(t, name))
<1>1. PICK want : want = IF name \in DOMAIN service.map THEN service.map[name] ELSE Aggregator!Nowhere
  OBVIOUS
<1>2. want \in Target /\ (Len(want.server) = 0 \/ FullName(name, want))
  <2>1. CASE name \in DOMAIN service.map
    <3>1. service.map \in [DOMAIN service.map -> Target]
      BY PartialIs DEF IndexInv, ToolIndex
    <3> QED BY <1>1, <2>1, <3>1 DEF IndexInv
  <2>2. CASE name \notin DOMAIN service.map
    BY <1>1, <2>2, NamesAndTargets
  <2> QED BY <2>1, <2>2
<1>3. PICK j : j = [Aggregator!Idle EXCEPT !.call = name, !.want = want]
  OBVIOUS
<1>4. j \in IndexJob /\ j.at = "idle" /\ j.call = name /\ j.want = want
  BY <1>2, <1>3, NamesAndTargets DEF Aggregator!Idle, IndexJob
<1>5. JobFine(j)
  BY <1>2, <1>4 DEF JobFine
<1>6. Aggregator!Begin(t, name) = [service EXCEPT !.job[t] = j]
  BY <1>1, <1>3 DEF Aggregator!Begin, Aggregator!Do
<1> QED BY <1>4, <1>5, <1>6, JobIsPut

LEMMA ManagerIs ==
  ASSUME NEW a, IndexInv(a), NEW m \in {"none", "open", "cancelled", "closed"}
  PROVE  /\ IndexInv([a EXCEPT !.manager = m])
         /\ Complete(a) => IndexInv([a EXCEPT !.loaded = TRUE, !.manager = m])
         /\ IndexInv([a EXCEPT !.manager = m, !.loaded = FALSE])
<1>1. ASSUME NEW now \in BOOLEAN, now => Complete(a)
      PROVE  IndexInv([a EXCEPT !.loaded = now, !.manager = m])
  <2>1. PICK b : b = [a EXCEPT !.loaded = now, !.manager = m]
    OBVIOUS
  <2>2. /\ b \in ToolIndex /\ b.map = a.map /\ b.rows = a.rows /\ b.absent = a.absent
        /\ b.names = a.names /\ (b.loaded <=> now) /\ b.job = a.job
    BY <2>1 DEF IndexInv, ToolIndex
  <2>3. IndexInv(b)
    BY <1>1, <2>2 DEF IndexInv, Rows, Complete, Listed
  <2> QED BY <2>1, <2>3
<1>2. PICK now \in BOOLEAN, yes \in BOOLEAN, no \in BOOLEAN : now = a.loaded /\ yes = TRUE /\ no = FALSE
  BY DEF IndexInv, ToolIndex
<1>3. [a EXCEPT !.manager = m] = [a EXCEPT !.loaded = now, !.manager = m]
  BY <1>2 DEF IndexInv, ToolIndex
<1>4. [a EXCEPT !.manager = m, !.loaded = FALSE] = [a EXCEPT !.loaded = no, !.manager = m]
  BY <1>2 DEF IndexInv, ToolIndex
<1>5. now => Complete(a)
  BY <1>2 DEF IndexInv
<1>6. IndexInv([a EXCEPT !.loaded = no, !.manager = m])
  BY <1>1, <1>2
<1>7. Complete(a) => IndexInv([a EXCEPT !.loaded = yes, !.manager = m])
  BY <1>1, <1>2
<1> QED BY <1>1, <1>2, <1>3, <1>4, <1>5, <1>6, <1>7

LEMMA CalledAre == \A name \in Called : name \in Names
  BY AggregatorAssumption DEF Names

LEMMA AggregatorBegins ==
  ASSUME IndexInv(service), NEW t \in Tasks,
         Aggregator!Enter(t) \/ Aggregator!CallTool(t) \/ Aggregator!List(t)
  PROVE  IndexInv(service')
<1>1. CASE Aggregator!Enter(t)
  <2>1. PICK a : a = Aggregator!Begin(t, <<>>)
    OBVIOUS
  <2>2. IndexInv(a)
    BY <2>1, BeginKeeps, NamesAndTargets
  <2>3. PICK b : b = IF a.persist THEN [a EXCEPT !.manager = "open"] ELSE a
    OBVIOUS
  <2>4. IndexInv(b)
    BY <2>2, <2>3, ManagerIs
  <2>5. service' = Aggregator!Load(b, t)
    BY <1>1, <2>1, <2>3 DEF Aggregator!Enter
  <2> QED BY <2>4, <2>5, LoadKeeps
<1>2. CASE Aggregator!CallTool(t)
  <2>1. PICK name \in Called : service' = Aggregator!Load(Aggregator!Begin(t, name), t)
    BY <1>2 DEF Aggregator!CallTool
  <2> QED BY <2>1, BeginKeeps, CalledAre, LoadKeeps
<1>3. CASE Aggregator!List(t)
  BY <1>3, BeginKeeps, NamesAndTargets, LoadKeeps DEF Aggregator!List
<1> QED BY <1>1, <1>2, <1>3

LEMMA FunctionsAreCalled ==
  ASSUME IndexInv(service), NEW t \in Tasks, Aggregator!CallFunction(t)
  PROVE  IndexInv(service')
<1>1. PICK name \in Called :
        service' = Aggregator!Do(service, t,
                     [Aggregator!Idle EXCEPT !.at = "called", !.call = name,
                        !.want = [server |-> <<>>, tool |-> name],
                        !.target = [server |-> <<>>, tool |-> name]])
  BY DEF Aggregator!CallFunction
<1>2. PICK own, none : none = <<>> /\ own = [server |-> none, tool |-> name]
  OBVIOUS
<1>3. own \in Target /\ own.server = none /\ Len(own.server) = 0
  BY <1>2, CalledAre, NamesAndTargets DEF Target
<1>4. PICK j : j = [Aggregator!Idle EXCEPT !.at = "called", !.call = name, !.want = own, !.target = own]
  OBVIOUS
<1>5. j \in IndexJob /\ j.at = "called" /\ j.call = name /\ j.want = own /\ j.target = own
  BY <1>3, <1>4, CalledAre, NamesAndTargets DEF Aggregator!Idle, IndexJob, Aggregator!Steps
<1>6. JobFine(j)
  BY <1>3, <1>5 DEF JobFine, Hits
<1> QED BY <1>1, <1>2, <1>4, <1>5, <1>6, JobIsPut DEF Aggregator!Do

LEMMA ServersAreLoaded ==
  ASSUME IndexInv(service), NEW t \in Tasks, Aggregator!LoadServer(t)
  PROVE  IndexInv(service')
<1>1. PICK s \in Loadable :
        service' = Aggregator!Do(service, t,
                     [Aggregator!Idle EXCEPT !.at = IF s \in Grpc THEN "askOne" ELSE "getOne",
                                             !.load = <<s>>])
  BY DEF Aggregator!LoadServer
<1>2. PICK at, load : at = (IF s \in Grpc THEN "askOne" ELSE "getOne") /\ load = <<s>>
  OBVIOUS
<1>3. s \in Aggregator!Servers
  BY DEF Aggregator!Servers
<1>4. load \in Seq(Aggregator!Servers) /\ Len(load) = 1 /\ load[1] = s
  BY <1>2, <1>3
<1>5. PICK j : j = [Aggregator!Idle EXCEPT !.at = at, !.load = load]
  OBVIOUS
<1>6. /\ j \in IndexJob /\ j.at = at /\ j.load = load /\ at \in {"askOne", "getOne"}
      /\ Len(j.want.server) = 0
  BY <1>2, <1>4, <1>5, NamesAndTargets DEF Aggregator!Idle, IndexJob, Aggregator!Steps
<1>7. at = "askOne" => s \in Grpc
  BY <1>2
<1>8. JobFine(j)
  BY <1>4, <1>6, <1>7 DEF JobFine
<1> QED BY <1>1, <1>2, <1>5, <1>6, <1>8, JobIsPut DEF Aggregator!Do

LEMMA AskedKeeps ==
  ASSUME IndexInv(service), NEW t \in Tasks, Aggregator!Asked(t)
  PROVE  IndexInv(service')
<1>1. service.job[t] \in IndexJob /\ JobFine(service.job[t]) /\ service.job[t].at \in {"ask", "askOne"}
  BY DEF IndexInv, ToolIndex, Aggregator!Asked
<1>2. PICK s : s = service.job[t].load[1]
  OBVIOUS
<1>3. s \in Aggregator!Servers /\ s \in Grpc
  <2>1. service.job[t].load \in Seq(Aggregator!Servers) /\ Len(service.job[t].load) = 1
    BY <1>1 DEF IndexJob, JobFine
  <2> QED BY <1>1, <1>2, <2>1 DEF JobFine
<1>4. CASE service' = Aggregator!Quit(service, t)
  BY <1>4, QuitKeeps
<1>5. CASE \E tools \in {ToolsOf[s], {}} :
             service' = IF service.job[t].at = "ask"
                        THEN Aggregator!Walk(Aggregator!IndexGrpc(service, s, tools), t)
                        ELSE Aggregator!Quit(Aggregator!IndexGrpc(service, s, tools), t)
  <2>1. PICK tools \in {ToolsOf[s], {}} :
             service' = IF service.job[t].at = "ask"
                        THEN Aggregator!Walk(Aggregator!IndexGrpc(service, s, tools), t)
                        ELSE Aggregator!Quit(Aggregator!IndexGrpc(service, s, tools), t)
    BY <1>5
  <2>2. IndexInv(Aggregator!IndexGrpc(service, s, tools))
    BY <1>3, <2>1, GrpcKeeps
  <2> QED BY <2>1, <2>2, WalkKeeps, QuitKeeps
<1> QED BY <1>2, <1>4, <1>5 DEF Aggregator!Asked

LEMMA GotOneKeeps ==
  ASSUME IndexInv(service), NEW t \in Tasks, Aggregator!GotOne(t)
  PROVE  IndexInv(service')
<1>1. service.job[t] \in IndexJob /\ JobFine(service.job[t]) /\ service.job[t].at = "getOne"
  BY DEF IndexInv, ToolIndex, Aggregator!GotOne
<1>2. PICK s : s = service.job[t].load[1]
  OBVIOUS
<1>3. s \in Aggregator!Servers
  <2>1. service.job[t].load \in Seq(Aggregator!Servers) /\ Len(service.job[t].load) = 1
    BY <1>1 DEF IndexJob, JobFine
  <2> QED BY <1>2, <2>1
<1>4. CASE service' = Aggregator!Quit(service, t)
  BY <1>4, QuitKeeps
<1>5. CASE \E tools \in {ToolsOf[s], {}} :
             service' = [Aggregator!Index(Aggregator!Quit(service, t), s, tools) EXCEPT !.names = Append(@, s)]
  <2>1. PICK tools \in {ToolsOf[s], {}} :
             service' = [Aggregator!Index(Aggregator!Quit(service, t), s, tools) EXCEPT !.names = Append(@, s)]
    BY <1>5
  <2>2. IndexInv(Aggregator!Index(Aggregator!Quit(service, t), s, tools))
    BY <1>3, <2>1, QuitKeeps, IndexKeeps
  <2> QED BY <1>3, <2>1, <2>2, NamesGrow
<1> QED BY <1>2, <1>4, <1>5 DEF Aggregator!GotOne

LEMMA GatheredKeeps ==
  ASSUME IndexInv(service), NEW t \in Tasks, Aggregator!Gathered(t)
  PROVE  IndexInv(service')
<1>1. PICK load : load = service.job[t].load
  OBVIOUS
<1>2. load \in Seq(Aggregator!Servers) /\ Len(load) \in Nat /\ Covers(load)
  BY <1>1 DEF IndexInv, ToolIndex, IndexJob, JobFine, Aggregator!Gathered
<1>3. PICK refused, good, empty, a :
        /\ a = Aggregator!AllEntered(service, load, good, empty)
        /\ service' = Aggregator!Loaded(
                        [a EXCEPT !.loaded = TRUE, !.manager = IF refused THEN "cancelled" ELSE @], t)
  BY <1>1 DEF Aggregator!Gathered
<1>4. IndexInv(a) /\ \A k \in 1..Len(load) : Listed(a, load[k]) \/ load[k] \in a.absent
  BY <1>2, <1>3, AllEnteredIs
<1>5. Complete(a)
  BY <1>2, <1>4 DEF Complete, Covers
<1>6. PICK m : m = IF refused THEN "cancelled" ELSE a.manager
  OBVIOUS
<1>7. m \in {"none", "open", "cancelled", "closed"}
  BY <1>4, <1>6 DEF IndexInv, ToolIndex
<1>8. service' = Aggregator!Loaded([a EXCEPT !.loaded = TRUE, !.manager = m], t)
  BY <1>3, <1>4, <1>6 DEF IndexInv, ToolIndex
<1>9. IndexInv([a EXCEPT !.loaded = TRUE, !.manager = m])
  BY <1>4, <1>5, <1>7, ManagerIs
<1> QED BY <1>8, <1>9, LoadedKeeps

LEMMA AggregatorStep == IndexInv(service) /\ Aggregator!Next => IndexInv(service')
<1> SUFFICES ASSUME IndexInv(service), Aggregator!Next
             PROVE  IndexInv(service')
  OBVIOUS
<1>1. ASSUME NEW t \in Tasks, Aggregator!Connected(t)
      PROVE  IndexInv(service')
  BY <1>1, GatherKeeps, QuitKeeps DEF Aggregator!Connected
<1>2. ASSUME NEW t \in Tasks, Aggregator!Interrupted(t)
      PROVE  IndexInv(service')
  <2>1. PICK a : a = Aggregator!Quit(service, t)
    OBVIOUS
  <2>2. IndexInv(a)
    BY <2>1, QuitKeeps
  <2>3. PICK m : m = IF a.manager = "open" THEN "cancelled" ELSE a.manager
    OBVIOUS
  <2>4. m \in {"none", "open", "cancelled", "closed"}
    BY <2>2, <2>3 DEF IndexInv, ToolIndex
  <2>5. service' = [a EXCEPT !.manager = m]
    BY <1>2, <2>1, <2>2, <2>3 DEF Aggregator!Interrupted, IndexInv, ToolIndex
  <2> QED BY <2>2, <2>4, <2>5, ManagerIs
<1>3. ASSUME Aggregator!Close
      PROVE  IndexInv(service')
  BY <1>3, ManagerIs DEF Aggregator!Close
<1> QED BY <1>1, <1>2, <1>3, AggregatorBegins, FunctionsAreCalled, ServersAreLoaded, AskedKeeps,
           GotOneKeeps, GatheredKeeps DEF Aggregator!Next

LEMMA AggregatorImplies ==
  ASSUME IndexInv(service)
  PROVE  Aggregator!TypeOK /\ Aggregator!CallReachesItsServer /\ Aggregator!LoadedServersAreListed
<1>1. /\ service \in ToolIndex /\ service.rows \in Seq(Row) /\ service.names \in Seq(Aggregator!Servers)
      /\ DOMAIN service.rows = 1..Len(service.rows) /\ DOMAIN service.names = 1..Len(service.names)
  BY DEF IndexInv, ToolIndex
<1>2. \A r \in Aggregator!Range(service.rows) : \E i \in 1..Len(service.rows) : r = service.rows[i]
  BY <1>1 DEF Aggregator!Range
<1>3. \A r \in Aggregator!Range(service.rows) :
        /\ r.server \in Aggregator!Servers /\ r.tools \subseteq ToolsOf[r.server]
        /\ \A u \in r.tools : r.server \o u \in DOMAIN service.map
  <2>1. ASSUME NEW i \in 1..Len(service.rows)
        PROVE  service.rows[i].server \in Aggregator!Servers
    <3>1. service.rows[i] \in Row
      BY <1>1
    <3> QED BY <3>1 DEF Row
  <2> QED BY <1>2, <2>1 DEF IndexInv, Rows
<1>4. Aggregator!TypeOK
  <2>1. Aggregator!Range(service.names) \subseteq Aggregator!Servers
    BY <1>1 DEF Aggregator!Range
  <2>2. \A t \in Tasks : service.job[t].at \in Aggregator!Steps
    BY <1>1 DEF ToolIndex, IndexJob
  <2> QED BY <1>1, <1>3, <2>1, <2>2 DEF Aggregator!TypeOK, ToolIndex
<1>5. Aggregator!CallReachesItsServer
  BY DEF Aggregator!CallReachesItsServer, IndexInv, JobFine, Hits
<1>6. ASSUME service.loaded, NEW s \in Aggregator!Range(Configured) \ Grpc
      PROVE  Aggregator!IsListed(service, s) \/ s \in service.absent
  <2>1. PICK k \in 1..Len(Configured) : Configured[k] = s
    BY AggregatorAssumption DEF Aggregator!Range
  <2>2. Listed(service, s) \/ s \in service.absent
    BY <1>6, <2>1 DEF IndexInv, Complete
  <2>3. Listed(service, s) => Aggregator!IsListed(service, s)
    BY <1>1 DEF Listed, Aggregator!IsListed, Aggregator!Range
  <2> QED BY <2>2, <2>3
<1>7. Aggregator!LoadedServersAreListed
  BY <1>3, <1>6 DEF Aggregator!LoadedServersAreListed
<1> QED BY <1>4, <1>5, <1>7

-----------------------------------------------------------------------------
(* Conversations.                                                          *)

ChatMsg == [id : Nat, asks : Nat]

Buffer == [id : Nat, msgs : Seq(ChatMsg)]

HubFile == [of : Nat, at : Nat, msg : ChatMsg]

ChatJob ==
  [at : {"idle", "model", "agent", "handler"}, memory : Nat, asks : Nat, seen : Seq(ChatMsg)]

ChatState ==
  [heap : Seq(Buffer), at : PartialOf(Nat, Nat), default : Nat, loaded : SUBSET Nat,
   files : SUBSET HubFile, made : Nat, fresh : Nat, job : [Tasks -> ChatJob],
   stuck : BOOLEAN, faults : Nat, cut : SUBSET Nat, torn : SUBSET Nat]

Apart(s) == \A i, j \in 1..Len(s) : s[i].id = s[j].id => i = j

IdsTo(s, k) == \A i \in 1..Len(s) : s[i].id \in 1..k

HasId(s, q) == \E j \in 1..Len(s) : s[j].id = q

Follows(s) ==
  \A i \in 1..Len(s) : s[i].asks # 0 => \E j \in 1..(i - 1) : s[j].id = s[i].asks

FilesOf(name, s) == {[of |-> name, at |-> i - 1, msg |-> s[i]] : i \in 1..Len(s)}

Of(files, name) == {f \in files : f.of = name}

(* Conversations of the agent that nothing was deleted from, cleared of or *)
(* loaded over.                                                            *)
Clean(c) == (1..Chats) \ c.torn

ChatTyped(c) ==
  /\ c \in ChatState /\ c.fresh <= MaxFresh /\ c.made <= MaxMessages
  /\ c.default \in 1..(Chats + c.fresh) /\ c.loaded \subseteq 1..Chats
  /\ \A n \in DOMAIN c.at : n \in 1..(Chats + c.fresh) /\ c.at[n] \in 1..Len(c.heap)
  /\ \A f \in c.files : f.of \in 1..(Chats + c.fresh) /\ f.msg.id \in 1..c.made
  /\ c.cut \subseteq 1..Len(c.heap)

Buffers(c) ==
  \A o \in 1..Len(c.heap) :
    /\ c.heap[o].id \in 1..(Chats + c.fresh)
    /\ IdsTo(c.heap[o].msgs, c.made) /\ Apart(c.heap[o].msgs)
    /\ o \in c.cut \/ Follows(c.heap[o].msgs)

(* The question of a request is in its memory. *)
Requests(c) ==
  \A t \in Tasks : c.job[t].at # "idle" =>
    /\ c.job[t].memory \in 1..Len(c.heap)
    /\ c.job[t].memory \in c.cut \/ HasId(c.heap[c.job[t].memory].msgs, c.job[t].asks)

(* A clean conversation has one memory, the one it is listed with. *)
Named(c) ==
  /\ \A o \in 1..Len(c.heap) : c.heap[o].id \in Clean(c) =>
       c.heap[o].id \in DOMAIN c.at /\ c.at[c.heap[o].id] = o /\ o \notin c.cut
  /\ \A n \in DOMAIN c.at : c.heap[c.at[n]].id = n \/ c.heap[c.at[n]].id \notin Clean(c)
  /\ \A n \in Clean(c) : n \in c.loaded => n \in DOMAIN c.at

(* The files of a name are those of a conversation. *)
Kept(files, name, k) ==
  \E s \in Seq(ChatMsg) : Apart(s) /\ Follows(s) /\ IdsTo(s, k) /\ Of(files, name) = FilesOf(name, s)

InStep(c, o) ==
  \/ Of(c.files, c.heap[o].id) = FilesOf(c.heap[o].id, c.heap[o].msgs)
  \/ c.heap[o].id \notin c.loaded /\ Len(c.heap[o].msgs) = 0

Mirrors(c) ==
  /\ \A n \in Clean(c) : Kept(c.files, n, c.made)
  /\ ~c.stuck => \A o \in 1..Len(c.heap) : c.heap[o].id \in Clean(c) => InStep(c, o)

ChatInv(c) == ChatTyped(c) /\ Buffers(c) /\ Requests(c) /\ Named(c) /\ Mirrors(c)

(* What a message appended to a list keeps. *)
LEMMA ListGrows ==
  ASSUME NEW s \in Seq(ChatMsg), NEW m \in ChatMsg, NEW r, r = Append(s, m)
  PROVE  /\ r \in Seq(ChatMsg) /\ Len(r) = Len(s) + 1 /\ Len(s) \in Nat
         /\ \A i \in 1..Len(s) : r[i] = s[i]
         /\ r[Len(s) + 1] = m
         /\ Apart(s) /\ ~HasId(s, m.id) => Apart(r)
         /\ \A k \in Nat : IdsTo(s, k) /\ m.id \in 1..k => IdsTo(r, k)
         /\ \A q : HasId(r, q) <=> HasId(s, q) \/ q = m.id
         /\ Follows(s) /\ (m.asks = 0 \/ HasId(s, m.asks)) => Follows(r)
<1>1. /\ r \in Seq(ChatMsg) /\ Len(r) = Len(s) + 1 /\ Len(s) \in Nat
      /\ \A i \in 1..Len(s) : r[i] = s[i]
      /\ r[Len(s) + 1] = m
  OBVIOUS
<1>2. PICK N \in Nat : N = Len(s)
  BY <1>1
<1>3. /\ Len(r) = N + 1 /\ r[N + 1] = m
      /\ \A i \in 1..(N + 1) : i = N + 1 \/ (i \in 1..N /\ r[i] = s[i])
      /\ \A i \in 1..N : i \in 1..(N + 1) /\ r[i] = s[i] /\ i # N + 1
  BY <1>1, <1>2
<1>4. Apart(s) /\ ~HasId(s, m.id) => Apart(r)
  BY <1>2, <1>3 DEF Apart, HasId
<1>5. \A k \in Nat : IdsTo(s, k) /\ m.id \in 1..k => IdsTo(r, k)
  BY <1>2, <1>3 DEF IdsTo
<1>6. \A q : HasId(r, q) <=> HasId(s, q) \/ q = m.id
  BY <1>2, <1>3 DEF HasId
<1>7. Follows(s) /\ (m.asks = 0 \/ HasId(s, m.asks)) => Follows(r)
  <2>1. ASSUME Follows(s), m.asks = 0 \/ HasId(s, m.asks), NEW i \in 1..(N + 1), r[i].asks # 0
        PROVE  \E j \in 1..(i - 1) : r[j].id = r[i].asks
    <3>1. CASE i = N + 1
      <4>1. PICK j \in 1..N : s[j].id = m.asks
        BY <1>2, <1>3, <2>1, <3>1 DEF HasId
      <4>2. j \in 1..(i - 1) /\ r[j].id = r[i].asks
        BY <1>3, <3>1, <4>1
      <4> QED BY <4>2
    <3>2. CASE i \in 1..N
      <4>1. PICK j \in 1..(i - 1) : s[j].id = s[i].asks
        BY <1>2, <1>3, <2>1, <3>2 DEF Follows
      <4>2. j \in 1..N
        BY <3>2
      <4> QED BY <1>3, <3>2, <4>1, <4>2
    <3> QED BY <1>3, <2>1, <3>1, <3>2
  <2> QED BY <1>3, <2>1 DEF Follows
<1> QED BY <1>1, <1>4, <1>5, <1>6, <1>7

LEMMA FilesGrow ==
  ASSUME NEW s \in Seq(ChatMsg), NEW m \in ChatMsg, NEW r, r = Append(s, m), NEW name
  PROVE  FilesOf(name, r) = FilesOf(name, s) \cup {[of |-> name, at |-> Len(s), msg |-> m]}
<1>1. PICK N \in Nat : N = Len(s)
  OBVIOUS
<1>2. Len(r) = N + 1 /\ r[N + 1] = m /\ \A i \in 1..N : r[i] = s[i]
  BY <1>1
<1>3. /\ \A i \in 1..(N + 1) : i = N + 1 \/ (i \in 1..N /\ r[i] = s[i])
      /\ \A i \in 1..N : i \in 1..(N + 1) /\ r[i] = s[i]
  BY <1>2
<1>4. (N + 1) - 1 = N
  OBVIOUS
<1> QED BY <1>1, <1>2, <1>3, <1>4 DEF FilesOf

(* The first k of s joined to p, those left out whose ids are there. *)
Joined(p, s, r, k) ==
  /\ r \in Seq(ChatMsg)
  /\ Len(p) <= Len(r) /\ \A i \in 1..Len(p) : r[i] = p[i]
  /\ Apart(p) => Apart(r)
  /\ \A b \in Nat : IdsTo(p, b) /\ IdsTo(s, b) => IdsTo(r, b)
  /\ \A i \in 1..k : HasId(r, s[i].id)
  /\ Follows(p) /\ Follows(s) => Follows(r)
  /\ Len(p) = 0 /\ Apart(s) => Len(r) = k /\ \A i \in 1..k : r[i] = s[i]
  /\ (\A i \in 1..Len(s) : HasId(p, s[i].id)) => r = p

LEMMA JoinsOne ==
  ASSUME NEW p \in Seq(ChatMsg), NEW s \in Seq(ChatMsg), NEW k \in Nat, k < Len(s), NEW r,
         Joined(p, s, r, k), NEW q, q = IF HasId(r, s[k + 1].id) THEN r ELSE Append(r, s[k + 1])
  PROVE  Joined(p, s, q, k + 1)
<1>1. k + 1 \in 1..Len(s) /\ Len(s) \in Nat /\ r \in Seq(ChatMsg) /\ Len(p) \in Nat
  BY DEF Joined
<1>2. PICK m : m = s[k + 1]
  OBVIOUS
<1>3. m \in ChatMsg /\ m.id \in Nat
  <2>1. m \in ChatMsg
    BY <1>1, <1>2
  <2> QED BY <2>1 DEF ChatMsg
<1>4. \A i \in 1..(k + 1) : i = k + 1 \/ i \in 1..k
  OBVIOUS
<1>5. CASE HasId(r, m.id)
  <2>1. q = r
    BY <1>2, <1>5
  <2>2. ASSUME Len(p) = 0, Apart(s)
        PROVE  FALSE
    <3>1. Len(r) = k /\ \A i \in 1..k : r[i] = s[i]
      BY <2>2 DEF Joined
    <3>2. PICK j \in 1..k : s[j].id = m.id
      BY <1>5, <3>1 DEF HasId
    <3>3. j \in 1..Len(s) /\ j # k + 1
      BY <1>1, <3>2
    <3> QED BY <1>1, <1>2, <2>2, <3>2, <3>3 DEF Apart
  <2> QED BY <1>2, <1>4, <1>5, <2>1, <2>2 DEF Joined
<1>6. CASE ~HasId(r, m.id)
  <2>1. q = Append(r, m)
    BY <1>2, <1>6
  <2>2. /\ q \in Seq(ChatMsg) /\ Len(q) = Len(r) + 1 /\ Len(r) \in Nat
        /\ \A i \in 1..Len(r) : q[i] = r[i]
        /\ q[Len(r) + 1] = m
        /\ Apart(r) => Apart(q)
        /\ \A b \in Nat : IdsTo(r, b) /\ m.id \in 1..b => IdsTo(q, b)
        /\ \A n : HasId(q, n) <=> HasId(r, n) \/ n = m.id
        /\ Follows(r) /\ (m.asks = 0 \/ HasId(r, m.asks)) => Follows(q)
    BY <1>1, <1>3, <1>6, <2>1, ListGrows
  <2>3. Len(p) <= Len(q) /\ \A i \in 1..Len(p) : q[i] = p[i]
    <3>1. Len(p) <= Len(r) /\ \A i \in 1..Len(p) : r[i] = p[i]
      BY DEF Joined
    <3> QED BY <1>1, <2>2, <3>1
  <2>4. \A b \in Nat : IdsTo(p, b) /\ IdsTo(s, b) => IdsTo(q, b)
    <3>1. \A b \in Nat : IdsTo(s, b) => m.id \in 1..b
      BY <1>1, <1>2 DEF IdsTo
    <3> QED BY <2>2, <3>1 DEF Joined
  <2>5. \A i \in 1..(k + 1) : HasId(q, s[i].id)
    BY <1>2, <1>4, <2>2 DEF Joined
  <2>6. ASSUME Follows(p), Follows(s)
        PROVE  Follows(q)
    <3>1. Follows(r)
      BY <2>6 DEF Joined
    <3>2. m.asks # 0 => \E j \in 1..k : s[j].id = m.asks
      <4>1. (k + 1) - 1 = k
        OBVIOUS
      <4> QED BY <1>1, <1>2, <2>6, <4>1 DEF Follows
    <3>3. m.asks = 0 \/ HasId(r, m.asks)
      BY <3>2 DEF Joined
    <3> QED BY <2>2, <3>1, <3>3
  <2>7. ASSUME Len(p) = 0, Apart(s)
        PROVE  Len(q) = k + 1 /\ \A i \in 1..(k + 1) : q[i] = s[i]
    <3>1. Len(r) = k /\ \A i \in 1..k : r[i] = s[i]
      BY <2>7 DEF Joined
    <3> QED BY <1>2, <1>4, <2>2, <3>1
  <2>8. ASSUME \A i \in 1..Len(s) : HasId(p, s[i].id)
        PROVE  FALSE
    <3>1. r = p /\ HasId(p, m.id)
      BY <1>1, <1>2, <2>8 DEF Joined
    <3> QED BY <1>6, <3>1
  <2>9. Apart(p) => Apart(q)
    BY <2>2 DEF Joined
  <2> QED BY <2>2, <2>3, <2>4, <2>5, <2>6, <2>7, <2>8, <2>9 DEF Joined
<1> QED BY <1>5, <1>6

(* A list of different ids up to k is not longer than k. *)
LEMMA ApartIsShort ==
  ASSUME NEW s \in Seq(ChatMsg), NEW k \in Nat, Apart(s), IdsTo(s, k)
  PROVE  Len(s) <= k
<1>1. PICK n \in Nat : n = Len(s)
  OBVIOUS
<1>2. PICK f : f = [i \in 1..n |-> s[i].id]
  OBVIOUS
<1>3. f \in [1..n -> 1..k]
  BY <1>1, <1>2 DEF IdsTo
<1>4. IsFiniteSet(1..n) /\ Cardinality(1..n) = n /\ IsFiniteSet(1..k) /\ Cardinality(1..k) = k
  BY FS_Interval
<1> SUFFICES ASSUME k < n
             PROVE  FALSE
  BY <1>1
<1>5. \E x, y \in 1..n : x # y /\ f[x] = f[y]
  BY <1>3, <1>4, FS_PigeonHole
<1> QED BY <1>1, <1>2, <1>5 DEF Apart

LEMMA FileIn ==
  ASSUME NEW name, NEW s \in Seq(ChatMsg), NEW i \in 1..Len(s), NEW f \in FilesOf(name, s), f.at = i - 1
  PROVE  f.msg = s[i]
<1>1. PICK j \in 1..Len(s) : f = [of |-> name, at |-> j - 1, msg |-> s[j]]
  BY DEF FilesOf
<1>2. j = i
  BY <1>1
<1> QED BY <1>1, <1>2

(* The listing of the hub, as a loop. *)
FileMsgs(files) == {f.msg : f \in files}

FilesAt(files, name, i) == {f \in files : f.of = name /\ f.at = i}

Listed1(files, name, i, s) ==
  IF FilesAt(files, name, i) = {} THEN s
  ELSE Append(s, (CHOOSE f \in FilesAt(files, name, i) : TRUE).msg)

Listing(first, files, name) ==
  /\ \A n \in 0..MaxMessages : first[n] \in Seq(FileMsgs(files))
  /\ first[0] = <<>>
  /\ \A n \in 1..MaxMessages : first[n] = Listed1(files, name, n - 1, first[n - 1])

LEMMA ListedIn ==
  ASSUME NEW files, NEW name, NEW i, NEW s \in Seq(FileMsgs(files))
  PROVE  Listed1(files, name, i, s) \in Seq(FileMsgs(files))
<1>1. CASE FilesAt(files, name, i) = {}
  BY <1>1 DEF Listed1
<1>2. CASE FilesAt(files, name, i) # {}
  <2>1. PICK g : g = CHOOSE f \in FilesAt(files, name, i) : TRUE
    OBVIOUS
  <2>2. g \in files
    BY <1>2, <2>1 DEF FilesAt
  <2>3. PICK M : M = FileMsgs(files)
    OBVIOUS
  <2>4. g.msg \in M
    BY <2>2, <2>3 DEF FileMsgs
  <2>5. PICK m : m = g.msg
    OBVIOUS
  <2>6. Append(s, m) \in Seq(M)
    BY <2>3, <2>4, <2>5
  <2>7. Listed1(files, name, i, s) = Append(s, m)
    BY <1>2, <2>1, <2>5 DEF Listed1
  <2> QED BY <2>3, <2>6, <2>7
<1> QED BY <1>1, <1>2

LEMMA FoundLoop ==
  ASSUME NEW files, NEW name, MaxMessages \in Nat
  PROVE  \E first : Listing(first, files, name) /\ Chatting!Found(files, name) = first[MaxMessages]
<1> DEFINE S == Seq(FileMsgs(files))
           Made(g) == g = [n \in 0..MaxMessages |->
                             IF n = 0 THEN <<>> ELSE Listed1(files, name, n - 1, g[n - 1])]
<1>1. PICK none : none = <<>>
  OBVIOUS
<1>2. none \in S
  BY <1>1
<1>3. PICK step : step = [n \in 1..MaxMessages |-> [s \in S |-> Listed1(files, name, n - 1, s)]]
  OBVIOUS
<1>4. \A n \in 1..MaxMessages, s \in S : Listed1(files, name, n - 1, s) \in S
  BY ListedIn
<1> HIDE DEF S
<1>5. step \in [1..MaxMessages -> [S -> S]]
  BY <1>3, <1>4
<1>6. PICK acc : Loop(acc, S, none, MaxMessages, step)
  BY <1>2, <1>5, Recursion
<1>7. /\ acc \in [0..MaxMessages -> S]
      /\ \A n \in 0..MaxMessages : acc[n] = IF n = 0 THEN none ELSE step[n][acc[n - 1]]
  BY <1>6 DEF Loop
<1>8. ASSUME NEW n \in 1..MaxMessages
      PROVE  acc[n] = Listed1(files, name, n - 1, acc[n - 1])
  <2>1. n \in 0..MaxMessages /\ n # 0 /\ n - 1 \in 0..MaxMessages
    OBVIOUS
  <2>2. acc[n] = step[n][acc[n - 1]] /\ acc[n - 1] \in S
    BY <1>7, <2>1
  <2> QED BY <1>3, <2>2
<1>9. Made(acc)
  <2>1. PICK g : g = [n \in 0..MaxMessages |-> IF n = 0 THEN none ELSE Listed1(files, name, n - 1, acc[n - 1])]
    OBVIOUS
  <2>2. ASSUME NEW n \in 0..MaxMessages
        PROVE  g[n] = acc[n]
    <3>1. CASE n = 0
      BY <1>7, <2>1, <3>1
    <3>2. CASE n # 0
      <4>1. n \in 1..MaxMessages
        BY <3>2
      <4>2. acc[n] = Listed1(files, name, n - 1, acc[n - 1])
        BY <1>8, <4>1
      <4> QED BY <2>1, <3>2, <4>2
    <3> QED BY <3>1, <3>2
  <2>3. g = acc
    BY <1>7, <2>1, <2>2
  <2>4. acc = [n \in 0..MaxMessages |-> IF n = 0 THEN <<>> ELSE Listed1(files, name, n - 1, acc[n - 1])]
    BY <1>1, <2>1, <2>3
  <2> QED BY <2>4
<1>10. PICK first : first = CHOOSE g : Made(g)
  OBVIOUS
<1>11. Made(first)
  <2> HIDE DEF Made
  <2> QED BY <1>9, <1>10
<1>12. Chatting!Found(files, name) = first[MaxMessages]
  BY <1>10 DEF Chatting!Found, Listed1, FilesAt
<1>13. \A n \in 0..MaxMessages :
         first[n] = IF n = 0 THEN <<>> ELSE Listed1(files, name, n - 1, first[n - 1])
  BY <1>11
<1> HIDE DEF Made
<1>14. first[0] = none
  BY <1>1, <1>13
<1>15. \A n \in 1..MaxMessages : first[n] = Listed1(files, name, n - 1, first[n - 1])
  <2>1. \A n \in 1..MaxMessages : n \in 0..MaxMessages /\ n # 0
    OBVIOUS
  <2> QED BY <1>13, <2>1
<1> DEFINE T == {n \in 0..MaxMessages : first[n] \in S}
<1>16. 0 \in T
  BY <1>2, <1>14
<1>17. ASSUME NEW k \in 0..MaxMessages, k \in T, k < MaxMessages
       PROVE  k + 1 \in T
  <2>1. k + 1 \in 1..MaxMessages /\ (k + 1) - 1 = k /\ k + 1 \in 0..MaxMessages
    BY <1>17
  <2>2. first[k + 1] = Listed1(files, name, (k + 1) - 1, first[k]) /\ first[k] \in S
    BY <1>15, <1>17, <2>1
  <2> QED BY <1>4, <2>1, <2>2
<1>18. 0..MaxMessages \subseteq T
  <2> HIDE DEF T
  <2> QED BY <1>16, <1>17, Steps
<1>19. \A n \in 0..MaxMessages : first[n] \in S
  BY <1>18
<1>20. first[0] = <<>>
  BY <1>1, <1>14
<1> USE DEF S
<1> QED BY <1>12, <1>15, <1>19, <1>20 DEF Listing

LEMMA FoundIs ==
  ASSUME NEW files, files \subseteq HubFile, NEW name, MaxMessages \in Nat
  PROVE  /\ Chatting!Found(files, name) \in Seq(ChatMsg)
         /\ \A i \in 1..Len(Chatting!Found(files, name)) :
              \E f \in files : Chatting!Found(files, name)[i] = f.msg
         /\ \A s \in Seq(ChatMsg) :
              Len(s) <= MaxMessages /\ Of(files, name) = FilesOf(name, s) => Chatting!Found(files, name) = s
<1>1. PICK first : Listing(first, files, name) /\ Chatting!Found(files, name) = first[MaxMessages]
  BY FoundLoop
<1>2. PICK M, found : M = FileMsgs(files) /\ found = first[MaxMessages]
  OBVIOUS
<1>3. M \subseteq ChatMsg /\ \A m \in M : \E f \in files : m = f.msg
  BY <1>2 DEF HubFile, FileMsgs
<1>4. \A n \in 0..MaxMessages : first[n] \in Seq(M)
  BY <1>1, <1>2 DEF Listing
<1>5. found \in Seq(M) /\ found \in Seq(ChatMsg)
  <2>1. found \in Seq(M)
    BY <1>2, <1>4
  <2> QED BY <1>3, <2>1
<1>6. \A i \in 1..Len(found) : \E f \in files : found[i] = f.msg
  <2>1. \A i \in 1..Len(found) : found[i] \in M
    BY <1>5
  <2> QED BY <1>3, <2>1
<1>7. ASSUME NEW s \in Seq(ChatMsg), Len(s) <= MaxMessages, Of(files, name) = FilesOf(name, s)
      PROVE  found = s
  <2>1. PICK N \in Nat : N = Len(s)
    OBVIOUS
  <2> DEFINE Short(k) == IF k <= N THEN k ELSE N
             T == {k \in 0..MaxMessages : Len(first[k]) = Short(k) /\ \A i \in 1..Short(k) : first[k][i] = s[i]}
  <2>2. 0 \in T
    BY <1>1, <2>1 DEF Listing
  <2>3. ASSUME NEW k \in 0..MaxMessages, k \in T, k < MaxMessages
        PROVE  k + 1 \in T
    <3>0. PICK here : here = FilesAt(files, name, k)
      OBVIOUS
    <3>1. k + 1 \in 1..MaxMessages /\ (k + 1) - 1 = k /\ k + 1 \in 0..MaxMessages
      BY <2>3
    <3>2. first[k + 1] = IF here = {} THEN first[k] ELSE Append(first[k], (CHOOSE f \in here : TRUE).msg)
      <4>1. first[k + 1] = Listed1(files, name, (k + 1) - 1, first[(k + 1) - 1])
        BY <1>1, <3>1 DEF Listing
      <4> QED BY <3>0, <3>1, <4>1 DEF Listed1
    <3>3. here = {f \in FilesOf(name, s) : f.at = k}
      BY <1>7, <3>0 DEF Of, FilesAt
    <3>4. CASE k < N
      <4>1. k + 1 \in 1..Len(s)
        BY <2>1, <3>4
      <4>2. here # {}
        <5>1. [of |-> name, at |-> (k + 1) - 1, msg |-> s[k + 1]] \in FilesOf(name, s)
          BY <4>1 DEF FilesOf
        <5> QED BY <3>1, <3>3, <5>1
      <4>3. PICK g : g = CHOOSE f \in here : TRUE
        OBVIOUS
      <4>4. g \in FilesOf(name, s) /\ g.at = k
        BY <3>3, <4>2, <4>3
      <4>5. g.msg = s[k + 1]
        BY <3>1, <4>1, <4>4, FileIn
      <4>6. first[k + 1] = Append(first[k], s[k + 1])
        BY <3>2, <4>2, <4>3, <4>5
      <4>7. first[k] \in Seq(M) /\ Len(first[k]) = k /\ \A i \in 1..k : first[k][i] = s[i]
        BY <1>4, <2>3, <3>4
      <4>8. Len(first[k + 1]) = k + 1 /\ \A i \in 1..(k + 1) : first[k + 1][i] = s[i]
        <5>1. PICK r, m : r = first[k] /\ m = s[k + 1]
          OBVIOUS
        <5>2. r \in Seq(M) /\ Len(r) = k /\ first[k + 1] = Append(r, m)
          BY <4>6, <4>7, <5>1
        <5>3. Len(Append(r, m)) = k + 1 /\ Append(r, m)[k + 1] = m /\ \A i \in 1..k : Append(r, m)[i] = r[i]
          BY <5>2
        <5>4. \A i \in 1..(k + 1) : i = k + 1 \/ i \in 1..k
          OBVIOUS
        <5> QED BY <4>7, <5>1, <5>2, <5>3, <5>4
      <4>9. Short(k + 1) = k + 1
        BY <3>4, <3>1
      <4> QED BY <3>1, <4>8, <4>9
    <3>5. CASE ~(k < N)
      <4>1. here = {}
        <5>1. ASSUME NEW f \in FilesOf(name, s), f.at = k
              PROVE  FALSE
          <6>1. PICK j \in 1..Len(s) : f = [of |-> name, at |-> j - 1, msg |-> s[j]]
            BY DEF FilesOf
          <6>2. j - 1 = k /\ j <= N
            BY <2>1, <5>1, <6>1
          <6> QED BY <3>5, <6>2
        <5> QED BY <3>3, <5>1
      <4>2. first[k + 1] = first[k]
        BY <3>2, <4>1
      <4>3. Short(k + 1) = N /\ Short(k) = N
        BY <3>5
      <4> QED BY <2>3, <3>1, <4>2, <4>3
    <3> QED BY <3>4, <3>5
  <2>4. 0..MaxMessages \subseteq T
    <3> HIDE DEF T
    <3> QED BY <2>2, <2>3, Steps
  <2>5. MaxMessages \in T /\ Short(MaxMessages) = N
    BY <1>7, <2>1, <2>4
  <2>6. Len(found) = Len(s) /\ \A i \in 1..Len(s) : found[i] = s[i]
    BY <1>2, <2>1, <2>5
  <2>7. PICK f \in Seq(ChatMsg) : f = found
    BY <1>5
  <2> QED BY <2>6, <2>7
<1> QED BY <1>1, <1>2, <1>5, <1>6, <1>7

LEMMA StateIs ==
  ASSUME NEW c
  PROVE  c \in ChatState <=>
           /\ c = [heap |-> c.heap, at |-> c.at, default |-> c.default, loaded |-> c.loaded,
                   files |-> c.files, made |-> c.made, fresh |-> c.fresh, job |-> c.job,
                   stuck |-> c.stuck, faults |-> c.faults, cut |-> c.cut, torn |-> c.torn]
           /\ c.heap \in Seq(Buffer) /\ c.at \in PartialOf(Nat, Nat) /\ c.default \in Nat
           /\ c.loaded \subseteq Nat /\ c.files \subseteq HubFile /\ c.made \in Nat /\ c.fresh \in Nat
           /\ c.job \in [Tasks -> ChatJob] /\ c.stuck \in BOOLEAN /\ c.faults \in Nat
           /\ c.cut \subseteq Nat /\ c.torn \subseteq Nat
  BY DEF ChatState

(* A memory of the heap with other messages. *)
Holding(heap, o, s) == [heap EXCEPT ![o] = [id |-> heap[o].id, msgs |-> s]]

Held(heap, o, s, h) ==
  /\ h \in Seq(Buffer) /\ Len(h) = Len(heap) /\ h[o].msgs = s
  /\ \A n \in 1..Len(heap) : h[n].id = heap[n].id
  /\ \A n \in 1..Len(heap) : n # o => h[n] = heap[n]

LEMMA HoldingIs ==
  ASSUME NEW heap \in Seq(Buffer), NEW o \in 1..Len(heap), NEW s \in Seq(ChatMsg),
         NEW h, h = Holding(heap, o, s)
  PROVE  Held(heap, o, s, h)
<1>1. PICK N \in Nat : N = Len(heap) /\ DOMAIN heap = 1..N
  OBVIOUS
<1>2. heap[o] \in Buffer
  OBVIOUS
<1>3. PICK b : b = [id |-> heap[o].id, msgs |-> s]
  OBVIOUS
<1>4. b \in Buffer /\ b.id = heap[o].id /\ b.msgs = s /\ heap[o].id \in Nat /\ heap[o].msgs \in Seq(ChatMsg)
  BY <1>2, <1>3 DEF Buffer
<1>5. h = [heap EXCEPT ![o] = b]
  BY <1>3 DEF Holding
<1>6. h \in Seq(Buffer) /\ Len(h) = Len(heap) /\ h[o] = b /\ \A n \in 1..Len(heap) : n # o => h[n] = heap[n]
  BY <1>4, <1>5
<1> QED BY <1>4, <1>6 DEF Held

(* The parts of the state after a message was added. *)
AddsTo(c, o, m, way, h, files, torn, stuck, n) ==
  LET s == c.heap[o].msgs
      id == c.heap[o].id IN
  /\ h = Holding(c.heap, o, Append(s, m))
  /\ files = IF way \in {"done", "unanswered"} THEN Chatting!Put(c.files, id, Len(s), m) ELSE c.files
  /\ torn = IF way \in Chatting!Ways /\ Chatting!Unread(c, id) THEN c.torn \cup {id} ELSE c.torn
  /\ stuck \in BOOLEAN /\ (stuck <=> (c.stuck \/ way \in {"failed", "unanswered"}))
  /\ n = IF way \in {"failed", "unanswered"} THEN c.faults + 1 ELSE c.faults

WithParts(d, c, h, files, torn, stuck, n) ==
  d = [c EXCEPT !.heap = h, !.files = files, !.torn = torn, !.stuck = stuck, !.faults = n]

LEMMA AddIs ==
  ASSUME NEW c \in ChatState, NEW o \in 1..Len(c.heap), NEW m \in ChatMsg, NEW way,
         ~HasId(c.heap[o].msgs, m.id), NEW h, NEW files, NEW torn, NEW stuck, NEW n,
         AddsTo(c, o, m, way, h, files, torn, stuck, n)
  PROVE  WithParts(Chatting!Add(c, o, m, way), c, h, files, torn, stuck, n)
<1> USE DEF AddsTo
<1>1. c.heap \in Seq(Buffer) /\ c.heap[o] \in Buffer /\ c.heap[o].msgs \in Seq(ChatMsg)
  <2>1. c.heap \in Seq(Buffer)
    BY DEF ChatState
  <2>2. c.heap[o] \in Buffer
    BY <2>1
  <2> QED BY <2>1, <2>2 DEF Buffer
<1>2. ~Chatting!Has(c, o, m)
  BY <1>1 DEF Chatting!Has, HasId
<1>3. [c.heap EXCEPT ![o].msgs = Append(@, m)] = Holding(c.heap, o, Append(c.heap[o].msgs, m))
  <2>1. PICK heap, b, s : heap = c.heap /\ b = heap[o] /\ s = Append(b.msgs, m)
    OBVIOUS
  <2>2. b = [id |-> b.id, msgs |-> b.msgs]
    BY <1>1, <2>1 DEF Buffer
  <2>3. [b EXCEPT !.msgs = s] = [id |-> b.id, msgs |-> s]
    BY <2>2
  <2>4. [heap EXCEPT ![o].msgs = s] = [heap EXCEPT ![o] = [b EXCEPT !.msgs = s]]
    BY <2>1
  <2>5. [heap EXCEPT ![o].msgs = s] = Holding(heap, o, s)
    BY <2>1, <2>3, <2>4 DEF Holding
  <2> QED BY <2>1, <2>5
<1>4. (c.stuck \/ way \in {"failed", "unanswered"}) = stuck
  OBVIOUS
<1>5. Chatting!Add(c, o, m, way) =
        [c EXCEPT !.heap = [c.heap EXCEPT ![o].msgs = Append(@, m)], !.files = files, !.torn = torn,
                  !.stuck = stuck, !.faults = n]
  BY <1>2, <1>4 DEF Chatting!Add, ChatState
<1> QED BY <1>3, <1>5 DEF WithParts

(* What stays when a memory becomes another one, under a name that need    *)
(* not be in step or with the files that the hub has.                      *)
MayReplace(c, o, b, T, C, fr) ==
  /\ o \in 1..Len(c.heap) /\ b \in Buffer /\ T \subseteq Nat /\ c.torn \subseteq T
  /\ C = c.cut \/ C = c.cut \cup {o}
  /\ fr \in Nat /\ c.fresh <= fr /\ fr <= MaxFresh
  /\ b.id \in 1..(Chats + fr) /\ IdsTo(b.msgs, c.made) /\ Apart(b.msgs)
  /\ o \in C \/ (Follows(b.msgs) /\ \A q : HasId(c.heap[o].msgs, q) => HasId(b.msgs, q))
  /\ b.id \in (1..Chats) \ T =>
       b.id = c.heap[o].id /\ o \notin C /\ Of(c.files, b.id) = FilesOf(b.id, b.msgs)

WithMemory(d, c, o, b, T, C, fr, n) ==
  d = [c EXCEPT !.heap = [c.heap EXCEPT ![o] = b], !.torn = T, !.cut = C, !.fresh = fr, !.faults = n]

LEMMA Replaced ==
  ASSUME NEW c, ChatInv(c), NEW o, NEW b, NEW T, NEW C, NEW n \in Nat, NEW fr,
         MayReplace(c, o, b, T, C, fr), NEW d, WithMemory(d, c, o, b, T, C, fr, n)
  PROVE  ChatInv(d)
<1> USE DEF MayReplace, WithMemory
<1>1. /\ c \in ChatState /\ c.heap \in Seq(Buffer) /\ c.fresh \in Nat /\ c.cut \subseteq Nat
      /\ Len(c.heap) \in Nat /\ Chats \in Nat
  BY ConversationsAssumption DEF ChatInv, ChatTyped, ChatState
<1>2. PICK h : h = [c.heap EXCEPT ![o] = b]
  OBVIOUS
<1>3. h \in Seq(Buffer) /\ Len(h) = Len(c.heap) /\ h[o] = b /\ \A p \in 1..Len(c.heap) : p # o => h[p] = c.heap[p]
  BY <1>1, <1>2
<1>4. /\ d.heap = h /\ d.torn = T /\ d.cut = C /\ d.fresh = fr /\ d.faults = n /\ d.at = c.at
      /\ d.default = c.default /\ d.loaded = c.loaded /\ d.files = c.files /\ d.made = c.made
      /\ d.job = c.job /\ d.stuck = c.stuck
  BY <1>1, <1>2 DEF ChatState
<1>5. d \in ChatState
  <2>1. C \subseteq Nat
    BY <1>1
  <2> QED BY <1>1, <1>2, <1>3, <2>1 DEF ChatState
<1>6. 1..(Chats + c.fresh) \subseteq 1..(Chats + fr) /\ Clean(d) \subseteq Clean(c)
  BY <1>1, <1>4 DEF Clean
<1>7. C \subseteq 1..Len(h)
  BY <1>3 DEF ChatInv, ChatTyped
<1>8. ChatTyped(d)
  BY <1>3, <1>4, <1>5, <1>6, <1>7 DEF ChatInv, ChatTyped
<1>9. Buffers(d)
  <2>1. ASSUME NEW p \in 1..Len(h)
        PROVE  /\ h[p].id \in 1..(Chats + fr)
               /\ IdsTo(h[p].msgs, c.made) /\ Apart(h[p].msgs)
               /\ p \in C \/ Follows(h[p].msgs)
    <3>1. CASE p = o
      BY <1>3, <3>1
    <3>2. CASE p # o
      BY <1>3, <1>6, <3>2 DEF ChatInv, Buffers
    <3> QED BY <3>1, <3>2
  <2> QED BY <1>4, <2>1 DEF Buffers
<1>10. Requests(d)
  <2>1. ASSUME NEW t \in Tasks, c.job[t].at # "idle"
        PROVE  /\ c.job[t].memory \in 1..Len(h)
               /\ c.job[t].memory \in C \/ HasId(h[c.job[t].memory].msgs, c.job[t].asks)
    <3>1. PICK p : p = c.job[t].memory
      OBVIOUS
    <3>2. p \in 1..Len(c.heap) /\ (p \in c.cut \/ HasId(c.heap[p].msgs, c.job[t].asks))
      BY <2>1, <3>1 DEF ChatInv, Requests
    <3> QED BY <1>3, <3>1, <3>2
  <2> QED BY <1>4, <2>1 DEF Requests
<1>11. ASSUME NEW p \in 1..Len(h), h[p].id \in Clean(d)
       PROVE  p \notin C /\ h[p].id = c.heap[p].id
  <2>1. CASE p = o
    BY <1>3, <1>4, <1>11, <2>1 DEF Clean
  <2>2. CASE p # o
    <3>1. h[p] = c.heap[p] /\ h[p].id \in Clean(c) /\ p \in 1..Len(c.heap)
      BY <1>3, <1>6, <1>11, <2>2
    <3>2. p \notin c.cut
      BY <3>1 DEF ChatInv, Named
    <3> QED BY <2>2, <3>1, <3>2
  <2> QED BY <2>1, <2>2
<1>12. Named(d)
  <2>1. \A p \in 1..Len(h) : h[p].id \in Clean(d) =>
          h[p].id \in DOMAIN c.at /\ c.at[h[p].id] = p /\ p \notin C
    BY <1>3, <1>6, <1>11 DEF ChatInv, Named
  <2>2. ASSUME NEW m \in DOMAIN c.at
        PROVE  h[c.at[m]].id = m \/ h[c.at[m]].id \notin Clean(d)
    <3>1. c.at[m] \in 1..Len(h)
      BY <1>3 DEF ChatInv, ChatTyped
    <3>2. c.heap[c.at[m]].id = m \/ c.heap[c.at[m]].id \notin Clean(c)
      BY DEF ChatInv, Named
    <3> QED BY <1>6, <1>11, <3>1, <3>2
  <2>3. \A m \in Clean(d) : m \in c.loaded => m \in DOMAIN c.at
    BY <1>6 DEF ChatInv, Named
  <2>4. d.heap = h /\ d.at = c.at /\ d.loaded = c.loaded /\ d.cut = C
    BY <1>4
  <2>5. \A m \in DOMAIN c.at : h[c.at[m]].id = m \/ h[c.at[m]].id \notin Clean(d)
    BY <2>2
  <2> QED BY <2>1, <2>3, <2>4, <2>5 DEF Named
<1>13. Mirrors(d)
  <2>1. \A m \in Clean(d) : Kept(c.files, m, c.made)
    BY <1>6 DEF ChatInv, Mirrors
  <2>2. ASSUME ~c.stuck, NEW p \in 1..Len(h), h[p].id \in Clean(d)
        PROVE  InStep(d, p)
    <3>1. CASE p = o
      BY <1>3, <1>4, <2>2, <3>1 DEF InStep, Clean
    <3>2. CASE p # o
      <4>1. h[p] = c.heap[p] /\ InStep(c, p)
        BY <1>3, <1>6, <2>2, <3>2 DEF ChatInv, Mirrors
      <4> QED BY <1>4, <4>1 DEF InStep
    <3> QED BY <3>1, <3>2
  <2> QED BY <1>4, <2>1, <2>2 DEF Mirrors
<1> QED BY <1>8, <1>9, <1>10, <1>12, <1>13 DEF ChatInv

LEMMA TornGrows ==
  ASSUME NEW c, ChatInv(c), NEW T \in SUBSET Nat, c.torn \subseteq T, NEW n \in Nat,
         NEW d, d = [c EXCEPT !.torn = T, !.faults = n]
  PROVE  ChatInv(d)
<1>1. c \in ChatState
  BY DEF ChatInv, ChatTyped
<1>2. /\ d.heap = c.heap /\ d.torn = T /\ d.cut = c.cut /\ d.fresh = c.fresh /\ d.at = c.at
      /\ d.default = c.default /\ d.loaded = c.loaded /\ d.files = c.files /\ d.made = c.made
      /\ d.job = c.job /\ d.stuck = c.stuck /\ d \in ChatState
  BY <1>1 DEF ChatState
<1>3. Clean(d) \subseteq Clean(c)
  BY <1>2 DEF Clean
<1>4. ChatTyped(d) /\ Buffers(d) /\ Requests(d)
  BY <1>2 DEF ChatInv, ChatTyped, Buffers, Requests
<1>5. Named(d)
  BY <1>2, <1>3 DEF ChatInv, Named
<1>6. Mirrors(d)
  <2>1. \A p : InStep(d, p) <=> InStep(c, p)
    BY <1>2 DEF InStep
  <2> QED BY <1>2, <1>3, <2>1 DEF ChatInv, Mirrors
<1> QED BY <1>4, <1>5, <1>6 DEF ChatInv

LEMMA LoadedGrows ==
  ASSUME NEW c, ChatInv(c), NEW name \in 1..Chats, name \in DOMAIN c.at,
         \/ name \notin Clean(c)
         \/ c.heap[c.at[name]].id # name
         \/ c.stuck
         \/ Of(c.files, name) = FilesOf(name, c.heap[c.at[name]].msgs),
         NEW d, d = [c EXCEPT !.loaded = c.loaded \cup {name}]
  PROVE  ChatInv(d)
<1>1. c \in ChatState /\ Chats \in Nat
  BY ConversationsAssumption DEF ChatInv, ChatTyped
<1>2. /\ d.heap = c.heap /\ d.torn = c.torn /\ d.cut = c.cut /\ d.fresh = c.fresh /\ d.at = c.at
      /\ d.default = c.default /\ d.files = c.files /\ d.made = c.made
      /\ d.job = c.job /\ d.stuck = c.stuck /\ d \in ChatState
  BY <1>1 DEF ChatState
<1>3. d.loaded = c.loaded \cup {name}
  BY <1>1 DEF ChatState
<1>4. Clean(d) = Clean(c)
  BY <1>2 DEF Clean
<1>5. ChatTyped(d) /\ Buffers(d) /\ Requests(d)
  BY <1>2, <1>3 DEF ChatInv, ChatTyped, Buffers, Requests
<1>6. Named(d)
  BY <1>2, <1>3, <1>4 DEF ChatInv, Named
<1>7. Mirrors(d)
  <2>1. ASSUME ~c.stuck, NEW p \in 1..Len(c.heap), c.heap[p].id \in Clean(c)
        PROVE  InStep(d, p)
    <3>1. InStep(c, p) /\ c.at[c.heap[p].id] = p
      BY <2>1 DEF ChatInv, Mirrors, Named
    <3>2. CASE c.heap[p].id = name
      BY <1>2, <2>1, <3>1, <3>2 DEF InStep
    <3>3. CASE c.heap[p].id # name
      BY <1>2, <1>3, <3>1, <3>3 DEF InStep
    <3> QED BY <3>2, <3>3
  <2> QED BY <1>2, <1>4, <2>1 DEF ChatInv, Mirrors
<1> QED BY <1>5, <1>6, <1>7 DEF ChatInv

LEMMA MadeGrows ==
  ASSUME NEW c, ChatInv(c), c.made + 1 <= MaxMessages, NEW d, d = [c EXCEPT !.made = c.made + 1]
  PROVE  ChatInv(d)
<1>1. PICK k \in Nat : k = c.made
  BY DEF ChatInv, ChatTyped, ChatState
<1>2. c \in ChatState
  BY DEF ChatInv, ChatTyped
<1>3. /\ d.heap = c.heap /\ d.torn = c.torn /\ d.cut = c.cut /\ d.fresh = c.fresh /\ d.at = c.at
      /\ d.default = c.default /\ d.loaded = c.loaded /\ d.files = c.files /\ d.made = k + 1
      /\ d.job = c.job /\ d.stuck = c.stuck /\ d \in ChatState
  BY <1>1, <1>2 DEF ChatState
<1>4. 1..k \subseteq 1..(k + 1) /\ \A s : IdsTo(s, k) => IdsTo(s, k + 1)
  BY DEF IdsTo
<1>5. Clean(d) = Clean(c)
  BY <1>3 DEF Clean
<1>6. ChatTyped(d)
  BY <1>1, <1>3, <1>4 DEF ChatInv, ChatTyped
<1>7. Buffers(d) /\ Requests(d)
  BY <1>1, <1>3, <1>4 DEF ChatInv, Buffers, Requests
<1>8. Named(d)
  BY <1>3, <1>5 DEF ChatInv, Named
<1>9. Mirrors(d)
  <2>1. \A name : Kept(c.files, name, k) => Kept(c.files, name, k + 1)
    BY <1>4 DEF Kept
  <2>2. \A p : InStep(d, p) <=> InStep(c, p)
    BY <1>3 DEF InStep
  <2> QED BY <1>1, <1>3, <1>5, <2>1, <2>2 DEF ChatInv, Mirrors
<1> QED BY <1>6, <1>7, <1>8, <1>9 DEF ChatInv

(* A request begins, or ends. *)
LEMMA JobIs ==
  ASSUME NEW c, ChatInv(c), NEW t \in Tasks, NEW j \in ChatJob,
         j.at # "idle" => /\ j.memory \in 1..Len(c.heap)
                          /\ j.memory \in c.cut \/ HasId(c.heap[j.memory].msgs, j.asks),
         NEW d, d = [c EXCEPT !.job[t] = j]
  PROVE  ChatInv(d)
<1>1. c \in ChatState
  BY DEF ChatInv, ChatTyped
<1>2. /\ d.heap = c.heap /\ d.torn = c.torn /\ d.cut = c.cut /\ d.fresh = c.fresh /\ d.at = c.at
      /\ d.default = c.default /\ d.loaded = c.loaded /\ d.files = c.files /\ d.made = c.made
      /\ d.stuck = c.stuck /\ d \in ChatState
  BY <1>1 DEF ChatState
<1>3. d.job[t] = j /\ \A u \in Tasks : u # t => d.job[u] = c.job[u]
  BY <1>1 DEF ChatState
<1>4. Clean(d) = Clean(c) /\ \A p : InStep(d, p) <=> InStep(c, p)
  BY <1>2 DEF Clean, InStep
<1>5. ChatTyped(d)
  BY <1>2 DEF ChatInv, ChatTyped
<1>6. Buffers(d) /\ Named(d)
  BY <1>2, <1>4 DEF ChatInv, Buffers, Named
<1>7. Requests(d)
  <2>1. ASSUME NEW u \in Tasks, d.job[u].at # "idle"
        PROVE  /\ d.job[u].memory \in 1..Len(d.heap)
               /\ d.job[u].memory \in d.cut \/ HasId(d.heap[d.job[u].memory].msgs, d.job[u].asks)
    <3>1. CASE u = t
      BY <1>2, <1>3, <2>1, <3>1
    <3>2. CASE u # t
      BY <1>2, <1>3, <2>1, <3>2 DEF ChatInv, Requests
    <3> QED BY <3>1, <3>2
  <2> QED BY <2>1 DEF Requests
<1>8. Mirrors(d)
  BY <1>2, <1>4 DEF ChatInv, Mirrors
<1> QED BY <1>5, <1>6, <1>7, <1>8 DEF ChatInv

LEMMA GetMemoryKeeps ==
  ASSUME NEW c, ChatInv(c), NEW name \in 1..(Chats + c.fresh), NEW d, d = Chatting!GetMemory(c, name)
  PROVE  /\ ChatInv(d) /\ name \in DOMAIN d.at /\ d.at[name] \in 1..Len(d.heap)
         /\ d.loaded = c.loaded /\ d.files = c.files /\ d.made = c.made /\ d.torn = c.torn
         /\ d.stuck = c.stuck /\ d.job = c.job /\ d.fresh = c.fresh /\ d.default = c.default
<1>1. CASE name \in DOMAIN c.at
  BY <1>1 DEF Chatting!GetMemory, ChatInv, ChatTyped
<1>2. CASE name \notin DOMAIN c.at
  <2>1. /\ c \in ChatState /\ c.heap \in Seq(Buffer) /\ c.at \in PartialOf(Nat, Nat) /\ c.fresh \in Nat
        /\ Chats \in Nat /\ name \in Nat
    BY ConversationsAssumption DEF ChatInv, ChatTyped, ChatState
  <2>2. PICK none : none = <<>>
    OBVIOUS
  <2>3. none \in Seq(ChatMsg) /\ Len(none) = 0
    BY <2>2
  <2>4. PICK b : b = [id |-> name, msgs |-> none]
    OBVIOUS
  <2>5. b \in Buffer /\ b.id = name /\ b.msgs = none
    BY <2>1, <2>3, <2>4 DEF Buffer
  <2>6. PICK N \in Nat : N = Len(c.heap)
    BY <2>1
  <2>7. PICK h : h = Append(c.heap, b)
    OBVIOUS
  <2>8. PICK at : at = [n \in {name} \cup DOMAIN c.at |-> IF n = name THEN N + 1 ELSE c.at[n]]
    OBVIOUS
  <2>9. /\ h \in Seq(Buffer) /\ Len(h) = N + 1 /\ h[N + 1] = b
        /\ \A p \in 1..N : h[p] = c.heap[p]
    BY <2>1, <2>5, <2>6, <2>7
  <2>10. /\ DOMAIN at = {name} \cup DOMAIN c.at /\ at[name] = N + 1
         /\ \A n \in DOMAIN c.at : n # name /\ at[n] = c.at[n]
    BY <1>2, <2>8
  <2>11. at \in PartialOf(Nat, Nat)
    <3>1. DOMAIN c.at \subseteq Nat /\ c.at \in [DOMAIN c.at -> Nat]
      BY <2>1, PartialIs
    <3>2. DOMAIN at \subseteq Nat /\ at \in [DOMAIN at -> Nat]
      BY <2>1, <2>8, <2>10, <3>1
    <3> QED BY <3>2, PartialIs
  <2>12. d = [c EXCEPT !.heap = h, !.at = at]
    BY <1>2, <2>1, <2>2, <2>4, <2>6, <2>7, <2>8 DEF Chatting!GetMemory, Chatting!NewMemory, ChatState
  <2>13. /\ d.heap = h /\ d.torn = c.torn /\ d.cut = c.cut /\ d.fresh = c.fresh /\ d.at = at
         /\ d.default = c.default /\ d.loaded = c.loaded /\ d.files = c.files /\ d.made = c.made
         /\ d.job = c.job /\ d.stuck = c.stuck
    BY <2>1, <2>12 DEF ChatState
  <2>14. d \in ChatState
    BY <2>1, <2>9, <2>11, <2>12 DEF ChatState
  <2>15. Clean(d) = Clean(c)
    BY <2>13 DEF Clean
  <2>16. \A p \in 1..(N + 1) : p = N + 1 \/ p \in 1..N
    OBVIOUS
  <2>17. N + 1 \notin c.cut /\ c.cut \subseteq 1..(N + 1)
    BY <2>6 DEF ChatInv, ChatTyped
  <2>18. ChatTyped(d)
    <3>1. \A n \in DOMAIN at : n \in 1..(Chats + c.fresh) /\ at[n] \in 1..(N + 1)
      BY <2>6, <2>10 DEF ChatInv, ChatTyped
    <3> QED BY <2>9, <2>13, <2>14, <2>17, <3>1 DEF ChatInv, ChatTyped
  <2>19. Buffers(d)
    <3>1. ASSUME NEW p \in 1..(N + 1)
          PROVE  /\ h[p].id \in 1..(Chats + c.fresh)
                 /\ IdsTo(h[p].msgs, c.made) /\ Apart(h[p].msgs)
                 /\ p \in c.cut \/ Follows(h[p].msgs)
      <4>1. CASE p = N + 1
        <5>1. IdsTo(none, c.made) /\ Apart(none) /\ Follows(none)
          BY <2>3 DEF IdsTo, Apart, Follows
        <5> QED BY <2>5, <2>9, <4>1, <5>1
      <4>2. CASE p \in 1..N
        BY <2>6, <2>9, <4>2 DEF ChatInv, Buffers
      <4> QED BY <2>16, <4>1, <4>2
    <3> QED BY <2>9, <2>13, <3>1 DEF Buffers
  <2>20. Requests(d)
    <3>1. ASSUME NEW t \in Tasks, c.job[t].at # "idle"
          PROVE  /\ c.job[t].memory \in 1..(N + 1)
                 /\ c.job[t].memory \in c.cut \/ HasId(h[c.job[t].memory].msgs, c.job[t].asks)
      <4>1. PICK p : p = c.job[t].memory
        OBVIOUS
      <4>2. p \in 1..N /\ (p \in c.cut \/ HasId(c.heap[p].msgs, c.job[t].asks))
        BY <2>6, <3>1, <4>1 DEF ChatInv, Requests
      <4>3. p \in 1..(N + 1) /\ h[p] = c.heap[p]
        BY <2>9, <4>2
      <4> QED BY <4>1, <4>2, <4>3
    <3> QED BY <2>9, <2>13, <3>1 DEF Requests
  <2>21. Named(d)
    <3>1. ASSUME NEW p \in 1..(N + 1), h[p].id \in Clean(c)
          PROVE  h[p].id \in DOMAIN at /\ at[h[p].id] = p /\ p \notin c.cut
      <4>1. CASE p = N + 1
        BY <2>5, <2>9, <2>10, <2>17, <4>1
      <4>2. CASE p \in 1..N
        BY <2>6, <2>9, <2>10, <3>1, <4>2 DEF ChatInv, Named
      <4> QED BY <2>16, <4>1, <4>2
    <3>2. ASSUME NEW n \in DOMAIN at
          PROVE  h[at[n]].id = n \/ h[at[n]].id \notin Clean(c)
      <4>1. CASE n = name
        BY <2>5, <2>9, <2>10, <4>1
      <4>2. CASE n \in DOMAIN c.at
        <5>1. at[n] = c.at[n] /\ c.at[n] \in 1..N
          BY <2>6, <2>10, <4>2 DEF ChatInv, ChatTyped
        <5> QED BY <2>9, <4>2, <5>1 DEF ChatInv, Named
      <4> QED BY <2>10, <4>1, <4>2
    <3>3. \A n \in Clean(c) : n \in c.loaded => n \in DOMAIN at
      BY <2>10 DEF ChatInv, Named
    <3> QED BY <2>9, <2>13, <2>15, <3>1, <3>2, <3>3 DEF Named
  <2>22. Mirrors(d)
    <3>1. ASSUME ~c.stuck, NEW p \in 1..(N + 1), h[p].id \in Clean(c)
          PROVE  InStep(d, p)
      <4>1. CASE p = N + 1
        <5>1. name \notin c.loaded
          BY <1>2, <2>5, <2>9, <3>1, <4>1 DEF ChatInv, Named
        <5> QED BY <2>3, <2>5, <2>9, <2>13, <4>1, <5>1 DEF InStep
      <4>2. CASE p \in 1..N
        <5>1. h[p] = c.heap[p] /\ InStep(c, p)
          BY <2>6, <2>9, <3>1, <4>2 DEF ChatInv, Mirrors
        <5> QED BY <2>13, <5>1 DEF InStep
      <4> QED BY <2>16, <4>1, <4>2
    <3> QED BY <2>9, <2>13, <2>15, <3>1 DEF ChatInv, Mirrors
  <2>23. ChatInv(d)
    BY <2>18, <2>19, <2>20, <2>21, <2>22 DEF ChatInv
  <2>24. name \in DOMAIN d.at /\ d.at[name] \in 1..Len(d.heap)
    BY <2>9, <2>10, <2>13
  <2> QED BY <2>13, <2>23, <2>24
<1> QED BY <1>1, <1>2

Written(files, name, s, m, new) ==
  /\ new \subseteq HubFile
  /\ \A f \in new : f \in files \/ (f.of = name /\ f.msg = m)
  /\ \A n : n # name => Of(new, n) = Of(files, n)
  /\ Of(files, name) = FilesOf(name, s) => Of(new, name) = FilesOf(name, Append(s, m))

LEMMA PutIs ==
  ASSUME NEW files, files \subseteq HubFile, NEW name \in Nat, NEW s \in Seq(ChatMsg), NEW m \in ChatMsg,
         NEW new, new = Chatting!Put(files, name, Len(s), m)
  PROVE  Written(files, name, s, m, new)
<1>1. PICK N \in Nat : N = Len(s)
  OBVIOUS
<1>2. PICK f : f = [of |-> name, at |-> N, msg |-> m]
  OBVIOUS
<1>3. f \in HubFile /\ f.of = name /\ f.at = N /\ f.msg = m
  BY <1>2 DEF HubFile
<1>4. new = {g \in files : ~(g.of = name /\ g.at = N)} \cup {f}
  BY <1>1, <1>2 DEF Chatting!Put
<1>5. new \subseteq HubFile /\ \A g \in new : g \in files \/ (g.of = name /\ g.msg = m)
  BY <1>3, <1>4
<1>6. \A n : n # name => Of(new, n) = Of(files, n)
  BY <1>3, <1>4 DEF Of
<1>7. ASSUME Of(files, name) = FilesOf(name, s)
      PROVE  Of(new, name) = FilesOf(name, Append(s, m))
  <2>1. \A g \in FilesOf(name, s) : g.at # N
    <3>1. ASSUME NEW g \in FilesOf(name, s), g.at = N
          PROVE  FALSE
      <4>1. PICK i \in 1..Len(s) : g = [of |-> name, at |-> i - 1, msg |-> s[i]]
        BY DEF FilesOf
      <4>2. i - 1 = N /\ i <= N
        BY <1>1, <3>1, <4>1
      <4> QED BY <4>2
    <3> QED BY <3>1
  <2>2. Of(new, name) = {g \in Of(files, name) : g.at # N} \cup {f}
    BY <1>3, <1>4 DEF Of
  <2>3. Of(new, name) = FilesOf(name, s) \cup {f}
    BY <1>7, <2>1, <2>2
  <2>4. PICK r : r = Append(s, m)
    OBVIOUS
  <2>5. FilesOf(name, r) = FilesOf(name, s) \cup {[of |-> name, at |-> Len(s), msg |-> m]}
    BY <2>4, FilesGrow
  <2>6. FilesOf(name, r) = FilesOf(name, s) \cup {f}
    BY <1>1, <1>2, <2>5
  <2> QED BY <2>3, <2>4, <2>6
<1> QED BY <1>5, <1>6, <1>7 DEF Written

(* A message is added to a memory, and what it answers is there. *)
LEMMA AddKeeps ==
  ASSUME NEW c, ChatInv(c), ~c.stuck, NEW o \in 1..Len(c.heap), NEW m \in ChatMsg, m.id \in 1..c.made,
         m.asks = 0 \/ HasId(c.heap[o].msgs, m.asks) \/ o \in c.cut, NEW way \in Chatting!Ways,
         NEW d, d = Chatting!Add(c, o, m, way)
  PROVE  /\ ChatInv(d) /\ HasId(d.heap[o].msgs, m.id) /\ Len(d.heap) = Len(c.heap)
         /\ d.job = c.job /\ d.made = c.made /\ d.cut = c.cut
<1>1. /\ c \in ChatState /\ c.heap \in Seq(Buffer) /\ c.files \subseteq HubFile /\ c.torn \subseteq Nat
      /\ c.faults \in Nat /\ c.heap[o] \in Buffer
  <2>1. c \in ChatState /\ c.heap \in Seq(Buffer) /\ c.files \subseteq HubFile /\ c.torn \subseteq Nat /\ c.faults \in Nat
    BY DEF ChatInv, ChatTyped, ChatState
  <2> QED BY <2>1
<1>2. PICK s, id : s = c.heap[o].msgs /\ id = c.heap[o].id
  OBVIOUS
<1>3. s \in Seq(ChatMsg) /\ id \in Nat
  BY <1>1, <1>2 DEF Buffer
<1>4. CASE HasId(s, m.id)
  <2>1. Chatting!Has(c, o, m)
    BY <1>2, <1>3, <1>4 DEF Chatting!Has, HasId
  <2>2. d = c
    BY <2>1 DEF Chatting!Add
  <2> QED BY <1>2, <1>4, <2>2
<1>5. CASE ~HasId(s, m.id)
  <2>1. PICK r : r = Append(s, m)
    OBVIOUS
  <2>2. PICK h : h = Holding(c.heap, o, r)
    OBVIOUS
  <2>3. PICK files : files = IF way \in {"done", "unanswered"} THEN Chatting!Put(c.files, id, Len(s), m) ELSE c.files
    OBVIOUS
  <2>4. PICK torn : torn = IF way \in Chatting!Ways /\ Chatting!Unread(c, id) THEN c.torn \cup {id} ELSE c.torn
    OBVIOUS
  <2>5. PICK stuck \in BOOLEAN : stuck <=> (way \in {"failed", "unanswered"})
    <3>1. (way \in {"failed", "unanswered"}) \in BOOLEAN
      OBVIOUS
    <3> QED BY <3>1
  <2>6. PICK n \in Nat : n = IF way \in {"failed", "unanswered"} THEN c.faults + 1 ELSE c.faults
    BY <1>1
  <2>7. (stuck <=> (c.stuck \/ way \in {"failed", "unanswered"})) /\ ~HasId(c.heap[o].msgs, m.id)
    BY <1>2, <1>5, <2>5
  <2>8. AddsTo(c, o, m, way, h, files, torn, stuck, n)
    BY <1>2, <2>1, <2>2, <2>3, <2>4, <2>5, <2>6, <2>7 DEF AddsTo
  <2>9. d = [c EXCEPT !.heap = h, !.files = files, !.torn = torn, !.stuck = stuck, !.faults = n]
    <3>1. c \in ChatState /\ ~HasId(c.heap[o].msgs, m.id)
      BY <1>1, <2>7
    <3>2. WithParts(Chatting!Add(c, o, m, way), c, h, files, torn, stuck, n)
      BY <2>8, <3>1, AddIs
    <3> QED BY <3>2 DEF WithParts
  <2>10. /\ Apart(s) /\ ~HasId(s, m.id) => Apart(r)
         /\ \A k \in Nat : IdsTo(s, k) /\ m.id \in 1..k => IdsTo(r, k)
         /\ \A q : HasId(r, q) <=> HasId(s, q) \/ q = m.id
         /\ Follows(s) /\ (m.asks = 0 \/ HasId(s, m.asks)) => Follows(r)
    BY <1>3, <2>1, ListGrows
  <2>11. r \in Seq(ChatMsg)
    BY <1>3, <2>1
  <2>12. /\ h \in Seq(Buffer) /\ Len(h) = Len(c.heap) /\ h[o].msgs = r /\ h[o].id = id
         /\ \A p \in 1..Len(c.heap) : h[p].id = c.heap[p].id
         /\ \A p \in 1..Len(c.heap) : p # o => h[p] = c.heap[p]
    <3>1. Held(c.heap, o, r, h)
      BY <1>1, <2>2, <2>11, HoldingIs
    <3> QED BY <1>2, <3>1 DEF Held
  <2>13. /\ files \subseteq HubFile
         /\ \A f \in files : f \in c.files \/ (f.of = id /\ f.msg = m)
         /\ \A k : k # id => Of(files, k) = Of(c.files, k)
         /\ Of(c.files, id) = FilesOf(id, s) => Of(files, id) = FilesOf(id, IF stuck /\ way = "failed" THEN s ELSE r)
    <3>1. PICK new : new = Chatting!Put(c.files, id, Len(s), m)
      OBVIOUS
    <3>2. /\ new \subseteq HubFile
          /\ \A f \in new : f \in c.files \/ (f.of = id /\ f.msg = m)
          /\ \A k : k # id => Of(new, k) = Of(c.files, k)
          /\ Of(c.files, id) = FilesOf(id, s) => Of(new, id) = FilesOf(id, r)
      <4>1. Written(c.files, id, s, m, new)
        BY <1>1, <1>3, <3>1, PutIs
      <4> QED BY <2>1, <4>1 DEF Written
    <3>3. CASE way \in {"done", "unanswered"}
      BY <2>3, <3>1, <3>2, <3>3
    <3>4. CASE way = "failed"
      BY <1>1, <2>3, <2>5, <3>4
    <3> QED BY <3>3, <3>4 DEF Chatting!Ways
  <2>14. c.torn \subseteq torn /\ torn \subseteq Nat
    BY <1>1, <1>3, <2>4
  <2>15. /\ d.heap = h /\ d.torn = torn /\ d.cut = c.cut /\ d.fresh = c.fresh /\ d.at = c.at
         /\ d.default = c.default /\ d.loaded = c.loaded /\ d.files = files /\ d.made = c.made
         /\ d.job = c.job /\ d.stuck = stuck
    BY <1>1, <2>9 DEF ChatState
  <2>16. d \in ChatState
    BY <1>1, <2>5, <2>6, <2>9, <2>12, <2>13, <2>14 DEF ChatState
  <2>17. Clean(d) \subseteq Clean(c)
    BY <2>14, <2>15 DEF Clean
  <2>18. c.made \in Nat /\ IdsTo(s, c.made) /\ Apart(s) /\ (o \in c.cut \/ Follows(s))
         /\ id \in 1..(Chats + c.fresh)
    BY <1>2 DEF ChatInv, ChatTyped, ChatState, Buffers
  <2>19. IdsTo(r, c.made) /\ Apart(r) /\ (o \in c.cut \/ Follows(r))
    <3>1. Apart(r)
      BY <1>5, <2>10, <2>11, <2>18
    <3>2. IdsTo(r, c.made)
      BY <2>10, <2>18
    <3>3. o \in c.cut \/ Follows(r)
      BY <1>2, <2>10, <2>18
    <3> QED BY <3>1, <3>2, <3>3
  <2>20. ChatTyped(d)
    BY <2>12, <2>13, <2>15, <2>16, <2>18 DEF ChatInv, ChatTyped
  <2>21. Buffers(d)
    <3>1. ASSUME NEW p \in 1..Len(h)
          PROVE  /\ h[p].id \in 1..(Chats + c.fresh)
                 /\ IdsTo(h[p].msgs, c.made) /\ Apart(h[p].msgs)
                 /\ p \in c.cut \/ Follows(h[p].msgs)
      <4>1. CASE p = o
        BY <2>12, <2>18, <2>19, <4>1
      <4>2. CASE p # o
        BY <2>12, <4>2 DEF ChatInv, Buffers
      <4> QED BY <4>1, <4>2
    <3> QED BY <2>15, <3>1 DEF Buffers
  <2>22. Requests(d)
    <3>1. ASSUME NEW t \in Tasks, c.job[t].at # "idle"
          PROVE  /\ c.job[t].memory \in 1..Len(h)
                 /\ c.job[t].memory \in c.cut \/ HasId(h[c.job[t].memory].msgs, c.job[t].asks)
      <4>1. PICK p, q : p = c.job[t].memory /\ q = c.job[t].asks
        OBVIOUS
      <4>2. p \in 1..Len(c.heap) /\ (p \in c.cut \/ HasId(c.heap[p].msgs, q))
        BY <3>1, <4>1 DEF ChatInv, Requests
      <4>3. HasId(s, q) => HasId(r, q)
        BY <2>10
      <4>4. p \in c.cut \/ HasId(h[p].msgs, q)
        BY <1>2, <2>12, <4>2, <4>3
      <4> QED BY <2>12, <4>1, <4>2, <4>4
    <3> QED BY <2>15, <3>1 DEF Requests
  <2>23. Named(d)
    <3>1. \A p \in 1..Len(h) : h[p].id \in Clean(d) =>
            h[p].id \in DOMAIN c.at /\ c.at[h[p].id] = p /\ p \notin c.cut
      BY <2>12, <2>17 DEF ChatInv, Named
    <3>2. \A k \in DOMAIN c.at : h[c.at[k]].id = k \/ h[c.at[k]].id \notin Clean(d)
      BY <2>12, <2>17 DEF ChatInv, ChatTyped, Named
    <3>3. \A k \in Clean(d) : k \in c.loaded => k \in DOMAIN c.at
      BY <2>17 DEF ChatInv, Named
    <3> QED BY <2>15, <3>1, <3>2, <3>3 DEF Named
  <2>24. Mirrors(d)
    <3>1. ASSUME id \in Clean(d)
          PROVE  o \notin c.cut /\ Of(c.files, id) = FilesOf(id, s)
      <4>1. id \in Clean(c)
        BY <2>17, <3>1
      <4>2. o \notin c.cut /\ InStep(c, o)
        BY <1>2, <4>1 DEF ChatInv, Named, Mirrors
      <4>3. CASE id \notin c.loaded /\ Len(s) = 0
        <5>1. ~Chatting!Unread(c, id)
          BY <2>4, <2>15, <3>1 DEF Clean
        <5>2. Of(c.files, id) = {}
          BY <4>3, <5>1 DEF Chatting!Unread, Of
        <5>3. FilesOf(id, s) = {}
          BY <4>3 DEF FilesOf
        <5> QED BY <4>2, <5>2, <5>3
      <4> QED BY <1>2, <4>2, <4>3 DEF InStep
    <3>2. ASSUME NEW k \in Clean(d)
          PROVE  Kept(files, k, c.made)
      <4>1. CASE k = id
        <5>1. Apart(s) /\ Follows(s) /\ IdsTo(s, c.made) /\ Apart(r) /\ Follows(r) /\ IdsTo(r, c.made)
          BY <2>18, <2>19, <3>1, <3>2, <4>1
        <5>2. PICK u : u = IF stuck /\ way = "failed" THEN s ELSE r
          OBVIOUS
        <5>3. u \in Seq(ChatMsg) /\ Apart(u) /\ Follows(u) /\ IdsTo(u, c.made)
          BY <1>3, <2>11, <5>1, <5>2
        <5>4. Of(files, id) = FilesOf(id, u)
          BY <2>13, <3>1, <3>2, <4>1, <5>2
        <5> QED BY <4>1, <5>3, <5>4 DEF Kept
      <4>2. CASE k # id
        <5>1. Kept(c.files, k, c.made) /\ Of(files, k) = Of(c.files, k)
          BY <2>13, <2>17, <3>2, <4>2 DEF ChatInv, Mirrors
        <5> QED BY <5>1 DEF Kept
      <4> QED BY <4>1, <4>2
    <3>3. ASSUME ~stuck, NEW p \in 1..Len(h), h[p].id \in Clean(d)
          PROVE  InStep(d, p)
      <4>1. CASE p = o
        BY <2>12, <2>13, <2>15, <3>1, <3>3, <4>1 DEF InStep
      <4>2. CASE p # o
        <5>1. /\ h[p] = c.heap[p] /\ InStep(c, p) /\ c.heap[p].id \in Clean(c)
          BY <2>12, <2>17, <3>3, <4>2 DEF ChatInv, Mirrors
        <5>2. h[p].id # id
          BY <1>2, <2>12, <4>2, <5>1 DEF ChatInv, Named
        <5> QED BY <2>13, <2>15, <5>1, <5>2 DEF InStep
      <4> QED BY <4>1, <4>2
    <3> QED BY <2>15, <3>2, <3>3 DEF Mirrors
  <2>25. ChatInv(d)
    BY <2>20, <2>21, <2>22, <2>23, <2>24 DEF ChatInv
  <2> QED BY <2>10, <2>12, <2>15, <2>25
<1> QED BY <1>2, <1>4, <1>5

(* A batch of messages. *)
Turn(a, m, o, way) ==
  IF a.raised \/ a.c.stuck \/ m.id = 0 THEN [c |-> a.c, raised |-> TRUE]
  ELSE [c |-> Chatting!Add(a.c, o, m, way), raised |-> FALSE]

Batching(after, c, o, s, way) ==
  /\ after[0] = [c |-> c, raised |-> FALSE]
  /\ \A n \in 1..Len(s) : after[n] = Turn(after[n - 1], s[n], o, way)

LEMMA AddTyped ==
  ASSUME NEW c \in ChatState, NEW o \in 1..Len(c.heap), NEW m \in ChatMsg, NEW way
  PROVE  Chatting!Add(c, o, m, way) \in ChatState /\ Len(Chatting!Add(c, o, m, way).heap) = Len(c.heap)
<1>1. /\ c.heap \in Seq(Buffer) /\ c.files \subseteq HubFile /\ c.torn \subseteq Nat
      /\ c.faults \in Nat /\ c.stuck \in BOOLEAN
  BY DEF ChatState
<1>2. PICK s, id : s = c.heap[o].msgs /\ id = c.heap[o].id
  OBVIOUS
<1>3. s \in Seq(ChatMsg) /\ id \in Nat
  <2>1. c.heap[o] \in Buffer
    BY <1>1
  <2> QED BY <1>2, <2>1 DEF Buffer
<1>4. CASE HasId(s, m.id)
  BY <1>2, <1>3, <1>4 DEF Chatting!Add, Chatting!Has, HasId
<1>5. CASE ~HasId(s, m.id)
  <2>1. PICK h, files, torn, stuck, n : AddsTo(c, o, m, way, h, files, torn, stuck, n)
    <3>1. (c.stuck \/ way \in {"failed", "unanswered"}) \in BOOLEAN
      OBVIOUS
    <3>2. PICK stuck \in BOOLEAN : stuck <=> (c.stuck \/ way \in {"failed", "unanswered"})
      BY <3>1
    <3> QED BY <3>2 DEF AddsTo
  <2>2. h = Holding(c.heap, o, Append(s, m)) /\ stuck \in BOOLEAN
    BY <1>2, <2>1 DEF AddsTo
  <2>3. PICK r : r = Append(s, m)
    OBVIOUS
  <2>4. Held(c.heap, o, r, h)
    <3>1. r \in Seq(ChatMsg)
      BY <1>3, <2>3
    <3> QED BY <1>1, <2>2, <2>3, <3>1, HoldingIs
  <2>5. files \subseteq HubFile
    <3>1. PICK new : new = Chatting!Put(c.files, id, Len(s), m)
      OBVIOUS
    <3>2. Written(c.files, id, s, m, new)
      BY <1>1, <1>3, <3>1, PutIs
    <3>3. files = IF way \in {"done", "unanswered"} THEN new ELSE c.files
      BY <1>2, <2>1, <3>1 DEF AddsTo
    <3> QED BY <1>1, <3>2, <3>3 DEF Written
  <2>6. torn \subseteq Nat /\ n \in Nat
    BY <1>1, <1>2, <1>3, <2>1 DEF AddsTo
  <2>7. ~HasId(c.heap[o].msgs, m.id)
    BY <1>2, <1>5
  <2>8. WithParts(Chatting!Add(c, o, m, way), c, h, files, torn, stuck, n)
    BY <2>1, <2>7, AddIs
  <2> QED BY <2>2, <2>4, <2>5, <2>6, <2>8 DEF WithParts, Held, ChatState
<1> QED BY <1>4, <1>5

LEMMA BatchLoop ==
  ASSUME NEW c \in ChatState, NEW o \in 1..Len(c.heap), NEW s \in Seq(ChatMsg), NEW way
  PROVE  \E after : Batching(after, c, o, s, way) /\ Chatting!AddBatch(c, o, s, way) = after[Len(s)].c
<1> DEFINE S == {a \in [c : ChatState, raised : BOOLEAN] : Len(a.c.heap) = Len(c.heap)}
           Made(g) == g = [n \in 0..Len(s) |->
                             IF n = 0 THEN [c |-> c, raised |-> FALSE] ELSE Turn(g[n - 1], s[n], o, way)]
<1>1. PICK base : base = [c |-> c, raised |-> FALSE]
  OBVIOUS
<1>2. base \in S /\ Len(s) \in Nat
  BY <1>1
<1>3. PICK step : step = [n \in 1..Len(s) |-> [a \in S |-> Turn(a, s[n], o, way)]]
  OBVIOUS
<1>4. ASSUME NEW n \in 1..Len(s), NEW a \in S
      PROVE  Turn(a, s[n], o, way) \in S
  <2>1. PICK m \in ChatMsg : m = s[n]
    OBVIOUS
  <2>2. PICK e : e = a.c
    OBVIOUS
  <2>3. e \in ChatState /\ Len(e.heap) = Len(c.heap)
    BY <2>2
  <2>4. Chatting!Add(e, o, m, way) \in ChatState /\ Len(Chatting!Add(e, o, m, way).heap) = Len(c.heap)
    BY <2>3, AddTyped
  <2>5. PICK b : b = Turn(a, m, o, way)
    OBVIOUS
  <2>6. \/ b = [c |-> e, raised |-> TRUE]
        \/ b = [c |-> Chatting!Add(e, o, m, way), raised |-> FALSE]
    BY <2>2, <2>5 DEF Turn
  <2>7. b \in S
    <3>1. PICK x \in ChatState, raised \in BOOLEAN : b = [c |-> x, raised |-> raised] /\ Len(x.heap) = Len(c.heap)
      BY <2>3, <2>4, <2>6
    <3>2. b \in [c : ChatState, raised : BOOLEAN] /\ b.c = x
      BY <3>1
    <3> QED BY <3>1, <3>2
  <2> QED BY <2>1, <2>5, <2>7
<1> HIDE DEF S
<1>5. step \in [1..Len(s) -> [S -> S]]
  BY <1>3, <1>4
<1>6. PICK acc : Loop(acc, S, base, Len(s), step)
  BY <1>2, <1>5, Recursion
<1>7. /\ acc \in [0..Len(s) -> S]
      /\ \A n \in 0..Len(s) : acc[n] = IF n = 0 THEN base ELSE step[n][acc[n - 1]]
  BY <1>6 DEF Loop
<1>8. ASSUME NEW n \in 1..Len(s)
      PROVE  acc[n] = Turn(acc[n - 1], s[n], o, way)
  <2>1. n \in 0..Len(s) /\ n # 0 /\ n - 1 \in 0..Len(s)
    BY <1>2
  <2>2. acc[n] = step[n][acc[n - 1]] /\ acc[n - 1] \in S
    BY <1>7, <2>1
  <2> QED BY <1>3, <2>2
<1>9. Made(acc)
  <2>1. PICK g : g = [n \in 0..Len(s) |-> IF n = 0 THEN base ELSE Turn(acc[n - 1], s[n], o, way)]
    OBVIOUS
  <2>2. ASSUME NEW n \in 0..Len(s)
        PROVE  g[n] = acc[n]
    <3>1. CASE n = 0
      BY <1>7, <2>1, <3>1
    <3>2. CASE n # 0
      <4>1. n \in 1..Len(s)
        BY <1>2, <3>2
      <4>2. acc[n] = Turn(acc[n - 1], s[n], o, way)
        BY <1>8, <4>1
      <4> QED BY <2>1, <3>2, <4>2
    <3> QED BY <3>1, <3>2
  <2>3. g = acc
    BY <1>7, <2>1, <2>2
  <2>4. acc = [n \in 0..Len(s) |-> IF n = 0 THEN [c |-> c, raised |-> FALSE] ELSE Turn(acc[n - 1], s[n], o, way)]
    BY <1>1, <2>1, <2>3
  <2> QED BY <2>4
<1>10. PICK after : after = CHOOSE g : Made(g)
  OBVIOUS
<1>11. Made(after)
  <2> HIDE DEF Made
  <2> QED BY <1>9, <1>10
<1>12. Chatting!AddBatch(c, o, s, way) = after[Len(s)].c
  BY <1>10 DEF Chatting!AddBatch, Turn
<1>13. \A n \in 0..Len(s) : after[n] = IF n = 0 THEN [c |-> c, raised |-> FALSE] ELSE Turn(after[n - 1], s[n], o, way)
  BY <1>11
<1> HIDE DEF Made
<1>14. after[0] = base
  <2>1. 0 \in 0..Len(s)
    BY <1>2
  <2> QED BY <1>1, <1>13, <2>1
<1>15. \A n \in 1..Len(s) : after[n] = Turn(after[n - 1], s[n], o, way)
  <2>1. \A n \in 1..Len(s) : n \in 0..Len(s) /\ n # 0
    BY <1>2
  <2> QED BY <1>13, <2>1
<1>16. Batching(after, c, o, s, way)
  BY <1>1, <1>14, <1>15 DEF Batching
<1> QED BY <1>12, <1>16

(* The state with other messages in one memory. *)
Outcome(c, o, r) == [c |-> [c EXCEPT !.heap = Holding(c.heap, o, r)], raised |-> FALSE]

LEMMA OutcomeIs ==
  ASSUME NEW c \in ChatState, NEW o \in 1..Len(c.heap), NEW r \in Seq(ChatMsg), NEW e, e = Outcome(c, o, r).c
  PROVE  /\ e \in ChatState /\ e.heap = Holding(c.heap, o, r) /\ Len(e.heap) = Len(c.heap)
         /\ e.heap[o].msgs = r /\ e.heap[o].id = c.heap[o].id
         /\ e.files = c.files /\ e.torn = c.torn /\ e.stuck = c.stuck /\ e.faults = c.faults
         /\ e.loaded = c.loaded /\ e.at = c.at
<1>1. c.heap \in Seq(Buffer)
  BY DEF ChatState
<1>2. PICK h : h = Holding(c.heap, o, r)
  OBVIOUS
<1>3. Held(c.heap, o, r, h)
  BY <1>1, <1>2, HoldingIs
<1>4. e = [c EXCEPT !.heap = h]
  BY <1>2 DEF Outcome
<1> QED BY <1>2, <1>3, <1>4 DEF Held, ChatState

LEMMA HoldsAgain ==
  ASSUME NEW heap \in Seq(Buffer), NEW o \in 1..Len(heap), NEW r \in Seq(ChatMsg), NEW q \in Seq(ChatMsg)
  PROVE  Holding(Holding(heap, o, r), o, q) = Holding(heap, o, q)
<1>1. PICK h : h = Holding(heap, o, r)
  OBVIOUS
<1>2. Held(heap, o, r, h)
  BY <1>1, HoldingIs
<1>3. h[o].id = heap[o].id
  BY <1>2 DEF Held
<1>4. PICK b : b = [id |-> heap[o].id, msgs |-> q]
  OBVIOUS
<1>5. Holding(h, o, q) = [h EXCEPT ![o] = b] /\ Holding(heap, o, q) = [heap EXCEPT ![o] = b]
  BY <1>3, <1>4 DEF Holding
<1>6. h = [heap EXCEPT ![o] = [id |-> heap[o].id, msgs |-> r]]
  BY <1>1 DEF Holding
<1>7. [h EXCEPT ![o] = b] = [heap EXCEPT ![o] = b]
  BY <1>6
<1> QED BY <1>1, <1>5, <1>7

Joining(r, m) == IF HasId(r, m.id) THEN r ELSE Append(r, m)

(* One turn of a batch that uploads nothing. *)
LEMMA QuietTurn ==
  ASSUME NEW c \in ChatState, ~c.stuck, NEW o \in 1..Len(c.heap), NEW r \in Seq(ChatMsg),
         NEW m \in ChatMsg, m.id # 0
  PROVE  Turn(Outcome(c, o, r), m, o, "none") = Outcome(c, o, Joining(r, m))
<1>0. PICK q : q = Joining(r, m)
  OBVIOUS
<1>1. PICK e : e = Outcome(c, o, r).c
  OBVIOUS
<1>2. /\ e \in ChatState /\ e.heap = Holding(c.heap, o, r) /\ Len(e.heap) = Len(c.heap)
      /\ e.heap[o].msgs = r /\ e.files = c.files /\ e.torn = c.torn /\ ~e.stuck /\ e.faults = c.faults
  BY <1>1, OutcomeIs
<1>3. Turn(Outcome(c, o, r), m, o, "none") = [c |-> Chatting!Add(e, o, m, "none"), raised |-> FALSE]
  BY <1>1, <1>2 DEF Turn, Outcome
<1>4. CASE HasId(r, m.id)
  <2>1. Chatting!Has(e, o, m)
    BY <1>2, <1>4 DEF Chatting!Has, HasId
  <2>2. Chatting!Add(e, o, m, "none") = e
    BY <2>1 DEF Chatting!Add
  <2>3. q = r
    BY <1>0, <1>4 DEF Joining
  <2> QED BY <1>0, <1>1, <1>3, <2>2, <2>3 DEF Outcome
<1>5. CASE ~HasId(r, m.id)
  <2>1. q = Append(r, m) /\ q \in Seq(ChatMsg)
    BY <1>0, <1>5 DEF Joining
  <2>2. PICK h : h = Holding(c.heap, o, q)
    OBVIOUS
  <2>3. c.heap \in Seq(Buffer)
    BY DEF ChatState
  <2>4. Holding(e.heap, o, q) = h
    <3>1. Holding(Holding(c.heap, o, r), o, q) = Holding(c.heap, o, q)
      BY <2>1, <2>3, HoldsAgain
    <3> QED BY <1>2, <2>2, <3>1
  <2>5. PICK f \in BOOLEAN : ~f
    OBVIOUS
  <2>6. "none" \notin {"failed", "unanswered"} /\ "none" \notin {"done", "unanswered"} /\ "none" \notin Chatting!Ways
    BY DEF Chatting!Ways
  <2>7. AddsTo(e, o, m, "none", h, c.files, c.torn, f, c.faults)
    BY <1>2, <2>1, <2>4, <2>5, <2>6 DEF AddsTo
  <2>8. o \in 1..Len(e.heap) /\ ~HasId(e.heap[o].msgs, m.id)
    BY <1>2, <1>5
  <2>9. WithParts(Chatting!Add(e, o, m, "none"), e, h, c.files, c.torn, f, c.faults)
    BY <1>2, <2>7, <2>8, AddIs
  <2>10. e = [c EXCEPT !.heap = Holding(c.heap, o, r)]
    BY <1>1 DEF Outcome
  <2>11. f = c.stuck
    <3>1. c.stuck \in BOOLEAN
      BY DEF ChatState
    <3> QED BY <2>5, <3>1
  <2>12. [e EXCEPT !.heap = h, !.files = c.files, !.torn = c.torn, !.stuck = f, !.faults = c.faults]
           = [c EXCEPT !.heap = h]
    BY <2>10, <2>11 DEF ChatState
  <2> QED BY <1>0, <1>3, <2>2, <2>9, <2>12 DEF WithParts, Outcome
<1> QED BY <1>4, <1>5

LEMMA JoinsAll ==
  ASSUME NEW c \in ChatState, ~c.stuck, NEW o \in 1..Len(c.heap), NEW s \in Seq(ChatMsg),
         \A i \in 1..Len(s) : s[i].id # 0
  PROVE  \E r : /\ Joined(c.heap[o].msgs, s, r, Len(s))
                /\ Chatting!AddBatch(c, o, s, "none") = Outcome(c, o, r).c
<1>1. PICK after : Batching(after, c, o, s, "none") /\ Chatting!AddBatch(c, o, s, "none") = after[Len(s)].c
  BY BatchLoop
<1>2. PICK p : p = c.heap[o].msgs
  OBVIOUS
<1>3. p \in Seq(ChatMsg) /\ Len(s) \in Nat /\ c.heap \in Seq(Buffer)
  <2>1. c.heap \in Seq(Buffer)
    BY DEF ChatState
  <2>2. c.heap[o] \in Buffer
    BY <2>1
  <2> QED BY <1>2, <2>1, <2>2 DEF Buffer
<1> DEFINE T == {k \in 0..Len(s) : \E r : Joined(p, s, r, k) /\ after[k] = Outcome(c, o, r)}
<1>4. 0 \in T
  <2>1. Joined(p, s, p, 0)
    BY <1>3 DEF Joined
  <2>2. Holding(c.heap, o, p) = c.heap
    <3>1. PICK b : b = c.heap[o]
      OBVIOUS
    <3>2. b \in Buffer
      BY <1>3, <3>1
    <3>3. [id |-> b.id, msgs |-> b.msgs] = b
      BY <3>2 DEF Buffer
    <3>4. [c.heap EXCEPT ![o] = b] = c.heap
      BY <1>3, <3>1
    <3> QED BY <1>2, <3>1, <3>3, <3>4 DEF Holding
  <2>3. Outcome(c, o, p) = [c |-> c, raised |-> FALSE]
    BY <2>2 DEF Outcome, ChatState
  <2>4. after[0] = Outcome(c, o, p)
    BY <1>1, <2>3 DEF Batching
  <2>5. 0 \in 0..Len(s)
    BY <1>3
  <2> QED BY <2>1, <2>4, <2>5
<1>5. ASSUME NEW k \in 0..Len(s), k \in T, k < Len(s)
      PROVE  k + 1 \in T
  <2>1. PICK r : Joined(p, s, r, k) /\ after[k] = Outcome(c, o, r)
    BY <1>5
  <2>2. k + 1 \in 1..Len(s) /\ k + 1 \in 0..Len(s) /\ (k + 1) - 1 = k /\ k \in Nat
    BY <1>3, <1>5
  <2>3. PICK m : m = s[k + 1]
    OBVIOUS
  <2>4. m \in ChatMsg /\ m.id # 0
    BY <2>2, <2>3
  <2>5. PICK q : q = Joining(r, m)
    OBVIOUS
  <2>6. Joined(p, s, q, k + 1)
    BY <1>3, <1>5, <2>1, <2>2, <2>3, <2>5, JoinsOne DEF Joining
  <2>7. r \in Seq(ChatMsg)
    BY <2>1 DEF Joined
  <2>8. Turn(Outcome(c, o, r), m, o, "none") = Outcome(c, o, q)
    BY <2>4, <2>5, <2>7, QuietTurn
  <2>9. after[k + 1] = Turn(after[(k + 1) - 1], s[k + 1], o, "none")
    BY <1>1, <2>2 DEF Batching
  <2>10. after[k + 1] = Outcome(c, o, q)
    BY <2>1, <2>2, <2>3, <2>8, <2>9
  <2> QED BY <2>2, <2>6, <2>10
<1>6. Len(s) \in T
  <2> HIDE DEF T
  <2>1. 0..Len(s) \subseteq T
    BY <1>3, <1>4, <1>5, Steps
  <2>2. Len(s) \in 0..Len(s)
    BY <1>3
  <2> QED BY <2>1, <2>2
<1> QED BY <1>1, <1>2, <1>6

(* What the hub has of a conversation. *)
Stored(c, name, found) ==
  /\ found \in Seq(ChatMsg) /\ IdsTo(found, c.made) /\ \A i \in 1..Len(found) : found[i].id # 0
  /\ name \in Clean(c) => /\ Apart(found) /\ Follows(found)
                          /\ Of(c.files, name) = FilesOf(name, found)
  /\ \A s \in Seq(ChatMsg) :
       Apart(s) /\ IdsTo(s, c.made) /\ Of(c.files, name) = FilesOf(name, s) => found = s

LEMMA FoundFine ==
  ASSUME NEW c, ChatInv(c), NEW name, NEW found, found = Chatting!Found(c.files, name)
  PROVE  Stored(c, name, found)
<1>1. /\ c.files \subseteq HubFile /\ MaxMessages \in Nat /\ c.made \in Nat /\ c.made <= MaxMessages
      /\ \A f \in c.files : f.msg.id \in 1..c.made
  BY ConversationsAssumption DEF ChatInv, ChatTyped, ChatState
<1>2. /\ found \in Seq(ChatMsg)
      /\ \A i \in 1..Len(found) : \E f \in c.files : found[i] = f.msg
      /\ \A s \in Seq(ChatMsg) :
           Len(s) <= MaxMessages /\ Of(c.files, name) = FilesOf(name, s) => found = s
  <2>1. /\ Chatting!Found(c.files, name) \in Seq(ChatMsg)
        /\ \A i \in 1..Len(Chatting!Found(c.files, name)) :
             \E f \in c.files : Chatting!Found(c.files, name)[i] = f.msg
        /\ \A s \in Seq(ChatMsg) :
             Len(s) <= MaxMessages /\ Of(c.files, name) = FilesOf(name, s) => Chatting!Found(c.files, name) = s
    BY <1>1, FoundIs
  <2> QED BY <2>1
<1>3. \A i \in 1..Len(found) : found[i].id \in 1..c.made
  BY <1>1, <1>2
<1>4. IdsTo(found, c.made) /\ \A i \in 1..Len(found) : found[i].id # 0
  BY <1>1, <1>3 DEF IdsTo
<1>5. ASSUME NEW s \in Seq(ChatMsg), Apart(s), IdsTo(s, c.made), Of(c.files, name) = FilesOf(name, s)
      PROVE  found = s
  <2>1. Len(s) <= c.made
    BY <1>1, <1>5, ApartIsShort
  <2>2. Len(s) <= MaxMessages
    BY <1>1, <2>1
  <2> QED BY <1>2, <1>5, <2>2
<1>6. ASSUME name \in Clean(c)
      PROVE  Apart(found) /\ Follows(found) /\ Of(c.files, name) = FilesOf(name, found)
  <2>1. Kept(c.files, name, c.made)
    BY <1>6 DEF ChatInv, Mirrors
  <2>2. PICK s \in Seq(ChatMsg) :
          Apart(s) /\ Follows(s) /\ IdsTo(s, c.made) /\ Of(c.files, name) = FilesOf(name, s)
    BY <2>1 DEF Kept
  <2>3. found = s
    BY <1>5, <2>2
  <2> QED BY <2>2, <2>3
<1> QED BY <1>2, <1>4, <1>5, <1>6 DEF Stored

LEMMA MarkedFirst ==
  ASSUME NEW c, ChatInv(c), NEW name \in 1..Chats, NEW e, e = Chatting!GetMemory(c, name)
  PROVE  Chatting!GetMemory([c EXCEPT !.loaded = c.loaded \cup {name}], name)
           = [e EXCEPT !.loaded = e.loaded \cup {name}]
<1>1. c \in ChatState
  BY DEF ChatInv, ChatTyped
<1>2. CASE name \in DOMAIN c.at
  BY <1>1, <1>2 DEF Chatting!GetMemory, ChatState
<1>3. CASE name \notin DOMAIN c.at
  <2>1. PICK h, at : /\ h = Append(c.heap, Chatting!NewMemory(name))
                     /\ at = [n \in {name} \cup DOMAIN c.at |->
                                IF n = name THEN Len(c.heap) + 1 ELSE c.at[n]]
    OBVIOUS
  <2>2. e = [c EXCEPT !.heap = h, !.at = at]
    BY <1>1, <1>3, <2>1 DEF Chatting!GetMemory, ChatState
  <2>3. PICK g : g = [c EXCEPT !.loaded = c.loaded \cup {name}]
    OBVIOUS
  <2>4. g.heap = c.heap /\ g.at = c.at
    BY <1>1, <2>3 DEF ChatState
  <2>5. Chatting!GetMemory(g, name) = [g EXCEPT !.heap = h, !.at = at]
    BY <1>1, <1>3, <2>1, <2>3, <2>4 DEF Chatting!GetMemory, ChatState
  <2>6. [g EXCEPT !.heap = h, !.at = at] = [e EXCEPT !.loaded = e.loaded \cup {name}]
    BY <1>1, <2>2, <2>3 DEF ChatState
  <2> QED BY <2>3, <2>5, <2>6
<1> QED BY <1>2, <1>3

(* A memory after what the hub has was joined to it. *)
MayJoin(e, name, o, found, r, T, C) ==
  /\ name \in 1..Chats /\ name \in DOMAIN e.at /\ o = e.at[name] /\ Stored(e, name, found)
  /\ Joined(e.heap[o].msgs, found, r, Len(found))
  /\ T \subseteq Nat /\ e.torn \subseteq T
  /\ C = IF name \in e.torn THEN e.cut \cup {o} ELSE e.cut

WithJoined(d, e, name, o, r, T, C) ==
  d = [e EXCEPT !.heap = Holding(e.heap, o, r), !.torn = T, !.cut = C, !.loaded = e.loaded \cup {name}]

LEMMA JoinKeeps ==
  ASSUME NEW e, ChatInv(e), ~e.stuck, NEW name, NEW o, NEW found, NEW r, NEW T, NEW C,
         MayJoin(e, name, o, found, r, T, C), NEW d, WithJoined(d, e, name, o, r, T, C)
  PROVE  ChatInv(d)
<1> USE DEF MayJoin, WithJoined
<1>1. /\ e \in ChatState /\ e.heap \in Seq(Buffer) /\ e.fresh \in Nat /\ e.faults \in Nat
      /\ e.made \in Nat /\ o \in 1..Len(e.heap) /\ e.fresh <= MaxFresh
  BY DEF ChatInv, ChatTyped, ChatState
<1>2. PICK p, id : p = e.heap[o].msgs /\ id = e.heap[o].id
  OBVIOUS
<1>3. p \in Seq(ChatMsg) /\ id \in Nat
  <2>1. e.heap[o] \in Buffer
    BY <1>1
  <2> QED BY <1>2, <2>1 DEF Buffer
<1>4. /\ found \in Seq(ChatMsg) /\ IdsTo(found, e.made)
      /\ name \in Clean(e) => Apart(found) /\ Follows(found) /\ Of(e.files, name) = FilesOf(name, found)
      /\ \A s \in Seq(ChatMsg) :
           Apart(s) /\ IdsTo(s, e.made) /\ Of(e.files, name) = FilesOf(name, s) => found = s
  BY DEF Stored
<1>5. IdsTo(p, e.made) /\ Apart(p) /\ (o \in e.cut \/ Follows(p)) /\ id \in 1..(Chats + e.fresh)
  BY <1>1, <1>2 DEF ChatInv, Buffers
<1>6. /\ r \in Seq(ChatMsg) /\ Apart(r) /\ IdsTo(r, e.made)
      /\ Follows(p) /\ Follows(found) => Follows(r)
  BY <1>1, <1>2, <1>4, <1>5 DEF Joined
<1>7. \A q : HasId(p, q) => HasId(r, q)
  <2>1. Len(p) <= Len(r) /\ \A i \in 1..Len(p) : r[i] = p[i]
    BY <1>2 DEF Joined
  <2>2. \A i \in 1..Len(p) : i \in 1..Len(r)
    BY <1>3, <1>6, <2>1
  <2> QED BY <2>1, <2>2 DEF HasId
<1>8. PICK b : b = [id |-> id, msgs |-> r]
  OBVIOUS
<1>9. b \in Buffer /\ b.id = id /\ b.msgs = r
  BY <1>3, <1>6, <1>8 DEF Buffer
<1>10. o \in C \/ Follows(r)
  BY <1>4, <1>5, <1>6 DEF Clean
<1>11. ASSUME id \in (1..Chats) \ T
       PROVE  id = name /\ o \notin C /\ Of(e.files, id) = FilesOf(id, r)
  <2>1. id \in Clean(e)
    BY <1>11 DEF Clean
  <2>2. o \notin e.cut /\ InStep(e, o)
    BY <1>1, <1>2, <2>1 DEF ChatInv, Named, Mirrors
  <2>3. id = name
    BY <1>2, <2>1 DEF ChatInv, Named
  <2>4. o \notin C
    BY <2>1, <2>2, <2>3 DEF Clean
  <2>5. CASE Of(e.files, name) = FilesOf(name, p)
    <3>1. found = p
      BY <1>3, <1>4, <1>5, <2>5
    <3>2. \A i \in 1..Len(found) : HasId(p, found[i].id)
      BY <3>1 DEF HasId
    <3>3. r = p
      BY <1>2, <3>2 DEF Joined
    <3> QED BY <2>3, <2>4, <2>5, <3>3
  <2>6. CASE Len(p) = 0
    <3>1. Apart(found) /\ Of(e.files, name) = FilesOf(name, found)
      BY <1>4, <2>1, <2>3
    <3>2. Len(r) = Len(found) /\ \A i \in 1..Len(found) : r[i] = found[i]
      BY <1>2, <2>6, <3>1 DEF Joined
    <3>3. r = found
      BY <1>4, <1>6, <3>2
    <3> QED BY <2>3, <2>4, <3>1, <3>3
  <2> QED BY <1>2, <2>2, <2>3, <2>5, <2>6 DEF InStep
<1>12. PICK h : h = [e.heap EXCEPT ![o] = b]
  OBVIOUS
<1>13. h = Holding(e.heap, o, r)
  BY <1>2, <1>8, <1>12 DEF Holding
<1>14. PICK a : WithMemory(a, e, o, b, T, C, e.fresh, e.faults)
  BY DEF WithMemory
<1>15. ChatInv(a)
  <2>1. C = e.cut \/ C = e.cut \cup {o}
    OBVIOUS
  <2>2. b.id \in 1..(Chats + e.fresh) /\ IdsTo(b.msgs, e.made) /\ Apart(b.msgs) /\ (o \in C \/ Follows(b.msgs))
    BY <1>5, <1>6, <1>9, <1>10
  <2>3. o \in C \/ \A q : HasId(e.heap[o].msgs, q) => HasId(b.msgs, q)
    BY <1>2, <1>7, <1>9
  <2>4. b.id \in (1..Chats) \ T =>
          b.id = e.heap[o].id /\ o \notin C /\ Of(e.files, b.id) = FilesOf(b.id, b.msgs)
    BY <1>2, <1>9, <1>11
  <2>5. e.fresh <= e.fresh
    BY <1>1
  <2>6. MayReplace(e, o, b, T, C, e.fresh)
    BY <1>1, <1>9, <2>1, <2>2, <2>3, <2>4, <2>5 DEF MayReplace
  <2> QED BY <1>1, <1>14, <2>6, Replaced
<1>16. /\ a.heap = h /\ a.torn = T /\ a.at = e.at /\ a.files = e.files /\ a.loaded = e.loaded
  BY <1>1, <1>12, <1>14 DEF ChatState, WithMemory
<1>17. h[o] = b
  BY <1>1, <1>12
<1>18. \/ name \notin Clean(a)
       \/ a.heap[a.at[name]].id # name
       \/ a.stuck
       \/ Of(a.files, name) = FilesOf(name, a.heap[a.at[name]].msgs)
  BY <1>9, <1>11, <1>16, <1>17 DEF Clean
<1>19. d = [a EXCEPT !.loaded = a.loaded \cup {name}]
  BY <1>1, <1>12, <1>13, <1>14 DEF ChatState, WithMemory
<1> QED BY <1>15, <1>16, <1>18, <1>19, LoadedGrows

LEMMA LoadFromHubKeeps ==
  ASSUME NEW c, ChatInv(c), ~c.stuck, NEW name \in 1..Chats, NEW answered \in BOOLEAN,
         NEW d, d = Chatting!LoadFromHub(c, name, answered)
  PROVE  /\ ChatInv(d) /\ d.made = c.made /\ d.job = c.job /\ ~d.stuck
         /\ \A n \in DOMAIN c.at : n \in DOMAIN d.at
<1>1. CASE name \in c.loaded
  BY <1>1 DEF Chatting!LoadFromHub
<1>2. CASE name \notin c.loaded
  <2>1. PICK e : e = Chatting!GetMemory(c, name)
    OBVIOUS
  <2>2. name \in 1..(Chats + c.fresh)
    BY ConversationsAssumption DEF ChatInv, ChatTyped, ChatState
  <2>3. /\ ChatInv(e) /\ name \in DOMAIN e.at /\ e.at[name] \in 1..Len(e.heap)
        /\ e.made = c.made /\ e.stuck = c.stuck /\ e.job = c.job
    BY <2>1, <2>2, GetMemoryKeeps
  <2>4. /\ e \in ChatState /\ e.torn \subseteq Nat /\ e.faults \in Nat /\ e.loaded \subseteq Nat /\ name \in Nat
    BY <2>3 DEF ChatInv, ChatTyped, ChatState
  <2>5. PICK g : g = [e EXCEPT !.loaded = e.loaded \cup {name}]
    OBVIOUS
  <2>6. /\ g.heap = e.heap /\ g.torn = e.torn /\ g.cut = e.cut /\ g.at = e.at /\ g.files = e.files
        /\ g.made = e.made /\ g.job = e.job /\ g.stuck = e.stuck /\ g.faults = e.faults
    BY <2>4, <2>5 DEF ChatState
  <2>7. g \in ChatState
    BY <2>4, <2>5 DEF ChatState
  <2>8. Chatting!GetMemory([c EXCEPT !.loaded = c.loaded \cup {name}], name) = g
    BY <2>1, <2>5, MarkedFirst
  <2>9. PICK o : o = e.at[name]
    OBVIOUS
  <2>10. PICK found : found = Chatting!Found(e.files, name)
    OBVIOUS
  <2>11. /\ found \in Seq(ChatMsg) /\ \A i \in 1..Len(found) : found[i].id # 0
         /\ name \in Clean(e) => Of(e.files, name) = FilesOf(name, found)
         /\ \A s \in Seq(ChatMsg) :
              Apart(s) /\ IdsTo(s, e.made) /\ Of(e.files, name) = FilesOf(name, s) => found = s
    <3>1. Stored(e, name, found)
      BY <2>3, <2>10, FoundFine
    <3> QED BY <3>1 DEF Stored
  <2>12. \A n \in DOMAIN c.at : n \in DOMAIN e.at
    BY <2>1 DEF Chatting!GetMemory
  <2>13. CASE ~answered
    <3>1. PICK T : T = IF found = <<>> THEN e.torn ELSE e.torn \cup {name}
      OBVIOUS
    <3>2. d = [g EXCEPT !.torn = T, !.faults = g.faults + 1]
      BY <1>2, <2>6, <2>7, <2>8, <2>10, <2>13, <3>1 DEF Chatting!LoadFromHub, ChatState
    <3>3. PICK n \in Nat : n = e.faults + 1
      BY <2>4
    <3>4. PICK a : a = [e EXCEPT !.torn = T, !.faults = n]
      OBVIOUS
    <3>5. T \in SUBSET Nat /\ e.torn \subseteq T
      BY <2>4, <3>1
    <3>6. ChatInv(a)
      BY <2>3, <3>4, <3>5, TornGrows
    <3>7. a.heap = e.heap /\ a.at = e.at /\ a.files = e.files /\ a.torn = T /\ a.loaded = e.loaded
      BY <2>4, <3>4 DEF ChatState
    <3>8. ASSUME name \in Clean(a), e.heap[o].id = name
          PROVE  Of(e.files, name) = FilesOf(name, e.heap[o].msgs)
      <4>1. found = <<>> /\ name \in Clean(e)
        BY <3>1, <3>7, <3>8 DEF Clean
      <4>2. Of(e.files, name) = FilesOf(name, found) /\ Len(found) = 0
        BY <2>11, <4>1
      <4>3. InStep(e, o)
        BY <2>3, <2>9, <3>8, <4>1 DEF ChatInv, Mirrors
      <4>4. CASE Len(e.heap[o].msgs) = 0
        BY <4>2, <4>4 DEF FilesOf
      <4> QED BY <3>8, <4>3, <4>4 DEF InStep
    <3>9. \/ name \notin Clean(a)
          \/ a.heap[a.at[name]].id # name
          \/ a.stuck
          \/ Of(a.files, name) = FilesOf(name, a.heap[a.at[name]].msgs)
      BY <2>9, <3>7, <3>8
    <3>10. d = [a EXCEPT !.loaded = a.loaded \cup {name}]
      BY <2>4, <2>5, <2>6, <3>2, <3>3, <3>4, <3>7 DEF ChatState
    <3>11. ChatInv(d)
      BY <2>3, <3>6, <3>7, <3>9, <3>10, LoadedGrows
    <3>12. d.made = c.made /\ d.job = c.job /\ d.stuck = c.stuck /\ d.at = e.at
      BY <2>3, <2>6, <2>7, <3>2 DEF ChatState
    <3> QED BY <2>12, <3>11, <3>12
  <2>14. CASE answered
    <3>1. ~g.stuck /\ o \in 1..Len(g.heap)
      BY <2>3, <2>6, <2>9
    <3>2. PICK r : /\ Joined(g.heap[o].msgs, found, r, Len(found))
                   /\ Chatting!AddBatch(g, o, found, "none") = Outcome(g, o, r).c
      BY <2>7, <2>11, <3>1, JoinsAll
    <3>3. PICK h : h = Holding(e.heap, o, r)
      OBVIOUS
    <3>4. Chatting!AddBatch(g, o, found, "none") = [g EXCEPT !.heap = h]
      BY <2>6, <3>2, <3>3 DEF Outcome
    <3>5. PICK T : T = IF \/ g.heap[o].msgs = <<>>
                          \/ ~(\A i \in DOMAIN found : ~Chatting!Has(g, o, found[i]))
                       THEN e.torn ELSE e.torn \cup {name}
      OBVIOUS
    <3>6. PICK C : C = IF name \in e.torn THEN e.cut \cup {o} ELSE e.cut
      OBVIOUS
    <3>7. [g EXCEPT !.heap = h].torn = e.torn /\ [g EXCEPT !.heap = h].cut = e.cut
      BY <2>6, <2>7 DEF ChatState
    <3>8. d = [[g EXCEPT !.heap = h] EXCEPT !.torn = T, !.cut = C]
      BY <1>2, <2>6, <2>8, <2>9, <2>10, <2>14, <3>4, <3>5, <3>6, <3>7 DEF Chatting!LoadFromHub
    <3>9. d = [e EXCEPT !.heap = h, !.torn = T, !.cut = C, !.loaded = e.loaded \cup {name}]
      BY <2>4, <2>5, <3>8 DEF ChatState
    <3>10. T \in SUBSET Nat /\ e.torn \subseteq T
      BY <2>4, <3>5
    <3>11. Joined(e.heap[o].msgs, found, r, Len(found)) /\ ~e.stuck
      BY <2>3, <2>6, <3>2
    <3>12. ChatInv(d)
      <4>1. Stored(e, name, found)
        BY <2>3, <2>10, FoundFine
      <4>2. MayJoin(e, name, o, found, r, T, C)
        BY <2>3, <2>9, <3>6, <3>10, <3>11, <4>1 DEF MayJoin
      <4>3. WithJoined(d, e, name, o, r, T, C)
        BY <3>3, <3>9 DEF WithJoined
      <4> QED BY <2>3, <3>11, <4>2, <4>3, JoinKeeps
    <3>13. d.made = c.made /\ d.job = c.job /\ d.stuck = c.stuck /\ d.at = e.at
      BY <2>3, <2>4, <3>9 DEF ChatState
    <3> QED BY <2>12, <3>12, <3>13
  <2> QED BY <2>13, <2>14
<1> QED BY <1>1, <1>2

(* A question or a note is stored. *)
Noted(d, o, k) == ChatInv(d) /\ o \in 1..Len(d.heap) /\ HasId(d.heap[o].msgs, k) /\ k \in Nat

LEMMA NoteKeeps ==
  ASSUME NEW c, ChatInv(c), ~c.stuck, c.made + 1 <= MaxMessages, NEW o \in 1..Len(c.heap),
         NEW q, q = 0 \/ HasId(c.heap[o].msgs, q) \/ o \in c.cut, q \in Nat,
         NEW way \in Chatting!Ways, NEW d,
         d = Chatting!Add([c EXCEPT !.made = c.made + 1], o, Chatting!Message(c.made + 1, q), way)
  PROVE  Noted(d, o, c.made + 1)
<1>1. PICK e : e = [c EXCEPT !.made = c.made + 1]
  OBVIOUS
<1>2. PICK k \in Nat : k = c.made
  BY DEF ChatInv, ChatTyped, ChatState
<1>3. c \in ChatState
  BY DEF ChatInv, ChatTyped
<1>4. ChatInv(e)
  BY <1>1, MadeGrows
<1>5. /\ e.made = k + 1 /\ e.heap = c.heap /\ e.stuck = c.stuck /\ e.cut = c.cut /\ e.job = c.job
  BY <1>1, <1>2, <1>3 DEF ChatState
<1>6. PICK m : m = Chatting!Message(k + 1, q)
  OBVIOUS
<1>7. m \in ChatMsg /\ m.id = k + 1 /\ m.asks = q
  BY <1>6 DEF Chatting!Message, ChatMsg
<1>8. m.id \in 1..e.made
  BY <1>5, <1>7
<1>9. d = Chatting!Add(e, o, m, way)
  BY <1>1, <1>2, <1>6
<1>10. m.asks = 0 \/ HasId(e.heap[o].msgs, m.asks) \/ o \in e.cut
  BY <1>5, <1>7
<1>11. o \in 1..Len(e.heap) /\ ~e.stuck
  BY <1>5
<1>12. ChatInv(d) /\ HasId(d.heap[o].msgs, m.id) /\ Len(d.heap) = Len(e.heap) /\ d.job = e.job
  BY <1>4, <1>7, <1>8, <1>9, <1>10, <1>11, AddKeeps
<1> QED BY <1>2, <1>5, <1>7, <1>12 DEF Noted

LEMMA LastIn ==
  ASSUME NEW s \in Seq(ChatMsg), NEW n \in Nat
  PROVE  Chatting!LastOf(s, n) \in Seq(ChatMsg)
<1>1. CASE n = 0 \/ n >= Len(s)
  BY <1>1 DEF Chatting!LastOf
<1>2. CASE ~(n = 0 \/ n >= Len(s))
  <2>1. PICK a \in Int, b \in Nat : a = Len(s) - n + 1 /\ b = Len(s)
    OBVIOUS
  <2>2. \A i \in a..b : i \in 1..Len(s)
    BY <1>2, <2>1
  <2>3. SubSeq(s, a, b) \in Seq(ChatMsg)
    BY <2>1, <2>2
  <2> QED BY <1>2, <2>1, <2>3 DEF Chatting!LastOf
<1> QED BY <1>1, <1>2

LEMMA QueryKeeps ==
  ASSUME ChatInv(service), ~service.stuck, NEW t \in Tasks, NEW to \in {"model", "agent"},
         Chatting!Query(t, to)
  PROVE  ChatInv(service')
<1>1. service.made + 2 <= MaxMessages /\ service.made \in Nat /\ MaxMessages \in Nat
  BY ConversationsAssumption DEF Chatting!Query, Chatting!Room, ChatInv, ChatTyped, ChatState
<1>2. PICK name \in 1..Chats, default \in BOOLEAN, answered \in BOOLEAN, way \in Chatting!Ways :
        LET c == IF default THEN Chatting!GetMemory(service, service.default)
                 ELSE Chatting!MemoryFor(name, answered)
            o == c.at[IF default THEN service.default ELSE name]
            m == Chatting!Message(c.made + 1, 0) IN
        service' = [Chatting!Add([c EXCEPT !.made = @ + 1], o, m, way) EXCEPT
                      !.job[t] = [at |-> to, memory |-> o, asks |-> m.id,
                                  seen |-> IF to = "model" THEN Chatting!LastOf(c.heap[o].msgs, Recent)
                                           ELSE <<>>]]
  BY DEF Chatting!Query
<1>3. PICK key, c : /\ key = IF default THEN service.default ELSE name
                    /\ c = IF default THEN Chatting!GetMemory(service, service.default)
                           ELSE Chatting!MemoryFor(name, answered)
  OBVIOUS
<1>4. ChatInv(c) /\ ~c.stuck /\ c.made = service.made /\ key \in DOMAIN c.at
  <2>1. CASE default
    <3>1. service.default \in 1..(Chats + service.fresh)
      BY DEF ChatInv, ChatTyped
    <3>2. c = Chatting!GetMemory(service, service.default) /\ key = service.default
      BY <1>3, <2>1
    <3> QED BY <3>1, <3>2, GetMemoryKeeps
  <2>2. CASE ~default
    <3>1. PICK e : e = Chatting!GetMemory(service, name)
      OBVIOUS
    <3>2. name \in 1..(Chats + service.fresh)
      BY ConversationsAssumption DEF ChatInv, ChatTyped, ChatState
    <3>3. ChatInv(e) /\ name \in DOMAIN e.at /\ e.made = service.made /\ e.stuck = service.stuck
      BY <3>1, <3>2, GetMemoryKeeps
    <3>4. c = Chatting!LoadFromHub(e, name, answered) /\ key = name
      BY <1>3, <2>2, <3>1 DEF Chatting!MemoryFor
    <3> QED BY <3>3, <3>4, LoadFromHubKeeps
  <2> QED BY <2>1, <2>2
<1>5. PICK o : o = c.at[key]
  OBVIOUS
<1>6. o \in 1..Len(c.heap) /\ c.heap \in Seq(Buffer)
  BY <1>4, <1>5 DEF ChatInv, ChatTyped, ChatState
<1>7. PICK d : d = Chatting!Add([c EXCEPT !.made = c.made + 1], o, Chatting!Message(c.made + 1, 0), way)
  OBVIOUS
<1>8. /\ ChatInv(d) /\ o \in 1..Len(d.heap) /\ HasId(d.heap[o].msgs, c.made + 1)
      /\ c.made + 1 \in Nat
  <2>1. c.made + 1 <= MaxMessages
    BY <1>1, <1>4
  <2>2. PICK q \in Nat : q = 0
    OBVIOUS
  <2>3. d = Chatting!Add([c EXCEPT !.made = c.made + 1], o, Chatting!Message(c.made + 1, q), way)
    BY <1>7, <2>2
  <2>4. Noted(d, o, c.made + 1)
    BY <1>4, <1>6, <2>1, <2>2, <2>3, NoteKeeps
  <2> QED BY <2>4 DEF Noted
<1>9. PICK seen : seen = IF to = "model" THEN Chatting!LastOf(c.heap[o].msgs, Recent) ELSE <<>>
  OBVIOUS
<1>10. seen \in Seq(ChatMsg)
  <2>1. c.heap[o] \in Buffer
    BY <1>6
  <2>2. c.heap[o].msgs \in Seq(ChatMsg)
    BY <2>1 DEF Buffer
  <2>3. Chatting!LastOf(c.heap[o].msgs, Recent) \in Seq(ChatMsg)
    BY <2>2, LastIn, ConversationsAssumption
  <2> QED BY <1>9, <2>3
<1>11. PICK k \in Nat : k = c.made + 1
  BY <1>8
<1>12. PICK j : j = [at |-> to, memory |-> o, asks |-> k, seen |-> seen]
  OBVIOUS
<1>13. j \in ChatJob /\ j.memory = o /\ j.asks = k
  BY <1>6, <1>10, <1>12 DEF ChatJob
<1>14. Chatting!Message(k, 0).id = k
  BY DEF Chatting!Message
<1>15. service' = [d EXCEPT !.job[t] = j]
  BY <1>2, <1>3, <1>5, <1>7, <1>9, <1>11, <1>12, <1>14
<1> QED BY <1>8, <1>11, <1>13, <1>15, JobIs

(* A note goes to the memory of the default conversation. *)
LEMMA NotedInDefault ==
  ASSUME ChatInv(service), ~service.stuck, service.made + 1 <= MaxMessages,
         NEW way \in Chatting!Ways, NEW c, c = Chatting!GetMemory(service, service.default),
         NEW o, o = c.at[service.default], NEW d,
         d = Chatting!Add([c EXCEPT !.made = c.made + 1], o, Chatting!Message(c.made + 1, 0), way)
  PROVE  Noted(d, o, c.made + 1)
<1>1. service.default \in 1..(Chats + service.fresh)
  BY DEF ChatInv, ChatTyped
<1>2. ChatInv(c) /\ ~c.stuck /\ c.made = service.made /\ service.default \in DOMAIN c.at
  BY <1>1, GetMemoryKeeps
<1>3. o \in 1..Len(c.heap) /\ c.made + 1 <= MaxMessages
  BY <1>2 DEF ChatInv, ChatTyped
<1>4. PICK q \in Nat : q = 0
  OBVIOUS
<1>5. d = Chatting!Add([c EXCEPT !.made = c.made + 1], o, Chatting!Message(c.made + 1, q), way)
  BY <1>4
<1> QED BY <1>2, <1>3, <1>4, <1>5, NoteKeeps

LEMMA NobodyKeeps ==
  ASSUME ChatInv(service), ~service.stuck, NEW t \in Tasks, Chatting!AskNobody(t)
  PROVE  ChatInv(service')
<1>1. PICK way \in Chatting!Ways :
        LET c == Chatting!GetMemory(service, service.default) IN
        service' = Chatting!Add([c EXCEPT !.made = @ + 1], c.at[service.default],
                                Chatting!Message(c.made + 1, 0), way)
  BY DEF Chatting!AskNobody
<1>2. PICK c, o : c = Chatting!GetMemory(service, service.default) /\ o = c.at[service.default]
  OBVIOUS
<1>3. service' = Chatting!Add([c EXCEPT !.made = c.made + 1], o, Chatting!Message(c.made + 1, 0), way)
  BY <1>1, <1>2
<1>4. service.made + 1 <= MaxMessages
  BY DEF Chatting!AskNobody, Chatting!Room
<1>5. Noted(service', o, c.made + 1)
  BY <1>2, <1>3, <1>4, NotedInDefault
<1> QED BY <1>5 DEF Noted

LEMMA HandlerKeeps ==
  ASSUME ChatInv(service), ~service.stuck, NEW t \in Tasks, Chatting!HandleMessage(t)
  PROVE  ChatInv(service')
<1>1. PICK way \in Chatting!Ways :
        LET c == Chatting!GetMemory(service, service.default)
            o == c.at[service.default]
            m == Chatting!Message(c.made + 1, 0) IN
        service' = [Chatting!Add([c EXCEPT !.made = @ + 1], o, m, way) EXCEPT
                      !.job[t] = [Chatting!Idle EXCEPT !.at = "handler", !.memory = o, !.asks = m.id]]
  BY DEF Chatting!HandleMessage
<1>2. PICK c, o : c = Chatting!GetMemory(service, service.default) /\ o = c.at[service.default]
  OBVIOUS
<1>3. PICK d : d = Chatting!Add([c EXCEPT !.made = c.made + 1], o, Chatting!Message(c.made + 1, 0), way)
  OBVIOUS
<1>4. service.made + 1 <= MaxMessages
  BY ConversationsAssumption DEF Chatting!HandleMessage, Chatting!Room, ChatInv, ChatTyped, ChatState
<1>5. ChatInv(d) /\ o \in 1..Len(d.heap) /\ HasId(d.heap[o].msgs, c.made + 1) /\ c.made + 1 \in Nat
  <2>1. Noted(d, o, c.made + 1)
    BY <1>2, <1>3, <1>4, NotedInDefault
  <2> QED BY <2>1 DEF Noted
<1>6. PICK k \in Nat : k = c.made + 1
  BY <1>5
<1>7. PICK none : none = <<>>
  OBVIOUS
<1>8. PICK j : j = [at |-> "handler", memory |-> o, asks |-> k, seen |-> none]
  OBVIOUS
<1>9. j \in ChatJob /\ j.memory = o /\ j.asks = k
  <2>1. none \in Seq(ChatMsg) /\ o \in Nat
    BY <1>5, <1>7
  <2> QED BY <1>8, <2>1 DEF ChatJob
<1>10. [Chatting!Idle EXCEPT !.at = "handler", !.memory = o, !.asks = Chatting!Message(c.made + 1, 0).id] = j
  <2>1. Chatting!Message(c.made + 1, 0).id = k
    BY <1>6 DEF Chatting!Message
  <2>2. PICK i : i = [at |-> "idle", memory |-> 0, asks |-> 0, seen |-> none]
    OBVIOUS
  <2>3. Chatting!Idle = i
    BY <1>7, <2>2 DEF Chatting!Idle
  <2>4. [i EXCEPT !.at = "handler", !.memory = o, !.asks = k] = j
    <3>1. i \in ChatJob /\ i.seen = none
      BY <1>7, <2>2 DEF ChatJob
    <3>2. PICK e : e = [i EXCEPT !.at = "handler", !.memory = o, !.asks = k]
      OBVIOUS
    <3>3. e.at = "handler" /\ e.memory = o /\ e.asks = k /\ e.seen = none
      BY <3>1, <3>2 DEF ChatJob
    <3>4. e = [at |-> e.at, memory |-> e.memory, asks |-> e.asks, seen |-> e.seen]
      BY <3>1, <3>2 DEF ChatJob
    <3> QED BY <1>8, <3>2, <3>3, <3>4
  <2> QED BY <2>1, <2>3, <2>4
<1>11. service' = [d EXCEPT !.job[t] = j]
  BY <1>1, <1>2, <1>3, <1>10
<1> QED BY <1>5, <1>6, <1>9, <1>11, JobIs

LEMMA ToIdleKeeps ==
  ASSUME NEW c, ChatInv(c), NEW t \in Tasks, NEW d, d = [c EXCEPT !.job[t] = Chatting!Idle]
  PROVE  ChatInv(d)
<1>1. PICK j : j = Chatting!Idle
  OBVIOUS
<1>2. j \in ChatJob /\ j.at = "idle"
  BY <1>1 DEF Chatting!Idle, ChatJob
<1>3. d = [c EXCEPT !.job[t] = j]
  BY <1>1
<1> QED BY <1>2, <1>3, JobIs

LEMMA AnswerKeeps ==
  ASSUME ChatInv(service), ~service.stuck, NEW t \in Tasks, Chatting!Answer(t) \/ Chatting!Fails(t)
  PROVE  ChatInv(service')
<1>1. CASE Chatting!Fails(t)
  BY <1>1, ToIdleKeeps DEF Chatting!Fails
<1>2. CASE Chatting!Answer(t)
  <2>1. PICK way \in Chatting!Ways : service' = Chatting!Answered(t, way)
    BY <1>2 DEF Chatting!Answer
  <2>2. service.job[t].at # "idle" /\ service.made + 1 <= MaxMessages
    BY <1>2 DEF Chatting!Answer, Chatting!Room
  <2>3. PICK o, q : o = service.job[t].memory /\ q = service.job[t].asks
    OBVIOUS
  <2>4. o \in 1..Len(service.heap) /\ (o \in service.cut \/ HasId(service.heap[o].msgs, q))
    BY <2>2, <2>3 DEF ChatInv, Requests
  <2>5. q \in Nat
    BY <2>3 DEF ChatInv, ChatTyped, ChatState, ChatJob
  <2>6. PICK d : d = Chatting!Add([service EXCEPT !.made = service.made + 1], o,
                                  Chatting!Message(service.made + 1, q), way)
    OBVIOUS
  <2>7. ChatInv(d)
    <3>1. Noted(d, o, service.made + 1)
      BY <2>2, <2>4, <2>5, <2>6, NoteKeeps
    <3> QED BY <3>1 DEF Noted
  <2>8. service' = [d EXCEPT !.job[t] = Chatting!Idle]
    BY <2>1, <2>3, <2>6 DEF Chatting!Answered, Chatting!AnswerInto
  <2> QED BY <2>7, <2>8, ToIdleKeeps
<1> QED BY <1>1, <1>2

(* A list of messages, of which one was there before. *)
TurnOk(c, o, m) == m \in ChatMsg /\ m.id <= c.made /\ (m.asks = 0 \/ o \in c.cut)

LEMMA TurnKeeps ==
  ASSUME NEW a, ChatInv(a.c), NEW o \in 1..Len(a.c.heap), NEW m, TurnOk(a.c, o, m),
         NEW way \in Chatting!Ways, NEW b, b = Turn(a, m, o, way)
  PROVE  /\ ChatInv(b.c) /\ o \in 1..Len(b.c.heap) /\ b.c.made = a.c.made /\ b.c.cut = a.c.cut
<1>1. CASE a.raised \/ a.c.stuck \/ m.id = 0
  BY <1>1 DEF Turn
<1>2. CASE ~(a.raised \/ a.c.stuck \/ m.id = 0)
  <2>1. PICK c : c = a.c
    OBVIOUS
  <2>2. PICK d : d = Chatting!Add(c, o, m, way)
    OBVIOUS
  <2>3. b.c = d
    BY <1>2, <2>1, <2>2 DEF Turn
  <2>4. m \in ChatMsg /\ m.id \in 1..c.made /\ (m.asks = 0 \/ o \in c.cut)
    <3>1. m \in ChatMsg /\ m.id <= c.made /\ (m.asks = 0 \/ o \in c.cut)
      BY <2>1 DEF TurnOk
    <3>2. m.id \in Nat /\ c.made \in Nat
      BY <2>1, <3>1 DEF ChatMsg, ChatInv, ChatTyped, ChatState
    <3> QED BY <1>2, <3>1, <3>2
  <2>5. ChatInv(c) /\ ~c.stuck /\ o \in 1..Len(c.heap)
    BY <1>2, <2>1
  <2>6. m.asks = 0 \/ HasId(c.heap[o].msgs, m.asks) \/ o \in c.cut
    BY <2>4
  <2>7. ChatInv(d) /\ Len(d.heap) = Len(c.heap) /\ d.made = c.made /\ d.cut = c.cut
    BY <2>2, <2>4, <2>5, <2>6, AddKeeps
  <2> QED BY <2>1, <2>3, <2>5, <2>7
<1> QED BY <1>1, <1>2

LEMMA PairKeeps ==
  ASSUME NEW c, ChatInv(c), NEW o \in 1..Len(c.heap), NEW m, NEW n, TurnOk(c, o, m), TurnOk(c, o, n),
         NEW way \in Chatting!Ways
  PROVE  ChatInv(Chatting!AddBatch(c, o, <<m, n>>, way))
<1>1. PICK s : s = <<m, n>>
  OBVIOUS
<1>2. s \in Seq(ChatMsg) /\ Len(s) = 2 /\ s[1] = m /\ s[2] = n
  BY <1>1 DEF TurnOk
<1>3. c \in ChatState
  BY DEF ChatInv, ChatTyped
<1>4. PICK after : Batching(after, c, o, s, way) /\ Chatting!AddBatch(c, o, s, way) = after[Len(s)].c
  BY <1>2, <1>3, BatchLoop
<1>5. after[0] = [c |-> c, raised |-> FALSE]
  BY <1>4 DEF Batching
<1>6. after[1] = Turn(after[0], m, o, way) /\ after[2] = Turn(after[1], n, o, way)
  <2>1. 1 \in 1..Len(s) /\ 2 \in 1..Len(s) /\ 1 - 1 = 0 /\ 2 - 1 = 1
    BY <1>2
  <2>2. after[1] = Turn(after[1 - 1], s[1], o, way) /\ after[2] = Turn(after[2 - 1], s[2], o, way)
    BY <1>4, <2>1 DEF Batching
  <2> QED BY <1>2, <2>1, <2>2
<1>7. PICK x, y, z : x = after[0] /\ y = after[1] /\ z = after[2]
  OBVIOUS
<1>8. x.c = c
  BY <1>5, <1>7
<1>9. y = Turn(x, m, o, way) /\ z = Turn(y, n, o, way)
  BY <1>6, <1>7
<1>10. ChatInv(y.c) /\ o \in 1..Len(y.c.heap) /\ y.c.made = c.made /\ y.c.cut = c.cut
  <2>1. ChatInv(x.c) /\ o \in 1..Len(x.c.heap) /\ TurnOk(x.c, o, m)
    BY <1>8
  <2>2. ChatInv(y.c) /\ o \in 1..Len(y.c.heap) /\ y.c.made = x.c.made /\ y.c.cut = x.c.cut
    BY <1>9, <2>1, TurnKeeps
  <2> QED BY <1>8, <2>2
<1>11. TurnOk(y.c, o, n)
  BY <1>10 DEF TurnOk
<1>12. ChatInv(z.c)
  BY <1>9, <1>10, <1>11, TurnKeeps
<1> QED BY <1>1, <1>2, <1>4, <1>7, <1>12

LEMMA ListKeeps ==
  ASSUME ChatInv(service), ~service.stuck, Chatting!AddList
  PROVE  ChatInv(service')
<1>1. PICK name \in 1..Chats, way \in Chatting!Ways, before \in BOOLEAN, after \in {"same", "other"} :
        LET c == [Chatting!GetMemory(service, name) EXCEPT !.made = @ + 1]
            o == c.at[name]
            m == Chatting!Message(c.made, 0)
            odd == IF after = "same" /\ c.heap[o].msgs # <<>> THEN Head(c.heap[o].msgs)
                   ELSE Chatting!Message(0, 0) IN
        service' = Chatting!AddBatch(c, o, IF before THEN <<odd, m>> ELSE <<m, odd>>, way)
  BY DEF Chatting!AddList
<1>2. PICK e : e = Chatting!GetMemory(service, name)
  OBVIOUS
<1>3. name \in 1..(Chats + service.fresh)
  BY ConversationsAssumption DEF ChatInv, ChatTyped, ChatState
<1>4. ChatInv(e) /\ name \in DOMAIN e.at /\ e.made = service.made
  BY <1>2, <1>3, GetMemoryKeeps
<1>5. PICK c : c = [e EXCEPT !.made = e.made + 1]
  OBVIOUS
<1>6. ChatInv(c) /\ c.made \in Nat /\ c.at = e.at /\ c.made >= 1
  <2>1. service.made + 1 <= MaxMessages
    BY DEF Chatting!AddList, Chatting!Room
  <2>2. ChatInv(c)
    BY <1>4, <1>5, <2>1, MadeGrows
  <2>3. e \in ChatState
    BY <1>4 DEF ChatInv, ChatTyped
  <2>4. PICK k \in Nat : k = e.made
    BY <2>3 DEF ChatState
  <2>5. c.made = k + 1 /\ c.at = e.at
    BY <1>5, <2>3, <2>4 DEF ChatState
  <2> QED BY <2>2, <2>5
<1>7. PICK o : o = c.at[name]
  OBVIOUS
<1>8. o \in 1..Len(c.heap) /\ c.heap \in Seq(Buffer)
  BY <1>4, <1>6, <1>7 DEF ChatInv, ChatTyped, ChatState
<1>9. PICK m, odd : /\ m = Chatting!Message(c.made, 0)
                    /\ odd = IF after = "same" /\ c.heap[o].msgs # <<>> THEN Head(c.heap[o].msgs)
                             ELSE Chatting!Message(0, 0)
  OBVIOUS
<1>10. TurnOk(c, o, m)
  BY <1>6, <1>9 DEF TurnOk, Chatting!Message, ChatMsg
<1>11. TurnOk(c, o, odd)
  <2>1. CASE odd = Chatting!Message(0, 0)
    BY <1>6, <2>1 DEF TurnOk, Chatting!Message, ChatMsg
  <2>2. CASE c.heap[o].msgs # <<>> /\ odd = Head(c.heap[o].msgs)
    <3>1. PICK s : s = c.heap[o].msgs
      OBVIOUS
    <3>2. s \in Seq(ChatMsg)
      <4>1. c.heap[o] \in Buffer
        BY <1>8
      <4> QED BY <3>1, <4>1 DEF Buffer
    <3>3. 1 \in 1..Len(s) /\ odd = s[1] /\ odd \in ChatMsg
      BY <2>2, <3>1, <3>2
    <3>4. IdsTo(s, c.made) /\ (o \in c.cut \/ Follows(s))
      BY <1>6, <1>8, <3>1 DEF ChatInv, Buffers
    <3>5. odd.id <= c.made
      BY <1>6, <3>3, <3>4 DEF IdsTo
    <3>6. Follows(s) => odd.asks = 0
      <4>1. 1..(1 - 1) = {}
        OBVIOUS
      <4> QED BY <3>3, <4>1 DEF Follows
    <3> QED BY <3>3, <3>4, <3>5, <3>6 DEF TurnOk
  <2> QED BY <1>9, <2>1, <2>2
<1>12. \/ service' = Chatting!AddBatch(c, o, <<odd, m>>, way)
       \/ service' = Chatting!AddBatch(c, o, <<m, odd>>, way)
  <2>1. service' = Chatting!AddBatch(c, o, IF before THEN <<odd, m>> ELSE <<m, odd>>, way)
    BY <1>1, <1>2, <1>5, <1>7, <1>9
  <2>2. CASE before
    BY <2>1, <2>2
  <2>3. CASE ~before
    BY <2>1, <2>3
  <2> QED BY <2>2, <2>3
<1> QED BY <1>6, <1>8, <1>10, <1>11, <1>12, PairKeeps

(* The rest of the interface. *)
Picked(s, r, g) ==
  /\ s \in Seq(ChatMsg) /\ r \in Seq(ChatMsg) /\ g \in [1..Len(r) -> 1..Len(s)]
  /\ \A j, k \in 1..Len(r) : g[j] = g[k] => j = k
  /\ \A j \in 1..Len(r) : r[j] = s[g[j]]

LEMMA PartOf ==
  ASSUME NEW s, NEW r, NEW g, Picked(s, r, g)
  PROVE  (Apart(s) => Apart(r)) /\ \A k : IdsTo(s, k) => IdsTo(r, k)
<1>1. \A j \in 1..Len(r) : g[j] \in 1..Len(s) /\ r[j] = s[g[j]]
  BY DEF Picked
<1>2. ASSUME Apart(s), NEW j \in 1..Len(r), NEW k \in 1..Len(r), r[j].id = r[k].id
      PROVE  j = k
  <2>1. g[j] = g[k]
    BY <1>1, <1>2 DEF Apart
  <2> QED BY <2>1 DEF Picked
<1>3. \A k : IdsTo(s, k) => IdsTo(r, k)
  BY <1>1 DEF IdsTo
<1> QED BY <1>2, <1>3 DEF Apart

Rest(s, r) == r \in Seq(ChatMsg) /\ (Apart(s) => Apart(r)) /\ \A k : IdsTo(s, k) => IdsTo(r, k)

LEMMA RestIs ==
  ASSUME NEW s \in Seq(ChatMsg), NEW i \in 0..1, Len(s) > 0, NEW r,
         r = SubSeq(s, 1, i) \o SubSeq(s, i + 2, Len(s))
  PROVE  Rest(s, r)
<1>1. PICK N \in Nat : N = Len(s) /\ N > 0
  OBVIOUS
<1>2. PICK a, b : a = SubSeq(s, 1, i) /\ b = SubSeq(s, i + 2, N)
  OBVIOUS
<1>3. a \in Seq(ChatMsg) /\ Len(a) = i /\ \A j \in 1..i : a[j] = s[j]
  BY <1>1, <1>2
<1>4. PICK M : M = IF i + 2 <= N THEN N - i - 1 ELSE 0
  OBVIOUS
<1>0. M \in Nat /\ i \in Nat
  BY <1>1, <1>4
<1>5. b \in Seq(ChatMsg) /\ Len(b) = M /\ \A j \in 1..M : b[j] = s[j + i + 1]
  <2>1. CASE i + 2 <= N
    BY <1>1, <1>2, <1>4, <2>1
  <2>2. CASE ~(i + 2 <= N)
    <3>1. b = <<>>
      BY <1>1, <1>2, <2>2
    <3> QED BY <1>4, <2>2, <3>1
  <2> QED BY <2>1, <2>2
<1>6. r = a \o b
  BY <1>1, <1>2
<1>7. /\ r \in Seq(ChatMsg) /\ Len(r) = i + M
      /\ \A j \in 1..(i + M) : r[j] = IF j <= i THEN a[j] ELSE b[j - i]
  <2>1. /\ a \o b \in Seq(ChatMsg) /\ Len(a \o b) = Len(a) + Len(b)
        /\ \A j \in 1..(Len(a) + Len(b)) : (a \o b)[j] = IF j <= Len(a) THEN a[j] ELSE b[j - Len(a)]
    BY <1>3, <1>5, ConcatProperties
  <2> QED BY <1>3, <1>5, <1>6, <2>1
<1>8. \A j \in 1..(i + M) : r[j] = s[IF j <= i THEN j ELSE j + 1]
  <2>1. ASSUME NEW j \in 1..(i + M)
        PROVE  r[j] = s[IF j <= i THEN j ELSE j + 1]
    <3>1. CASE j <= i
      <4>1. j \in 1..i /\ (IF j <= i THEN j ELSE j + 1) = j
        BY <1>0, <3>1
      <4> QED BY <1>3, <1>7, <3>1, <4>1
    <3>2. CASE ~(j <= i)
      <4>1. j - i \in 1..M /\ (j - i) + i + 1 = j + 1
        BY <1>0, <3>2
      <4> QED BY <1>5, <1>7, <3>2, <4>1
    <3> QED BY <3>1, <3>2
  <2> QED BY <2>1
<1>9. PICK g : g = [j \in 1..(i + M) |-> IF j <= i THEN j ELSE j + 1]
  OBVIOUS
<1>10. \A j \in 1..(i + M) : (IF j <= i THEN j ELSE j + 1) \in 1..N
  BY <1>0, <1>1, <1>4
<1>11. g \in [1..Len(r) -> 1..Len(s)] /\ \A j \in 1..Len(r) : r[j] = s[g[j]]
  BY <1>1, <1>7, <1>8, <1>9, <1>10
<1>12. ASSUME NEW j \in 1..(i + M), NEW k \in 1..(i + M), g[j] = g[k]
       PROVE  j = k
  <2>1. (IF j <= i THEN j ELSE j + 1) = (IF k <= i THEN k ELSE k + 1)
    BY <1>9, <1>12
  <2> QED BY <1>0, <2>1
<1>13. Picked(s, r, g)
  BY <1>7, <1>11, <1>12 DEF Picked
<1> QED BY <1>7, <1>13, PartOf DEF Rest

LEMMA DeleteKeeps ==
  ASSUME ChatInv(service), Chatting!Delete
  PROVE  ChatInv(service')
<1>1. PICK name \in DOMAIN service.at, i \in 0..1 :
        /\ service.heap[service.at[name]].msgs # <<>>
        /\ service' = Chatting!DeleteFrom(service, service.at[name], i)
  BY DEF Chatting!Delete
<1>2. PICK o : o = service.at[name]
  OBVIOUS
<1>3. /\ service \in ChatState /\ service.heap \in Seq(Buffer) /\ o \in 1..Len(service.heap)
      /\ service.fresh \in Nat /\ service.faults \in Nat /\ service.torn \subseteq Nat /\ Chats \in Nat
      /\ service.fresh <= MaxFresh
  BY <1>2, ConversationsAssumption DEF ChatInv, ChatTyped, ChatState
<1>4. PICK s, id : s = service.heap[o].msgs /\ id = service.heap[o].id
  OBVIOUS
<1>5. s \in Seq(ChatMsg) /\ id \in Nat
  <2>1. service.heap[o] \in Buffer
    BY <1>3
  <2> QED BY <1>4, <2>1 DEF Buffer
<1>6. PICK r : r = SubSeq(s, 1, i) \o SubSeq(s, i + 2, Len(s))
  OBVIOUS
<1>7. r \in Seq(ChatMsg) /\ (Apart(s) => Apart(r)) /\ \A k : IdsTo(s, k) => IdsTo(r, k)
  <2>1. Len(s) > 0
    BY <1>1, <1>2, <1>4, <1>5
  <2>2. Rest(s, r)
    BY <1>5, <1>6, <2>1, RestIs
  <2> QED BY <2>2 DEF Rest
<1>8. IdsTo(s, service.made) /\ Apart(s) /\ (o \in service.cut \/ Follows(s)) /\ id \in 1..(Chats + service.fresh)
  BY <1>3, <1>4 DEF ChatInv, Buffers
<1>9. PICK b : b = [id |-> id, msgs |-> r]
  OBVIOUS
<1>10. b \in Buffer /\ b.id = id /\ b.msgs = r
  BY <1>5, <1>7, <1>9 DEF Buffer
<1>11. PICK T, C : /\ T = service.torn \cup {id}
                   /\ C = IF r = s THEN service.cut ELSE service.cut \cup {o}
  OBVIOUS
<1>12. PICK n \in Nat : n = service.faults + 1
  BY <1>3
<1>13. service' = [service EXCEPT !.heap[o].msgs = r, !.cut = C, !.torn = T, !.faults = n]
  BY <1>1, <1>2, <1>3, <1>4, <1>6, <1>11, <1>12 DEF Chatting!DeleteFrom, ChatState
<1>14. [service.heap EXCEPT ![o].msgs = r] = [service.heap EXCEPT ![o] = b]
  <2>1. PICK x : x = service.heap[o]
    OBVIOUS
  <2>2. x \in Buffer
    BY <1>3, <2>1
  <2>3. [x EXCEPT !.msgs = r] = b
    BY <1>4, <1>9, <2>1, <2>2 DEF Buffer
  <2> QED BY <2>1, <2>3
<1>15. WithMemory(service', service, o, b, T, C, service.fresh, n)
  BY <1>3, <1>13, <1>14 DEF WithMemory, ChatState
<1>16. MayReplace(service, o, b, T, C, service.fresh)
  <2>1. T \subseteq Nat /\ service.torn \subseteq T /\ (C = service.cut \/ C = service.cut \cup {o}) /\ id \in T
    BY <1>3, <1>5, <1>11
  <2>2. o \in C \/ (Follows(r) /\ \A q : HasId(s, q) => HasId(r, q))
    BY <1>8, <1>11
  <2>3. service.fresh <= service.fresh
    BY <1>3
  <2>4. b.id \in 1..(Chats + service.fresh) /\ IdsTo(b.msgs, service.made) /\ Apart(b.msgs)
    BY <1>7, <1>8, <1>10
  <2>5. o \in C \/ (Follows(b.msgs) /\ \A q : HasId(service.heap[o].msgs, q) => HasId(b.msgs, q))
    BY <1>4, <1>10, <2>2
  <2>6. b.id \notin (1..Chats) \ T
    BY <1>10, <2>1
  <2> QED BY <1>3, <1>10, <2>1, <2>3, <2>4, <2>5, <2>6 DEF MayReplace
<1> QED BY <1>15, <1>16, Replaced

LEMMA ClearKeeps ==
  ASSUME ChatInv(service), Chatting!Clear
  PROVE  ChatInv(service')
<1>1. PICK name \in DOMAIN service.at : service' = Chatting!Emptied(service, service.at[name])
  BY DEF Chatting!Clear
<1>2. PICK o : o = service.at[name]
  OBVIOUS
<1>3. /\ service \in ChatState /\ service.heap \in Seq(Buffer) /\ o \in 1..Len(service.heap)
      /\ service.fresh \in Nat /\ service.faults \in Nat /\ service.torn \subseteq Nat /\ Chats \in Nat
      /\ service.fresh < MaxFresh /\ MaxFresh \in Nat /\ service.made \in Nat
  BY <1>2, ConversationsAssumption DEF ChatInv, ChatTyped, ChatState, Chatting!Clear
<1>4. PICK fr \in Nat, n \in Nat : fr = service.fresh + 1 /\ n = service.faults + 1
  BY <1>3
<1>5. PICK none : none = <<>>
  OBVIOUS
<1>6. none \in Seq(ChatMsg) /\ Len(none) = 0
  BY <1>5
<1>7. PICK b : b = [id |-> Chats + fr, msgs |-> none]
  OBVIOUS
<1>8. b \in Buffer /\ b.id = Chats + fr /\ b.msgs = none
  BY <1>3, <1>6, <1>7 DEF Buffer
<1>9. PICK C : C = service.cut \cup {o}
  OBVIOUS
<1>10. Chatting!NewMemory(Chatting!FreshId(service)) = b
  <2>1. Chats + service.fresh + 1 = Chats + fr
    BY <1>3, <1>4
  <2> QED BY <1>5, <1>7, <2>1 DEF Chatting!NewMemory, Chatting!FreshId
<1>11. service' = [service EXCEPT !.heap[o] = b, !.fresh = fr, !.cut = C, !.faults = n]
  BY <1>1, <1>2, <1>3, <1>4, <1>9, <1>10 DEF Chatting!Emptied, ChatState
<1>12. WithMemory(service', service, o, b, service.torn, C, fr, n)
  BY <1>3, <1>11 DEF WithMemory, ChatState
<1>13. MayReplace(service, o, b, service.torn, C, fr)
  <2>1. IdsTo(none, service.made) /\ Apart(none)
    BY <1>6 DEF IdsTo, Apart
  <2>2. Chats + fr \in 1..(Chats + fr) /\ Chats + fr \notin 1..Chats /\ service.fresh <= fr /\ fr <= MaxFresh
    BY <1>3, <1>4
  <2> QED BY <1>3, <1>8, <1>9, <2>1, <2>2 DEF MayReplace
<1> QED BY <1>12, <1>13, Replaced

LEMMA ClearAllKeeps ==
  ASSUME ChatInv(service), Chatting!ClearAll
  PROVE  ChatInv(service')
<1>1. /\ service \in ChatState /\ Chats \in Nat /\ service.fresh \in Nat /\ service.fresh < MaxFresh
      /\ MaxFresh \in Nat /\ service.faults \in Nat /\ service.torn \subseteq Nat
      /\ service.at \in PartialOf(Nat, Nat)
  BY ConversationsAssumption DEF ChatInv, ChatTyped, ChatState, Chatting!ClearAll
<1>2. PICK none, T : none = <<>> /\ T = service.torn \cup DOMAIN service.at
  OBVIOUS
<1>3. DOMAIN none = {} /\ none \in PartialOf(Nat, Nat)
  <2>1. DOMAIN none = {} /\ none \in [DOMAIN none -> Nat]
    BY <1>2
  <2> QED BY <2>1, PartialIs
<1>4. DOMAIN service.at \subseteq Nat
  BY <1>1, PartialIs
<1>5. PICK fr \in Nat, n \in Nat, k \in Nat :
        fr = service.fresh + 1 /\ n = service.faults + 1 /\ k = Chats + service.fresh + 1
  BY <1>1
<1>6. service' = [service EXCEPT !.at = none, !.default = k, !.fresh = fr, !.torn = T, !.faults = n]
  BY <1>1, <1>2, <1>5 DEF Chatting!ClearAll, Chatting!FreshId, ChatState
<1>7. /\ service'.heap = service.heap /\ service'.at = none /\ service'.default = k
      /\ service'.loaded = service.loaded /\ service'.files = service.files /\ service'.made = service.made
      /\ service'.fresh = fr /\ service'.job = service.job /\ service'.stuck = service.stuck
      /\ service'.cut = service.cut /\ service'.torn = T
  BY <1>1, <1>6 DEF ChatState
<1>8. service' \in ChatState
  BY <1>1, <1>2, <1>3, <1>4, <1>6 DEF ChatState
<1>9. Clean(service') \subseteq Clean(service) /\ \A m \in Clean(service') : m \notin DOMAIN service.at
  BY <1>2, <1>7 DEF Clean
<1>10. k \in 1..(Chats + fr) /\ fr <= MaxFresh /\ 1..(Chats + service.fresh) \subseteq 1..(Chats + fr)
  BY <1>1, <1>5
<1>11. ChatTyped(service')
  BY <1>3, <1>7, <1>8, <1>10 DEF ChatInv, ChatTyped
<1>12. Buffers(service') /\ Requests(service')
  BY <1>7, <1>10 DEF ChatInv, Buffers, Requests
<1>13. \A o \in 1..Len(service.heap) : service.heap[o].id \notin Clean(service')
  BY <1>9 DEF ChatInv, Named
<1>14. \A m \in Clean(service') : m \notin service.loaded
  BY <1>9 DEF ChatInv, Named
<1>15. Named(service')
  BY <1>3, <1>7, <1>13, <1>14 DEF Named
<1>16. Mirrors(service')
  BY <1>7, <1>9, <1>13 DEF ChatInv, Mirrors
<1> QED BY <1>11, <1>12, <1>15, <1>16 DEF ChatInv

LEMMA UpdateKeeps ==
  ASSUME ChatInv(service), Chatting!UpdateConversationId
  PROVE  ChatInv(service')
<1>1. PICK name \in 1..Chats : service' = [service EXCEPT !.default = name]
  BY DEF Chatting!UpdateConversationId
<1>2. /\ service \in ChatState /\ name \in Nat /\ name \in 1..(Chats + service.fresh)
  BY ConversationsAssumption DEF ChatInv, ChatTyped, ChatState
<1>3. /\ service'.heap = service.heap /\ service'.at = service.at /\ service'.default = name
      /\ service'.loaded = service.loaded /\ service'.files = service.files /\ service'.made = service.made
      /\ service'.fresh = service.fresh /\ service'.job = service.job /\ service'.stuck = service.stuck
      /\ service'.cut = service.cut /\ service'.torn = service.torn /\ service' \in ChatState
  BY <1>1, <1>2 DEF ChatState
<1>4. Clean(service') = Clean(service) /\ \A p : InStep(service', p) <=> InStep(service, p)
  BY <1>3 DEF Clean, InStep
<1>5. ChatTyped(service') /\ Buffers(service') /\ Requests(service')
  BY <1>2, <1>3 DEF ChatInv, ChatTyped, Buffers, Requests
<1>6. Named(service') /\ Mirrors(service')
  BY <1>3, <1>4 DEF ChatInv, Named, Mirrors
<1> QED BY <1>5, <1>6 DEF ChatInv

LEMMA ExportedKeeps ==
  ASSUME ChatInv(service), ~service.stuck, Chatting!LoadExported
  PROVE  ChatInv(service')
<1>1. PICK name \in DOMAIN service.at, from \in DOMAIN service.at, overwrite \in BOOLEAN :
        LET o == service.at[name]
            msgs == service.heap[service.at[from]].msgs
            emptied == Chatting!Emptied(service, o)
            c == IF ~overwrite THEN service
                 ELSE IF msgs = <<>> THEN emptied
                 ELSE [emptied EXCEPT !.heap[o].id = service.heap[service.at[from]].id] IN
        /\ name # from
        /\ overwrite => service.fresh < MaxFresh
        /\ service' = [Chatting!AddBatch(c, o, msgs, "none") EXCEPT
                         !.torn = @ \cup {c.heap[o].id, service.heap[o].id},
                         !.cut = @ \cup {o}, !.faults = service.faults + 1]
  BY DEF Chatting!LoadExported
<1>2. PICK o, x : o = service.at[name] /\ x = service.at[from]
  OBVIOUS
<1>3. /\ service \in ChatState /\ service.heap \in Seq(Buffer) /\ o \in 1..Len(service.heap)
      /\ x \in 1..Len(service.heap)
      /\ service.fresh \in Nat /\ service.faults \in Nat /\ service.torn \subseteq Nat /\ Chats \in Nat
      /\ MaxFresh \in Nat /\ service.made \in Nat /\ service.fresh <= MaxFresh /\ service.cut \subseteq Nat
  BY <1>2, ConversationsAssumption DEF ChatInv, ChatTyped, ChatState
<1>4. PICK s, id, p, key : /\ s = service.heap[x].msgs /\ id = service.heap[x].id
                           /\ p = service.heap[o].msgs /\ key = service.heap[o].id
  OBVIOUS
<1>5. s \in Seq(ChatMsg) /\ id \in Nat /\ p \in Seq(ChatMsg) /\ key \in Nat
  <2>1. service.heap[o] \in Buffer /\ service.heap[x] \in Buffer
    BY <1>3
  <2> QED BY <1>4, <2>1 DEF Buffer
<1>6. /\ IdsTo(s, service.made) /\ id \in 1..(Chats + service.fresh)
      /\ IdsTo(p, service.made) /\ Apart(p) /\ key \in 1..(Chats + service.fresh)
  BY <1>3, <1>4 DEF ChatInv, Buffers
<1>7. \A i \in 1..Len(s) : s[i].id # 0
  <2>1. \A i \in 1..Len(s) : s[i].id \in 1..service.made
    BY <1>6 DEF IdsTo
  <2> QED BY <1>3, <2>1
<1>8. PICK c : c = IF ~overwrite THEN service
                   ELSE IF s = <<>> THEN Chatting!Emptied(service, o)
                   ELSE [Chatting!Emptied(service, o) EXCEPT !.heap[o].id = id]
  OBVIOUS
<1>9. /\ overwrite => service.fresh < MaxFresh
      /\ service' = [Chatting!AddBatch(c, o, s, "none") EXCEPT
                       !.torn = @ \cup {c.heap[o].id, key},
                       !.cut = @ \cup {o}, !.faults = service.faults + 1]
  BY <1>1, <1>2, <1>4, <1>8
<1>10. PICK n \in Nat, fr \in Nat : n = service.faults + 1 /\ fr = service.fresh + 1
  BY <1>3
<1>11. PICK b \in Buffer, f \in Nat, F \in SUBSET Nat, m \in Nat :
         /\ c = [service EXCEPT !.heap = [service.heap EXCEPT ![o] = b], !.fresh = f, !.cut = F, !.faults = m]
         /\ service.fresh <= f /\ f <= MaxFresh /\ b.id \in 1..(Chats + f)
         /\ IdsTo(b.msgs, service.made) /\ Apart(b.msgs) /\ F \cup {o} = service.cut \cup {o}
  <2>1. CASE ~overwrite
    <3>1. c = service
      BY <1>8, <2>1
    <3>2. PICK b : b = service.heap[o]
      OBVIOUS
    <3>3. b \in Buffer /\ [service.heap EXCEPT ![o] = b] = service.heap
      BY <1>3, <3>2
    <3>4. c = [service EXCEPT !.heap = [service.heap EXCEPT ![o] = b], !.fresh = service.fresh,
                              !.cut = service.cut, !.faults = service.faults]
      BY <1>3, <3>1, <3>3 DEF ChatState
    <3>5. service.fresh <= service.fresh /\ b.id = key /\ b.msgs = p
      BY <1>3, <1>4, <3>2
    <3> QED BY <1>3, <1>6, <3>3, <3>4, <3>5
  <2>2. CASE overwrite
    <3>1. PICK none : none = <<>>
      OBVIOUS
    <3>2. none \in Seq(ChatMsg) /\ Len(none) = 0
      BY <3>1
    <3>3. PICK b1 : b1 = [id |-> Chats + fr, msgs |-> none]
      OBVIOUS
    <3>4. b1 \in Buffer /\ b1.id = Chats + fr /\ b1.msgs = none
      BY <1>3, <3>2, <3>3 DEF Buffer
    <3>5. PICK F : F = service.cut \cup {o}
      OBVIOUS
    <3>6. Chatting!NewMemory(Chatting!FreshId(service)) = b1
      <4>1. Chats + service.fresh + 1 = Chats + fr
        BY <1>3, <1>10
      <4> QED BY <3>1, <3>3, <4>1 DEF Chatting!NewMemory, Chatting!FreshId
    <3>7. PICK e : e = Chatting!Emptied(service, o)
      OBVIOUS
    <3>8. e = [service EXCEPT !.heap = [service.heap EXCEPT ![o] = b1], !.fresh = fr, !.cut = F, !.faults = n]
      BY <1>3, <1>10, <3>5, <3>6, <3>7 DEF Chatting!Emptied, ChatState
    <3>9. service.fresh <= fr /\ fr <= MaxFresh /\ F \subseteq Nat /\ F \cup {o} = service.cut \cup {o}
      BY <1>3, <1>9, <1>10, <2>2, <3>5
    <3>10. IdsTo(none, service.made) /\ Apart(none)
      BY <3>2 DEF IdsTo, Apart
    <3>11. CASE s = <<>>
      <4>1. c = e
        BY <1>8, <2>2, <3>7, <3>11
      <4>2. b1.id \in 1..(Chats + fr)
        BY <1>3, <1>10, <3>4
      <4> QED BY <3>4, <3>8, <3>9, <3>10, <4>1, <4>2
    <3>12. CASE s # <<>>
      <4>1. c = [e EXCEPT !.heap[o].id = id]
        BY <1>8, <2>2, <3>7, <3>12
      <4>2. PICK b2 : b2 = [id |-> id, msgs |-> none]
        OBVIOUS
      <4>3. b2 \in Buffer /\ b2.id = id /\ b2.msgs = none
        BY <1>5, <3>2, <4>2 DEF Buffer
      <4>4. PICK h : h = [service.heap EXCEPT ![o] = b1]
        OBVIOUS
      <4>5. e.heap = h /\ h[o] = b1
        BY <1>3, <3>8, <4>4 DEF ChatState
      <4>6. [h EXCEPT ![o].id = id] = [service.heap EXCEPT ![o] = b2]
        <5>1. [b1 EXCEPT !.id = id] = b2
          BY <3>4, <4>2 DEF Buffer
        <5> QED BY <1>3, <4>4, <4>5, <5>1
      <4>7. c = [service EXCEPT !.heap = [service.heap EXCEPT ![o] = b2], !.fresh = fr, !.cut = F, !.faults = n]
        BY <1>3, <3>8, <4>1, <4>5, <4>6 DEF ChatState
      <4>8. b2.id \in 1..(Chats + fr)
        BY <1>3, <1>6, <1>10, <4>3
      <4> QED BY <3>9, <3>10, <4>3, <4>7, <4>8
    <3> QED BY <3>11, <3>12
  <2> QED BY <2>1, <2>2
<1>12. /\ c \in ChatState /\ ~c.stuck /\ o \in 1..Len(c.heap) /\ c.heap[o] = b
       /\ c.heap = [service.heap EXCEPT ![o] = b] /\ c.torn = service.torn /\ c.cut = F /\ c.fresh = f
  <2>1. PICK h : h = [service.heap EXCEPT ![o] = b]
    OBVIOUS
  <2>2. h \in Seq(Buffer) /\ Len(h) = Len(service.heap) /\ h[o] = b
    BY <1>3, <2>1
  <2> QED BY <1>3, <1>11, <2>1, <2>2 DEF ChatState
<1>13. PICK r : Joined(c.heap[o].msgs, s, r, Len(s)) /\ Chatting!AddBatch(c, o, s, "none") = Outcome(c, o, r).c
  BY <1>5, <1>7, <1>12, JoinsAll
<1>14. r \in Seq(ChatMsg) /\ Apart(r) /\ IdsTo(r, service.made)
  BY <1>3, <1>6, <1>11, <1>12, <1>13 DEF Joined
<1>15. PICK d : d = [id |-> b.id, msgs |-> r]
  OBVIOUS
<1>16. d \in Buffer /\ d.id = b.id /\ d.msgs = r /\ b.id \in Nat
  BY <1>14, <1>15 DEF Buffer
<1>17. Holding(c.heap, o, r) = [service.heap EXCEPT ![o] = d]
  BY <1>3, <1>12, <1>15 DEF Holding
<1>18. PICK a : a = Chatting!AddBatch(c, o, s, "none")
  OBVIOUS
<1>19. a = [c EXCEPT !.heap = [service.heap EXCEPT ![o] = d]]
  BY <1>13, <1>17, <1>18 DEF Outcome
<1>20. PICK T, C : T = service.torn \cup {b.id, key} /\ C = service.cut \cup {o}
  OBVIOUS
<1>21. a.torn \cup {c.heap[o].id, key} = T /\ a.cut \cup {o} = C
  BY <1>11, <1>12, <1>19, <1>20 DEF ChatState
<1>22. service' = [a EXCEPT !.torn = T, !.cut = C, !.faults = n]
  BY <1>9, <1>10, <1>18, <1>21
<1>23. WithMemory(service', service, o, d, T, C, f, n)
  BY <1>3, <1>11, <1>19, <1>22 DEF WithMemory, ChatState
<1>24. MayReplace(service, o, d, T, C, f)
  <2>1. T \subseteq Nat /\ service.torn \subseteq T /\ b.id \in T /\ o \in C
    BY <1>3, <1>5, <1>16, <1>20
  <2> QED BY <1>3, <1>11, <1>14, <1>16, <1>20, <2>1 DEF MayReplace
<1> QED BY <1>23, <1>24, Replaced

LEMMA ReloadKeeps ==
  ASSUME ChatInv(service), (Chatting!Preload /\ ~service.stuck) \/ Chatting!Restart
  PROVE  ChatInv(service')
<1>1. CASE Chatting!Preload /\ ~service.stuck
  BY <1>1, LoadFromHubKeeps DEF Chatting!Preload
<1>2. CASE Chatting!Restart
  <2>1. PICK answered \in BOOLEAN :
          service' = Chatting!LoadFromHub(
            [service EXCEPT !.heap = <<>>, !.at = <<>>, !.default = 1, !.loaded = {}, !.cut = {},
                            !.stuck = FALSE, !.faults = @ + 1, !.job = [t \in Tasks |-> Chatting!Idle]],
            1, answered)
    BY <1>2 DEF Chatting!Restart
  <2>2. PICK none, jobs : none = <<>> /\ jobs = [t \in Tasks |-> Chatting!Idle]
    OBVIOUS
  <2>3. PICK f \in BOOLEAN : ~f
    OBVIOUS
  <2>4. /\ service \in ChatState /\ service.faults \in Nat /\ Chats \in Nat \ {0} /\ service.fresh \in Nat
    BY ConversationsAssumption DEF ChatInv, ChatTyped, ChatState
  <2>5. PICK n \in Nat, one \in Nat : n = service.faults + 1 /\ one = 1
    BY <2>4
  <2>6. PICK c : c = [service EXCEPT !.heap = none, !.at = none, !.default = one, !.loaded = {}, !.cut = {},
                                     !.stuck = f, !.faults = n, !.job = jobs]
    OBVIOUS
  <2>7. [service EXCEPT !.heap = <<>>, !.at = <<>>, !.default = 1, !.loaded = {}, !.cut = {},
                        !.stuck = FALSE, !.faults = @ + 1, !.job = [t \in Tasks |-> Chatting!Idle]] = c
    <3>1. FALSE = f
      BY <2>3
    <3> QED BY <2>2, <2>5, <2>6, <3>1
  <2>8. /\ none \in Seq(Buffer) /\ Len(none) = 0 /\ DOMAIN none = {} /\ none \in PartialOf(Nat, Nat)
    <3>1. DOMAIN none = {} /\ none \in [DOMAIN none -> Nat]
      BY <2>2
    <3>2. none \in PartialOf(Nat, Nat)
      BY <3>1, PartialIs
    <3>3. none \in Seq(Buffer) /\ Len(none) = 0
      BY <2>2
    <3> QED BY <3>1, <3>2, <3>3
  <2>9. jobs \in [Tasks -> ChatJob] /\ \A t \in Tasks : jobs[t].at = "idle"
    BY <2>2 DEF Chatting!Idle, ChatJob
  <2>10. /\ c.heap = none /\ c.at = none /\ c.default = one /\ c.loaded = {} /\ c.files = service.files
         /\ c.made = service.made /\ c.fresh = service.fresh /\ c.job = jobs /\ c.stuck = f
         /\ c.cut = {} /\ c.torn = service.torn
    BY <2>4, <2>6 DEF ChatState
  <2>11. c \in ChatState
    BY <2>4, <2>6, <2>8, <2>9 DEF ChatState
  <2>12. one \in 1..Chats /\ one \in 1..(Chats + service.fresh)
    BY <2>4, <2>5
  <2>13. ChatTyped(c)
    BY <2>8, <2>10, <2>11, <2>12 DEF ChatInv, ChatTyped
  <2>14. 1..Len(none) = {}
    BY <2>8
  <2>15. Clean(c) = Clean(service)
    BY <2>10 DEF Clean
  <2>16. Buffers(c) /\ Requests(c)
    BY <2>9, <2>10, <2>14 DEF Buffers, Requests
  <2>17. Named(c) /\ Mirrors(c)
    BY <2>8, <2>10, <2>14, <2>15 DEF Named, Mirrors, ChatInv
  <2>18. ChatInv(c) /\ ~c.stuck
    BY <2>3, <2>10, <2>13, <2>16, <2>17 DEF ChatInv
  <2>19. service' = Chatting!LoadFromHub(c, one, answered)
    BY <2>1, <2>5, <2>7
  <2> QED BY <2>12, <2>18, <2>19, LoadFromHubKeeps
<1> QED BY <1>1, <1>2

LEMMA ChatInit ==
  ASSUME Chatting!Init
  PROVE  ChatInv(service)
<1>1. PICK none, jobs : none = <<>> /\ jobs = [t \in Tasks |-> Chatting!Idle]
  OBVIOUS
<1>2. PICK f \in BOOLEAN, zero \in Nat, one \in Nat : ~f /\ zero = 0 /\ one = 1
  OBVIOUS
<1>3. service = [heap |-> none, at |-> none, default |-> one, loaded |-> {}, files |-> {},
                 made |-> zero, fresh |-> zero, job |-> jobs, stuck |-> f,
                 faults |-> zero, cut |-> {}, torn |-> {}]
  <2>1. FALSE = f
    BY <1>2
  <2> QED BY <1>1, <1>2, <2>1 DEF Chatting!Init
<1>4. /\ none \in Seq(Buffer) /\ Len(none) = 0 /\ DOMAIN none = {} /\ none \in PartialOf(Nat, Nat)
  <2>1. DOMAIN none = {} /\ none \in [DOMAIN none -> Nat]
    BY <1>1
  <2>2. none \in PartialOf(Nat, Nat)
    BY <2>1, PartialIs
  <2>3. none \in Seq(Buffer) /\ Len(none) = 0
    BY <1>1
  <2> QED BY <2>1, <2>2, <2>3
<1>5. jobs \in [Tasks -> ChatJob] /\ \A t \in Tasks : jobs[t].at = "idle"
  BY <1>1 DEF Chatting!Idle, ChatJob
<1>6. /\ service.heap = none /\ service.at = none /\ service.default = one /\ service.loaded = {}
      /\ service.files = {} /\ service.made = zero /\ service.fresh = zero /\ service.job = jobs
      /\ service.cut = {} /\ service.torn = {}
  BY <1>3
<1>7. service \in ChatState
  BY <1>2, <1>3, <1>4, <1>5 DEF ChatState
<1>8. one \in 1..(Chats + zero) /\ zero <= MaxFresh /\ zero <= MaxMessages
  BY <1>2, ConversationsAssumption
<1>9. ChatTyped(service)
  BY <1>4, <1>6, <1>7, <1>8 DEF ChatTyped
<1>10. 1..Len(none) = {}
  BY <1>4
<1>11. Buffers(service) /\ Requests(service) /\ Named(service)
  BY <1>4, <1>5, <1>6, <1>10 DEF Buffers, Requests, Named
<1>12. \A n : Kept({}, n, zero)
  <2>1. none \in Seq(ChatMsg)
    BY <1>1
  <2>2. \A n : FilesOf(n, none) = {} /\ Of({}, n) = {}
    BY <1>10 DEF FilesOf, Of
  <2>3. Apart(none) /\ Follows(none) /\ IdsTo(none, zero)
    BY <1>10 DEF Apart, Follows, IdsTo
  <2> QED BY <2>1, <2>2, <2>3 DEF Kept
<1>13. Mirrors(service)
  BY <1>6, <1>10, <1>12 DEF Mirrors
<1> QED BY <1>9, <1>11, <1>13 DEF ChatInv

LEMMA ChatStep ==
  ASSUME ChatInv(service), Chatting!Next
  PROVE  ChatInv(service')
<1>1. CASE Chatting!Restart
  BY <1>1, ReloadKeeps
<1>2. CASE ~service.stuck /\ Chatting!Work
  <2>1. ASSUME NEW t \in Tasks, Chatting!AskModel(t) \/ Chatting!AskAgent(t)
        PROVE  ChatInv(service')
    BY <1>2, <2>1, QueryKeeps DEF Chatting!AskModel, Chatting!AskAgent
  <2>2. ASSUME NEW t \in Tasks, Chatting!AskNobody(t) \/ Chatting!HandleMessage(t)
        PROVE  ChatInv(service')
    BY <1>2, <2>2, NobodyKeeps, HandlerKeeps
  <2>3. ASSUME NEW t \in Tasks, Chatting!Answer(t) \/ Chatting!Fails(t)
        PROVE  ChatInv(service')
    BY <1>2, <2>3, AnswerKeeps
  <2>4. CASE Chatting!AddList
    BY <1>2, <2>4, ListKeeps
  <2>5. CASE Chatting!Delete \/ Chatting!Clear \/ Chatting!ClearAll \/ Chatting!UpdateConversationId
    BY <2>5, DeleteKeeps, ClearKeeps, ClearAllKeeps, UpdateKeeps
  <2>6. CASE Chatting!Preload \/ Chatting!LoadExported
    BY <1>2, <2>6, ReloadKeeps, ExportedKeeps
  <2> QED BY <1>2, <2>1, <2>2, <2>3, <2>4, <2>5, <2>6 DEF Chatting!Work
<1> QED BY <1>1, <1>2 DEF Chatting!Next

LEMMA ChatImplies ==
  ASSUME ChatInv(service)
  PROVE  Chatting!TypeOK /\ Chatting!AnswersFollowQuestions /\ Chatting!HubFollowsTheMemory
<1>1. /\ service \in ChatState /\ service.heap \in Seq(Buffer) /\ DOMAIN service.heap = 1..Len(service.heap)
      /\ Chats \in Nat /\ service.fresh \in Nat /\ MaxFresh \in Nat /\ service.fresh <= MaxFresh
      /\ service.job \in [Tasks -> ChatJob]
  BY ConversationsAssumption DEF ChatInv, ChatTyped, ChatState
<1>2. ASSUME NEW o \in 1..Len(service.heap)
      PROVE  /\ service.heap[o].msgs \in Seq(ChatMsg)
             /\ DOMAIN service.heap[o].msgs = 1..Len(service.heap[o].msgs)
  <2>1. service.heap[o] \in Buffer
    BY <1>1
  <2>2. service.heap[o].msgs \in Seq(ChatMsg)
    BY <2>1 DEF Buffer
  <2> QED BY <2>2
<1>3. 1..(Chats + service.fresh) \subseteq Chatting!Ids /\ 1..Chats \subseteq Chatting!Ids
  BY <1>1 DEF Chatting!Ids
<1>4. Chatting!TypeOK
  <2>1. \A o \in 1..Len(service.heap) : service.heap[o].id \in Chatting!Ids
    BY <1>3 DEF ChatInv, Buffers
  <2>2. \A t \in Tasks : service.job[t].at \in {"idle", "model", "agent", "handler"}
    BY <1>1 DEF ChatJob
  <2> QED BY <1>1, <1>3, <2>1, <2>2 DEF Chatting!TypeOK, ChatInv, ChatTyped
<1>5. Chatting!AnswersFollowQuestions
  <2>1. ASSUME NEW o \in 1..Len(service.heap)
        PROVE  LET msgs == service.heap[o].msgs IN
               /\ \A i, j \in DOMAIN msgs : msgs[i].id = msgs[j].id => i = j
               /\ o \notin service.cut => \A i \in DOMAIN msgs : msgs[i].asks # 0 =>
                    \E j \in 1..(i - 1) : msgs[j].id = msgs[i].asks
    <3>1. Apart(service.heap[o].msgs) /\ (o \in service.cut \/ Follows(service.heap[o].msgs))
      BY DEF ChatInv, Buffers
    <3> QED BY <1>2, <3>1 DEF Apart, Follows
  <2> QED BY <1>1, <2>1 DEF Chatting!AnswersFollowQuestions
<1>6. Chatting!HubFollowsTheMemory
  <2>1. ASSUME NEW name \in DOMAIN service.at, ~service.stuck, name \notin service.torn,
               service.heap[service.at[name]].id = name, name \in service.loaded
        PROVE  {f \in service.files : f.of = name}
                 = {[of |-> name, at |-> i - 1, msg |-> service.heap[service.at[name]].msgs[i]] :
                      i \in DOMAIN service.heap[service.at[name]].msgs}
    <3>1. PICK o : o = service.at[name]
      OBVIOUS
    <3>2. o \in 1..Len(service.heap) /\ name \in Clean(service)
      BY <2>1, <3>1 DEF ChatInv, ChatTyped, Clean
    <3>3. InStep(service, o)
      BY <2>1, <3>1, <3>2 DEF ChatInv, Mirrors
    <3>4. Of(service.files, name) = FilesOf(name, service.heap[o].msgs)
      BY <2>1, <3>1, <3>3 DEF InStep
    <3> QED BY <1>2, <3>1, <3>2, <3>4 DEF Of, FilesOf
  <2> QED BY <2>1 DEF Chatting!HubFollowsTheMemory
<1> QED BY <1>4, <1>5, <1>6

-----------------------------------------------------------------------------
(* The services.                                                           *)

ServicesInv ==
  /\ active = "aggregator" => IndexInv(service)
  /\ active = "conversations" => ChatInv(service)
  /\ active = "chain" => ChainInv(service)
  /\ active = "trader" => TradeInv(service)
  /\ active = "chroma" => ChromaInv(service)
  /\ active = "knowledge" => KnowledgeInv(service)

LEMMA ServicesInit == Init => ServicesInv
<1> SUFFICES ASSUME Init
             PROVE  ServicesInv
  OBVIOUS
<1>1. active = "chain" => ChainInv(service)
  BY ChainInit DEF Init
<1>2. active = "trader" => TradeInv(service)
  BY TradeInit DEF Init
<1>3. active = "chroma" => ChromaInv(service)
  BY ChromaInit DEF Init
<1>4. active = "knowledge" => KnowledgeInv(service)
  BY KnowledgeInit DEF Init
<1>5. active = "aggregator" => IndexInv(service)
  BY AggregatorInit DEF Init
<1>6. active = "conversations" => ChatInv(service)
  BY ChatInit DEF Init
<1> QED BY <1>1, <1>2, <1>3, <1>4, <1>5, <1>6 DEF ServicesInv

LEMMA ServicesStep == ServicesInv /\ [Next]_<<active, service>> => ServicesInv'
<1> SUFFICES ASSUME ServicesInv, [Next]_<<active, service>>
             PROVE  ServicesInv'
  OBVIOUS
<1>1. CASE Next
  <2>1. active' = active
    BY <1>1 DEF Next
  <2>2. active = "chain" => ChainInv(service')
    BY <1>1, ChainStep DEF Next, ServicesInv
  <2>3. active = "trader" => TradeInv(service')
    BY <1>1, TradeStep DEF Next, ServicesInv
  <2>4. active = "chroma" => ChromaInv(service')
    BY <1>1, ChromaStep DEF Next, ServicesInv
  <2>5. active = "knowledge" => KnowledgeInv(service')
    BY <1>1, KnowledgeStep DEF Next, ServicesInv
  <2>6. active = "aggregator" => IndexInv(service')
    BY <1>1, AggregatorStep DEF Next, ServicesInv
  <2>7. active = "conversations" => ChatInv(service')
    BY <1>1, ChatStep DEF Next, ServicesInv
  <2> QED BY <2>1, <2>2, <2>3, <2>4, <2>5, <2>6, <2>7 DEF ServicesInv
<1>2. CASE UNCHANGED <<active, service>>
  BY <1>2 DEF ServicesInv
<1> QED BY <1>1, <1>2

LEMMA ServicesInvariant == Spec => []ServicesInv
  BY ServicesInit, ServicesStep, PTL DEF Spec

(* A call on the contract that returns has had its effect, unless its      *)
(* transaction lost to another of its block (membase/chain/chain.py), for  *)
(* any clients, agents, tasks and nodes.                                   *)
THEOREM ReturnedIsDone == Spec => []ReturnMeansDone
<1>1. ServicesInv => ReturnMeansDone
  BY ChainImplies DEF ServicesInv, ReturnMeansDone
<1> QED BY <1>1, ServicesInvariant, PTL

(* No nonce leaves a gap, what buy and sell put on record is the trade,    *)
(* routes go where they were quoted, and deployments and reports are whole *)
(* (membase/chain/evm.py, beeper.py, trader.py), for any tokens, pools,    *)
(* tiers and transactions.                                                 *)
THEOREM TradesSound == Spec => []TradesAreSound
<1>1. ServicesInv => TradesAreSound
  BY TradeImplies DEF ServicesInv, TradesAreSound
<1> QED BY <1>1, ServicesInvariant, PTL

(* The hub has the documents and the memories of the collections, but      *)
(* those whose last change failed or left them out, and what is added      *)
(* strictly, one by one, is never alike (membase/knowledge/chroma.py,      *)
(* aip_chroma/chroma.py), for any contents, ids, clients and failures.     *)
THEOREM CollectionsMirrored == Spec => []CollectionsAreMirrored
<1>1. ServicesInv => CollectionsAreMirrored
  BY ChromaImplies, KnowledgeImplies DEF ServicesInv, CollectionsAreMirrored
<1> QED BY <1>1, ServicesInvariant, PTL

(* Every tool listed is called at the server it was listed for, and every  *)
(* server configured is listed once the servers are loaded, but those that *)
(* gave no answer (mcp/mcp_aggregator.py), for any servers, tools, names   *)
(* and coroutines.                                                         *)
THEOREM ToolsFound == Spec => []ToolsAreFound
<1>1. ServicesInv => ToolsAreFound
  BY AggregatorImplies DEF ServicesInv, ToolsAreFound
<1> QED BY <1>1, ServicesInvariant, PTL

(* An answer is stored behind its question, in the conversation it is of,  *)
(* and the files of a conversation nothing was deleted from, cleared of or *)
(* loaded over are its messages (membase/memory/buffered_memory.py,        *)
(* multi_memory.py, agents/full_agent.py), for any conversations, tasks,   *)
(* deletions, reloads and failures.                                        *)
THEOREM ConversationsKept == Spec => []ConversationsKeep
<1>1. ServicesInv => ConversationsKeep
  BY ChatImplies DEF ServicesInv, ConversationsKeep
<1> QED BY <1>1, ServicesInvariant, PTL

(* The state of every service has its type.                                *)
THEOREM ServicesTypes == Spec => []TypeOK
<1>1. ServicesInv => TypeOK
  BY ChainImplies, TradeImplies, ChromaImplies, KnowledgeImplies, AggregatorImplies, ChatImplies
     DEF ServicesInv, TypeOK
<1> QED BY <1>1, ServicesInvariant, PTL
=============================================================================
