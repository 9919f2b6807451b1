---------------------------- MODULE Conversations ----------------------------
(* MultiMemory and BufferedMemory (membase/memory), and the requests of an *)
(* agent that write them: process_query of the full agent and the message  *)
(* handler of CallbackAgent.  All runs on one event loop, so that only the *)
(* waits for a model or for another agent divide a request.                *)
(*                                                                         *)
(* An upload is done at once, or fails: then its caller waits for ever,    *)
(* and with it the loop.  The queue between is a matter of SqliteMemory.   *)
EXTENDS Naturals, Sequences

CONSTANTS
    Chats,          \* conversation ids, the agent's default is the first
    Tasks,          \* requests that run at a time
    Recent,         \* recent_n_messages
    MaxMessages,    \* bound: messages made
    MaxFresh,       \* bound: conversation ids made by uuid4
    MaxFaults       \* bound: failures, deletions, clears, loads and restarts

(* heap, the BufferedMemory objects; at, _memories; default,               *)
(* _default_conversation_id; loaded, _preload_conversations; files, the    *)
(* hub; made, messages so far; fresh, generated ids so far; job, the       *)
(* requests; stuck, whether the loop waits for an upload for ever; faults, *)
(* what the bound counts.  For the properties: cut, the objects that lost  *)
(* a message; torn, the conversations whose files need not be in step.     *)
VARIABLE conv

Ids == 1..(Chats + MaxFresh)

NewMemory(id) == [id |-> id, msgs |-> <<>>]

Idle == [at |-> "idle", memory |-> 0, asks |-> 0, seen |-> <<>>]

TypeOK ==
    /\ \A o \in DOMAIN conv.heap : conv.heap[o].id \in Ids
    /\ \A n \in DOMAIN conv.at : n \in Ids /\ conv.at[n] \in DOMAIN conv.heap
    /\ conv.default \in Ids /\ conv.loaded \subseteq Ids
    /\ \A f \in conv.files : f.of \in Ids /\ f.msg.id \in 1..conv.made
    /\ \A t \in Tasks : conv.job[t].at \in {"idle", "model", "agent", "handler"}

Init ==
    conv = [heap |-> <<>>, at |-> <<>>, default |-> 1, loaded |-> {}, files |-> {},
            made |-> 0, fresh |-> 0, job |-> [t \in Tasks |-> Idle], stuck |-> FALSE,
            faults |-> 0, cut |-> {}, torn |-> {}]

-----------------------------------------------------------------------------
(* BufferedMemory.                                                         *)

Has(c, o, m) == \E i \in DOMAIN c.heap[o].msgs : c.heap[o].msgs[i].id = m.id

(* The file of the i-th message of a conversation is written anew.         *)
Put(files, name, i, m) ==
    {f \in files : ~(f.of = name /\ f.at = i)} \cup {[of |-> name, at |-> i, msg |-> m]}

(* The hub has messages of the name that the process never asked for.      *)
Unread(c, name) == name \notin c.loaded /\ \E f \in c.files : f.of = name

(* How an upload goes: done, or failed, though the hub may have it.        *)
Ways == {"done", "failed", "unanswered"}

(* One turn of add_with_upload; the file has the message's index as name.  *)
Add(c, o, m, way) ==
    IF Has(c, o, m) THEN c
    ELSE LET name == c.heap[o].id
             i == Len(c.heap[o].msgs)
             fails == way \in {"failed", "unanswered"} IN
         [c EXCEPT !.heap[o].msgs = Append(@, m),
                   !.files = IF way \in {"done", "unanswered"} THEN Put(@, name, i, m) ELSE @,
                   !.torn = IF way \in Ways /\ Unread(c, name) THEN @ \cup {name} ELSE @,
                   !.stuck = @ \/ fails,
                   !.faults = IF fails THEN @ + 1 ELSE @]

(* add_with_upload: what is no message ends the batch with an exception,   *)
(* after the messages before it were taken.                                *)
AddBatch(c, o, batch, way) ==
    LET one(a, m) == IF a.raised \/ a.c.stuck \/ m.id = 0 THEN [c |-> a.c, raised |-> TRUE]
                     ELSE [c |-> Add(a.c, o, m, way), raised |-> FALSE]
        after[n \in 0..Len(batch)] ==
          IF n = 0 THEN [c |-> c, raised |-> FALSE] ELSE one(after[n - 1], batch[n])
    IN  after[Len(batch)].c

(* get: the last n messages.  None are the last 0 of a Python slice.       *)
LastOf(msgs, n) ==
    IF n = 0 \/ n >= Len(msgs) THEN msgs ELSE SubSeq(msgs, Len(msgs) - n + 1, Len(msgs))

(* The message of an index is taken out.                                   *)
DeleteFrom(c, o, i) ==
    LET msgs == c.heap[o].msgs
        rest == SubSeq(msgs, 1, i) \o SubSeq(msgs, i + 2, Len(msgs)) IN
    [c EXCEPT !.heap[o].msgs = rest,
              !.cut = IF rest = msgs THEN @ ELSE @ \cup {o},
              !.torn = @ \cup {c.heap[o].id}, !.faults = @ + 1]

FreshId(c) == Chats + c.fresh + 1

(* clear of one memory: MultiMemory keeps it under its former name.        *)
Emptied(c, o) ==
    [c EXCEPT !.heap[o] = NewMemory(FreshId(c)), !.fresh = @ + 1, !.cut = @ \cup {o},
              !.faults = @ + 1]

-----------------------------------------------------------------------------
(* MultiMemory.                                                            *)

GetMemory(c, name) ==
    IF name \in DOMAIN c.at THEN c
    ELSE [c EXCEPT !.heap = Append(@, NewMemory(name)),
                   !.at = [n \in {name} \cup DOMAIN @ |->
                              IF n = name THEN Len(c.heap) + 1 ELSE @[n]]]

(* The messages the hub has of a conversation, in the order of the files.  *)
Found(files, name) ==
    LET here(i) == {f \in files : f.of = name /\ f.at = i}
        first[n \in 0..MaxMessages] ==
          IF n = 0 THEN <<>>
          ELSE IF here(n - 1) = {} THEN first[n - 1]
          ELSE Append(first[n - 1], (CHOOSE f \in here(n - 1) : TRUE).msg)
    IN  first[MaxMessages]

(* load_from_hub: once per name; answered, whether the hub answers.        *)
LoadFromHub(c, name, answered) ==
    IF name \in c.loaded THEN c
    ELSE LET d == GetMemory([c EXCEPT !.loaded = @ \cup {name}], name)
             o == d.at[name]
             found == Found(d.files, name)
             new == \A i \in DOMAIN found : ~Has(d, o, found[i]) IN
         IF ~answered
         THEN [d EXCEPT !.torn = IF found = <<>> THEN @ ELSE @ \cup {name},
                        !.faults = @ + 1]
         ELSE [AddBatch(d, o, found, "none")
                 EXCEPT !.torn = IF d.heap[o].msgs = <<>> \/ ~new THEN @ ELSE @ \cup {name},
                        !.cut = IF name \in d.torn THEN @ \cup {o} ELSE @]

-----------------------------------------------------------------------------
(* A message, with the question it answers, or 0.                          *)
Message(id, asks) == [id |-> id, asks |-> asks]

Room(n) == conv.made + n <= MaxMessages

(* The memory of a request: the one named, or the default one, and what it *)
(* holds of the hub.  The default memory is not loaded here.               *)
MemoryFor(name, answered) == LoadFromHub(GetMemory(conv, name), name, answered)

(* process_query, up to the request to the model or, for "@agent", to the  *)
(* other agent.                                                            *)
Query(t, to) ==
    /\ conv.job[t].at = "idle" /\ Room(2)
    /\ \E name \in 1..Chats, default, answered \in BOOLEAN, way \in Ways :
         LET c == IF default THEN GetMemory(conv, conv.default) ELSE MemoryFor(name, answered)
             o == c.at[IF default THEN conv.default ELSE name]
             m == Message(c.made + 1, 0) IN
         conv' = [Add([c EXCEPT !.made = @ + 1], o, m, way) EXCEPT
                    !.job[t] = [at |-> to, memory |-> o, asks |-> m.id,
                                seen |-> IF to = "model" THEN LastOf(c.heap[o].msgs, Recent)
                                         ELSE <<>>]]

AskModel(t) == Query(t, "model")
AskAgent(t) == Query(t, "agent")

(* "@" without an agent or without a question: an error is returned.       *)
AskNobody(t) ==
    /\ conv.job[t].at = "idle" /\ Room(1)
    /\ \E way \in Ways :
         LET c == GetMemory(conv, conv.default) IN
         conv' = Add([c EXCEPT !.made = @ + 1], c.at[conv.default],
                     Message(c.made + 1, 0), way)

(* CallbackAgent.handle_message, up to the request to the model.           *)
HandleMessage(t) ==
    /\ conv.job[t].at = "idle" /\ Room(2)
    /\ \E way \in Ways :
         LET c == GetMemory(conv, conv.default)
             o == c.at[conv.default]
             m == Message(c.made + 1, 0) IN
         conv' = [Add([c EXCEPT !.made = @ + 1], o, m, way) EXCEPT
                    !.job[t] = [Idle EXCEPT !.at = "handler", !.memory = o, !.asks = m.id]]

AnswerInto(c, t, o, way) ==
    [Add([c EXCEPT !.made = @ + 1], o, Message(c.made + 1, c.job[t].asks), way)
       EXCEPT !.job[t] = Idle]

AnsweredInCurrent(t, way) ==
    LET c == GetMemory(conv, conv.default) IN AnswerInto(c, t, c.at[conv.default], way)

(* The answer goes to the memory the question went to.                     *)
Answered(t, way) == AnswerInto(conv, t, conv.job[t].memory, way)

(* The model or the agent answers; the handler answers an exception too.   *)
Answer(t) ==
    /\ conv.job[t].at # "idle" /\ Room(1)
    /\ \E way \in Ways : conv' = Answered(t, way)

(* An exception, or an answer "Error:..." that is returned but not kept.   *)
Fails(t) ==
    /\ conv.job[t].at \in {"model", "agent"}
    /\ conv' = [conv EXCEPT !.job[t] = Idle]

-----------------------------------------------------------------------------
(* The rest of the interface.                                              *)

(* MultiMemory.add of a list: new messages, one that is there, none.       *)
AddList ==
    /\ Room(1)
    /\ \E name \in 1..Chats, way \in Ways, before \in BOOLEAN, after \in {"same", "other"} :
         LET c == [GetMemory(conv, name) EXCEPT !.made = @ + 1]
             o == c.at[name]
             m == Message(c.made, 0)
             odd == IF after = "same" /\ c.heap[o].msgs # <<>> THEN Head(c.heap[o].msgs)
                    ELSE Message(0, 0) IN
         conv' = AddBatch(c, o, IF before THEN <<odd, m>> ELSE <<m, odd>>, way)

Delete ==
    \E name \in DOMAIN conv.at, i \in 0..1 :
        /\ conv.heap[conv.at[name]].msgs # <<>>
        /\ conv' = DeleteFrom(conv, conv.at[name], i)

Clear ==
    /\ conv.fresh < MaxFresh
    /\ \E name \in DOMAIN conv.at : conv' = Emptied(conv, conv.at[name])

(* clear without a name: the memories go, the record of what was loaded    *)
(* stays.                                                                  *)
ClearAll ==
    /\ conv.fresh < MaxFresh
    /\ conv' = [conv EXCEPT !.at = <<>>, !.default = FreshId(conv), !.fresh = @ + 1,
                            !.torn = @ \cup (DOMAIN conv.at), !.faults = @ + 1]

UpdateConversationId == \E name \in 1..Chats : conv' = [conv EXCEPT !.default = name]

(* load_from_hub, and every name of load_all_from_hub.                     *)
Preload ==
    \E name \in 1..Chats, answered \in BOOLEAN : conv' = LoadFromHub(conv, name, answered)

(* BufferedMemory.load of messages that another memory exported.           *)
LoadExported ==
    \E name, from \in DOMAIN conv.at, overwrite \in BOOLEAN :
        LET o == conv.at[name]
            msgs == conv.heap[conv.at[from]].msgs
            emptied == Emptied(conv, o)
            c == IF ~overwrite THEN conv
                 ELSE IF msgs = <<>> THEN emptied
                 ELSE [emptied EXCEPT !.heap[o].id = conv.heap[conv.at[from]].id] IN
        /\ name # from
        /\ overwrite => conv.fresh < MaxFresh
        /\ conv' = [AddBatch(c, o, msgs, "none") EXCEPT
                      !.torn = @ \cup {c.heap[o].id, conv.heap[o].id},
                      !.cut = @ \cup {o}, !.faults = conv.faults + 1]

(* The process ends and the agent starts again, its default memory loaded. *)
Restart ==
    \E answered \in BOOLEAN :
        conv' = LoadFromHub([conv EXCEPT !.heap = <<>>, !.at = <<>>, !.default = 1,
                                         !.loaded = {}, !.cut = {}, !.stuck = FALSE, !.faults = @ + 1,
                                         !.job = [t \in Tasks |-> Idle]], 1, answered)

Work ==
    \/ \E t \in Tasks : \/ AskModel(t) \/ AskAgent(t) \/ AskNobody(t) \/ HandleMessage(t)
                        \/ Answer(t) \/ Fails(t)
    \/ AddList \/ Delete \/ Clear \/ ClearAll \/ UpdateConversationId
    \/ Preload \/ LoadExported

Next == ((~conv.stuck /\ Work) \/ Restart) /\ conv'.faults <= MaxFaults

Spec == Init /\ [][Next]_conv

-----------------------------------------------------------------------------
(* In a memory nothing was taken from, every answer stands after its       *)
(* question, and no message stands twice, whatever was asked, cleared or   *)
(* renamed while the model worked (process_query, lines 220-302).          *)
AnswersFollowQuestions ==
    \A o \in DOMAIN conv.heap :
        LET msgs == conv.heap[o].msgs IN
        /\ \A i, j \in DOMAIN msgs : msgs[i].id = msgs[j].id => i = j
        /\ o \notin conv.cut => \A i \in DOMAIN msgs : msgs[i].asks # 0 =>
             \E j \in 1..(i - 1) : msgs[j].id = msgs[i].asks

(* The hub has a conversation as its memory has it, message by message, as *)
(* long as no load failed and nothing was deleted, cleared or loaded over  *)
(* it, and the process does not hang in an upload (add_with_upload, lines  *)
(* 101-106).                                                               *)
HubFollowsTheMemory ==
    \A name \in DOMAIN conv.at :
        LET m == conv.heap[conv.at[name]] IN
        ~conv.stuck /\ name \notin conv.torn /\ m.id = name /\ name \in conv.loaded =>
            {f \in conv.files : f.of = name}
              = {[of |-> name, at |-> i - 1, msg |-> m.msgs[i]] : i \in DOMAIN m.msgs}
=============================================================================
