---------------------------- MODULE FamilyMemory ----------------------------
(***************************************************************************)
(* One family of the companion: FamilyMemoryManager, the chat turns of its *)
(* members in the request threads of the server, and what a member's       *)
(* snapshot shows. A message is the turn it belongs to and the role that   *)
(* wrote it; the language model's classification and answers are choices.  *)
(*                                                                         *)
(* LTMemory models the instance a family uses; here it is the thread that  *)
(* folds batches of every short-term conversation into the family profile. *)
(***************************************************************************)
EXTENDS Naturals, Sequences, FiniteSets, SequencesExt

CONSTANTS
  User,         \* members of the family
  Turn,         \* requests to chat
  StmsPerLtm,   \* stms_per_ltm of the summarizer
  None          \* no LTMemory for the family yet

ASSUME FamilyMemoryAssumption ==
  /\ StmsPerLtm \in Nat \ {0}
  /\ None \notin Turn

VARIABLES
  slot,       \* self._memories[family_id]: the turn that built the instance
  instances,  \* the LTMemory instances whose threads run, by their builder
  turn,       \* the progress of each chat turn
  conv,       \* the conversations of the store
  profile,    \* the turns folded into the family profile
  folded      \* the number of batches folded from each conversation

vars == <<slot, instances, turn, conv, profile, folded>>

Shared == <<"shared">>
Own(u) == <<"own", u>>
Events == <<"events">>
Public == <<"public">>
Private(u) == <<"private", u>>

ShortTerm == {Shared} \cup {Own(u) : u \in User}
Place == ShortTerm \cup {Events, Public} \cup {Private(u) : u \in User}

Message == [turn : Turn, role : {"user", "assistant", "classifier"}]

Visibility == {"family", "private", "public"}
Bucket == {"events", "public", "private"}

-----------------------------------------------------------------------------
Init ==
  /\ slot = None
  /\ instances = {}
  /\ turn = [t \in Turn |-> [pc |-> "idle"]]
  /\ conv = [p \in Place |-> <<>>]
  /\ profile = {}
  /\ folded = [p \in ShortTerm |-> 0]

Goto(t, pc) == turn' = [turn EXCEPT ![t].pc = pc]

Start(t, u) ==
  /\ turn[t].pc = "idle"
  /\ turn' = [turn EXCEPT ![t] =
       [pc |-> "lookup", user |-> u, visibility |-> "family", todo |-> <<>>]]
  /\ UNCHANGED <<slot, instances, conv, profile, folded>>

(* get_or_create: an instance that is there is used, otherwise this thread *)
(* builds one.                                                             *)
Lookup(t) ==
  /\ turn[t].pc = "lookup"
  /\ Goto(t, IF slot = None THEN "build" ELSE "classify")
  /\ UNCHANGED <<slot, instances, conv, profile, folded>>

(* The constructor has reloaded the family from the hub and started its    *)
(* thread; the instance replaces whatever another turn assigned meanwhile. *)
Built(t) ==
  /\ turn[t].pc = "build"
  /\ slot' = t
  /\ instances' = instances \cup {t}
  /\ Goto(t, "classify")
  /\ UNCHANGED <<conv, profile, folded>>

(* The messages of one side of the turn, in the order they are added.      *)
Sides(t, visibility) ==
  IF visibility = "private" THEN <<Own(turn[t].user)>>
  ELSE <<Shared, Own(turn[t].user)>>

Buckets(t, B) ==
  (IF "events" \in B THEN <<Events>> ELSE <<>>)
    \o (IF "public" \in B THEN <<Public>> ELSE <<>>)
    \o (IF "private" \in B THEN <<Private(turn[t].user)>> ELSE <<>>)

(* The classifier's answer, or its defaults when the model fails; what     *)
(* add_user_message and store_categorized_memories will add.               *)
Classify(t) ==
  /\ turn[t].pc = "classify"
  /\ \E visibility \in Visibility, B \in SUBSET Bucket :
       turn' = [turn EXCEPT ![t] =
         [@ EXCEPT !.pc = "question", !.visibility = visibility,
                   !.todo = Sides(t, visibility) \o Buckets(t, B)]]
  /\ UNCHANGED <<slot, instances, conv, profile, folded>>

Role(t, p) ==
  IF p[1] \in Bucket THEN "classifier"
  ELSE IF turn[t].pc = "question" THEN "user" ELSE "assistant"

(* One memory.add of the turn.                                             *)
Add(t) ==
  /\ turn[t].pc \in {"question", "answer"}
  /\ turn[t].todo # <<>>
  /\ LET p == Head(turn[t].todo) IN
       conv' = [conv EXCEPT ![p] = Append(@, [turn |-> t, role |-> Role(t, p)])]
  /\ turn' = [turn EXCEPT ![t].todo = Tail(@)]
  /\ UNCHANGED <<slot, instances, profile, folded>>

(* The contexts are read and the model is asked for the reply.             *)
Ask(t) ==
  /\ turn[t].pc = "question"
  /\ turn[t].todo = <<>>
  /\ Goto(t, "reply")
  /\ UNCHANGED <<slot, instances, conv, profile, folded>>

(* Mutant of Reply: add_agent_message is left its default of sharing.      *)
ReplyShared(t) ==
  /\ turn[t].pc = "reply"
  /\ turn' = [turn EXCEPT ![t] =
       [@ EXCEPT !.pc = "answer", !.todo = Sides(t, "family")]]
  /\ UNCHANGED <<slot, instances, conv, profile, folded>>

(* The reply arrives; add_agent_message has the visibility of the turn.    *)
Reply(t) ==
  /\ turn[t].pc = "reply"
  /\ turn' = [turn EXCEPT ![t] =
       [@ EXCEPT !.pc = "answer", !.todo = Sides(t, turn[t].visibility)]]
  /\ UNCHANGED <<slot, instances, conv, profile, folded>>

Answered(t) ==
  /\ turn[t].pc = "answer"
  /\ turn[t].todo = <<>>
  /\ Goto(t, "done")
  /\ UNCHANGED <<slot, instances, conv, profile, folded>>

(* Mutant of Fail: the request is tried again from the start.              *)
FailRetries(t) ==
  /\ turn[t].pc \in {"build", "question", "reply", "answer"}
  /\ turn[t].pc \in {"question", "answer"} => turn[t].todo # <<>>
  /\ turn' = [turn EXCEPT ![t] = [@ EXCEPT !.pc = "lookup", !.todo = <<>>]]
  /\ UNCHANGED <<slot, instances, conv, profile, folded>>

(* Building the instance, an add or the reply raises: the server answers   *)
(* with 500 and what was added stays.                                      *)
Fail(t) ==
  /\ turn[t].pc \in {"build", "question", "reply", "answer"}
  /\ turn[t].pc \in {"question", "answer"} => turn[t].todo # <<>>
  /\ Goto(t, "failed")
  /\ UNCHANGED <<slot, instances, conv, profile, folded>>

(* The background thread of an instance goes through the conversations     *)
(* that are not summaries or profiles and folds the batch that is due into *)
(* the profile of the family.                                              *)
Fold(p) ==
  LET k == folded[p]
      batch == (k * StmsPerLtm + 1)..((k + 1) * StmsPerLtm)
  IN
  /\ instances # {}
  /\ Len(conv[p]) > (k + 1) * StmsPerLtm
  /\ profile' = profile \cup {conv[p][i].turn : i \in batch}
  /\ folded' = [folded EXCEPT ![p] = k + 1]
  /\ UNCHANGED <<slot, instances, turn, conv>>

-----------------------------------------------------------------------------
ChatStep(t) ==
  \/ Lookup(t)
  \/ Built(t)
  \/ Classify(t)
  \/ Add(t)
  \/ Ask(t)
  \/ Reply(t)
  \/ Answered(t)
  \/ Fail(t)

Next ==
  \/ \E t \in Turn : (\E u \in User : Start(t, u)) \/ ChatStep(t)
  \/ \E p \in ShortTerm : Fold(p)

Spec == Init /\ [][Next]_vars

-----------------------------------------------------------------------------
(* snapshot(family_id, user_id): the loop over the important events        *)
(* assigns to user_id, so the last part is the one of the author of the    *)
(* last event.                                                             *)
SnapshotUser(u) ==
  IF conv[Events] = <<>> THEN u ELSE turn[Last(conv[Events]).turn].user

TurnsOf(u) == {t \in Turn : turn[t].pc # "idle" /\ turn[t].user = u}

Occurs(t, p) == {i \in DOMAIN conv[p] : conv[p][i].turn = t}

TypeOK ==
  /\ slot \in instances \cup {None}
  /\ instances \subseteq Turn
  /\ \A t \in Turn : turn[t].pc # "idle" =>
       /\ turn[t].user \in User
       /\ turn[t].visibility \in Visibility
       /\ turn[t].todo \in Seq(Place)
  /\ conv \in [Place -> Seq(Message)]
  /\ profile \subseteq Turn
  /\ folded \in [ShortTerm -> Nat]

(* What a member says in private, and the answer, never enters the shared  *)
(* conversation of the family, whatever fails (agent.py:69-84, 148-154).   *)
PrivateStaysOut ==
  \A t \in Turn : Occurs(t, Shared) # {} => turn[t].visibility # "private"

(* In the member's own conversation a turn is one question, then one       *)
(* answer, with other turns of the family in between at most; an answered  *)
(* turn has both, and both are in the shared conversation unless it is     *)
(* private. The turns, their steps and the conversations keep their types. *)
QuestionThenAnswer ==
  /\ TypeOK
  /\ \A t \in Turn, u \in User :
       LET places == Occurs(t, Own(u)) IN
       /\ places # {} => t \in TurnsOf(u)
       /\ \A i \in places :
            (conv[Own(u)][i].role = "user") <=> (\A j \in places : i <= j)
       /\ Cardinality(places) <= 2
       /\ t \in TurnsOf(u) /\ turn[t].pc = "done" =>
            /\ Cardinality(places) = 2
            /\ turn[t].visibility # "private" => Cardinality(Occurs(t, Shared)) = 2

(* memory.py:15 "Manages a dedicated LTMemory instance for each family".   *)
OneInstance == Cardinality(instances) <= 1

(* README.md:76 "includes `user_stm` for the caller": the personal part of *)
(* a snapshot is the caller's own.                                         *)
SnapshotIsCallers ==
  \A u \in User : conv[Own(u)] # <<>> => SnapshotUser(u) = u

(* README.md:13 "user-private (never shared)": a turn the member wants     *)
(* kept private is not folded into the profile every member is shown.      *)
ProfileHasNoPrivate == \A t \in profile : turn[t].visibility # "private"
=============================================================================
