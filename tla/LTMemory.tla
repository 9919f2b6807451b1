------------------------------ MODULE LTMemory ------------------------------
(***************************************************************************)
(* LTMemory: the conversations of one account, the background thread that  *)
(* summarizes them into long-term memory and a profile, and the reload     *)
(* from the hub when an instance is built.                                 *)
(*                                                                         *)
(* A call of SqliteMemory.add is one step here (SqliteMemory shows that it *)
(* appends in one step), and the hub has what was added. A worker is an    *)
(* LTMemory instance with its thread. There is more than one when          *)
(* FamilyMemoryManager.get_or_create is entered twice.                     *)
(*                                                                         *)
(* Rows of a conversation are kept in the order of insertion. created_at   *)
(* has a resolution of one second; `tie` says that a row was written in    *)
(* the same second as the row before it. Answers of the language model are *)
(* taken to be more than a second apart. Ids are drawn in the order of the *)
(* uploads, so that the hub lists the files of a conversation by their ids.*)
(***************************************************************************)
EXTENDS Integers, Sequences, FiniteSets, SequencesExt

CONSTANTS
  Conv,         \* short-term conversations of the account
  Worker,       \* LTMemory instances
  StmsPerLtm,   \* stms_per_ltm (16 in the code)
  Preload,      \* the preload_from_hub argument
  MaxStm,       \* bound of the model: messages per conversation
  MaxFailures,  \* bound of the model: failing calls of the language model
  MaxRestarts   \* bound of the model: restarts of the process

ASSUME LTMemoryAssumption ==
  /\ StmsPerLtm \in Nat \ {0}
  /\ Preload \in BOOLEAN
  /\ MaxStm \in Nat /\ MaxFailures \in Nat /\ MaxRestarts \in Nat

VARIABLES
  stm,       \* the short-term rows of each conversation
  ltm,       \* the rows of membase_ltm_<conversation>
  profile,   \* the rows of membase_profile_<account>
  hub,       \* the files of the hub, by conversation
  drawn,     \* how many message ids each conversation has drawn
  worker,    \* the instances and where their threads are
  failures,
  restarts

vars == <<stm, ltm, profile, hub, drawn, worker, failures, restarts>>

Off == [pc |-> "off"]

(* The conversation ids of the store.                                      *)
Stm(c) == <<"stm", c>>
Ltm(c) == <<"ltm", c>>
Profile == <<"profile">>
Store == {Stm(c) : c \in Conv} \cup {Ltm(c) : c \in Conv} \cup {Profile}

-----------------------------------------------------------------------------
(* Tables.                                                                 *)

(* ORDER BY created_at DESC: the rows of one second come in the order of   *)
(* insertion, before those of every earlier second.                        *)
SecondOf(s, i) == Cardinality({j \in 1..i : ~s[j].tie})

Precedes(s, i, j) ==
  \/ SecondOf(s, i) > SecondOf(s, j)
  \/ SecondOf(s, i) = SecondOf(s, j) /\ i < j

(* LIMIT n: the places of the rows get returns for recent_n = n.           *)
Recent(s, n) ==
  {i \in DOMAIN s : Cardinality({j \in DOMAIN s : Precedes(s, j, i)}) < n}

Newest(s) == s[CHOOSE i \in Recent(s, 1) : TRUE]

LatestIndex(s) == IF s = <<>> THEN -1 ELSE Newest(s).idx

NextIndex(s) ==
  CHOOSE n \in {0} \cup {s[i].idx + 1 : i \in DOMAIN s} :
    \A i \in DOMAIN s : s[i].idx < n

(* Removing rows; the first row left of a second opens it.                 *)
Remaining(s, gone) ==
  LET kept == {i \in DOMAIN s : i \notin gone}
      opens(i) == \E j \in 1..i : /\ ~s[j].tie
                                  /\ \A h \in j..(i - 1) : h \in gone
                                  /\ \A h \in (j + 1)..i : s[h].tie
      t == [i \in DOMAIN s |-> [s[i] EXCEPT !.tie = ~opens(i)]]
  IN [n \in 1..Cardinality(kept) |->
        t[CHOOSE i \in kept : Cardinality({j \in kept : j <= i}) = n]]

(* Mutant of Added: INSERT OR IGNORE.                                      *)
AddedOnce(s, id, body, tie) ==
  IF \E i \in DOMAIN s : s[i].id = id THEN s
  ELSE Append(s, [id |-> id, idx |-> NextIndex(s),
                  tie |-> tie /\ s # <<>>, body |-> body])

(* add: MAX(memory_index) + 1 over the rows as they are, then INSERT OR    *)
(* REPLACE, which drops the row of the same id and adds a new one.         *)
Added(s, id, body, tie) ==
  LET rest == Remaining(s, {i \in DOMAIN s : s[i].id = id})
  IN Append(rest, [id |-> id, idx |-> NextIndex(s),
                   tie |-> tie /\ rest # <<>>, body |-> body])

(* The upload of a message: the file is named by conversation and index.   *)
Uploaded(files, id, idx, body) ==
  {f \in files : f.idx # idx} \cup {[id |-> id, idx |-> idx, body |-> body]}

Listed(files) == {f.id : f \in files}

FileOf(files, id) == CHOOSE f \in files : f.id = id

(* load_from_hub: every file of the conversation is added again; last is   *)
(* the last id drawn. The adds fall into one second, or each into its own. *)
Reloaded(s, files, last, fast) ==
  LET rows[n \in 0..last] ==
        IF n = 0 THEN s
        ELSE IF n \in Listed(files)
        THEN Added(rows[n - 1], n, FileOf(files, n).body,
                   fast /\ \E m \in Listed(files) : m < n)
        ELSE rows[n - 1]
  IN  rows[last]

(* The summarizer's view of a conversation.                                *)
NextLtm(c) == LatestIndex(ltm[c]) + 1

(* Mutant of Due: the newest batch counts before it is complete.           *)
DueEarly(c) == LatestIndex(stm[c]) \div StmsPerLtm >= NextLtm(c) /\ stm[c] # <<>>

Due(c) == LatestIndex(stm[c]) \div StmsPerLtm > NextLtm(c)

InBatch(idx, k) == k * StmsPerLtm <= idx /\ idx <= k * StmsPerLtm + StmsPerLtm - 1

BatchRows(c) == {i \in DOMAIN stm[c] : InBatch(stm[c][i].idx, NextLtm(c))}

Batch(c) == {stm[c][i].id : i \in BatchRows(c)}

-----------------------------------------------------------------------------
Init ==
  /\ stm = [c \in Conv |-> <<>>]
  /\ ltm = [c \in Conv |-> <<>>]
  /\ profile = <<>>
  /\ hub = [x \in Store |-> {}]
  /\ drawn = [x \in Store |-> 0]
  /\ worker = [w \in Worker |-> Off]
  /\ failures = 0
  /\ restarts = 0

(* An id for a new message of conversation x, stored and uploaded.         *)
Draw(x, rows, body) ==
  /\ drawn' = [drawn EXCEPT ![x] = @ + 1]
  /\ hub' = [hub EXCEPT ![x] = Uploaded(@, drawn[x] + 1, NextIndex(rows), body)]

AllReloaded(rows, x, fast) == Reloaded(rows, hub[x], drawn[x], fast)

(* LTMemory(...): the store is opened, the conversations are reloaded from *)
(* the hub (the profile always, the others under preload_from_hub), and    *)
(* the thread starts its first round.                                      *)
Create(w) ==
  /\ worker[w].pc = "off"
  /\ \E fast \in BOOLEAN :
       /\ stm' = IF Preload THEN [c \in Conv |-> AllReloaded(stm[c], Stm(c), fast)] ELSE stm
       /\ ltm' = IF Preload THEN [c \in Conv |-> AllReloaded(ltm[c], Ltm(c), fast)] ELSE ltm
       /\ profile' = AllReloaded(profile, Profile, fast)
  /\ worker' = [worker EXCEPT ![w] =
       LET known == {c \in Conv : stm'[c] # <<>>}
       IN [pc |-> "scan", known |-> known, todo |-> known]]
  /\ UNCHANGED <<hub, drawn, failures, restarts>>

(* A conversation the instance r did not know joins the list its thread    *)
(* goes through, in this round if one is on.                               *)
Joined(r, c) ==
  IF c \in r.known THEN r
  ELSE IF r.pc \in {"wait", "dead"} THEN [r EXCEPT !.known = @ \cup {c}]
  ELSE [r EXCEPT !.known = @ \cup {c}, !.todo = @ \cup {c}]

(* A message of the chat, through instance w.                              *)
Chat(w, c) ==
  /\ worker[w].pc # "off"
  /\ drawn[Stm(c)] < MaxStm
  /\ \E tie \in BOOLEAN : stm' = [stm EXCEPT ![c] = Added(@, drawn[Stm(c)] + 1, {}, tie)]
  /\ Draw(Stm(c), stm[c], {})
  /\ worker' = [worker EXCEPT ![w] = Joined(@, c)]
  /\ UNCHANGED <<ltm, profile, failures, restarts>>

(* One conversation of the round: nothing due, or too few rows.            *)
Skip(w, c) ==
  /\ worker[w].pc = "scan" /\ c \in worker[w].todo
  /\ ~(Due(c) /\ Cardinality(BatchRows(c)) >= StmsPerLtm)
  /\ worker' = [worker EXCEPT ![w].todo = @ \ {c}]
  /\ UNCHANGED <<stm, ltm, profile, hub, drawn, failures, restarts>>

(* Mutant of Take: the batch has no upper bound.                           *)
TakeOpenEnded(w, c) ==
  /\ worker[w].pc = "scan" /\ c \in worker[w].todo
  /\ Due(c) /\ Cardinality(BatchRows(c)) >= StmsPerLtm
  /\ worker' = [worker EXCEPT ![w] =
       [pc |-> "ltm", known |-> @.known, todo |-> @.todo \ {c}, conv |-> c,
        batch |-> {stm[c][i].id :
          i \in {j \in DOMAIN stm[c] : stm[c][j].idx >= NextLtm(c) * StmsPerLtm}}]]
  /\ UNCHANGED <<stm, ltm, profile, hub, drawn, failures, restarts>>

(* A batch is read and the language model is asked for a summary.          *)
Take(w, c) ==
  /\ worker[w].pc = "scan" /\ c \in worker[w].todo
  /\ Due(c) /\ Cardinality(BatchRows(c)) >= StmsPerLtm
  /\ worker' = [worker EXCEPT ![w] =
       [pc |-> "ltm", known |-> @.known, todo |-> @.todo \ {c},
        conv |-> c, batch |-> Batch(c)]]
  /\ UNCHANGED <<stm, ltm, profile, hub, drawn, failures, restarts>>

(* The profile the next call starts from.                                  *)
CurrentProfile == IF profile = <<>> THEN <<>> ELSE Newest(profile).body

AskProfile(w) ==
  [pc |-> "profile", known |-> worker[w].known, todo |-> worker[w].todo,
   conv |-> worker[w].conv, batch |-> worker[w].batch, prev |-> CurrentProfile]

(* Mutant of LtmAnswered: the summary is not stored.                       *)
LtmAnsweredUnstored(w) ==
  /\ worker[w].pc = "ltm"
  /\ worker' = [worker EXCEPT ![w] = AskProfile(w)]
  /\ UNCHANGED <<stm, ltm, profile, hub, drawn, failures, restarts>>

(* The summary arrives and is stored; then the previous profile is read    *)
(* and the language model is asked for the new one.                        *)
LtmAnswered(w) ==
  /\ worker[w].pc = "ltm"
  /\ LET c == worker[w].conv IN
       /\ ltm' = [ltm EXCEPT ![c] = Added(@, drawn[Ltm(c)] + 1, worker[w].batch, FALSE)]
       /\ Draw(Ltm(c), ltm[c], worker[w].batch)
  /\ worker' = [worker EXCEPT ![w] = AskProfile(w)]
  /\ UNCHANGED <<stm, profile, failures, restarts>>

(* Mutant of LtmRefused: an empty summary stands for the failed one.       *)
LtmRefusedEmpty(w) ==
  /\ worker[w].pc = "ltm"
  /\ failures < MaxFailures
  /\ failures' = failures + 1
  /\ LET c == worker[w].conv IN
       /\ ltm' = [ltm EXCEPT ![c] = Added(@, drawn[Ltm(c)] + 1, {}, FALSE)]
       /\ Draw(Ltm(c), ltm[c], {})
  /\ worker' = [worker EXCEPT ![w] = AskProfile(w)]
  /\ UNCHANGED <<stm, profile, restarts>>

(* llm_summarize_ltm catches the error and returns None, add stores        *)
(* nothing, and the profile is asked for all the same.                     *)
LtmRefused(w) ==
  /\ worker[w].pc = "ltm"
  /\ failures < MaxFailures
  /\ failures' = failures + 1
  /\ worker' = [worker EXCEPT ![w] = AskProfile(w)]
  /\ UNCHANGED <<stm, ltm, profile, hub, drawn, restarts>>

BackToScan(w) == [pc |-> "scan", known |-> worker[w].known, todo |-> worker[w].todo]

ProfileAnswered(w) ==
  /\ worker[w].pc = "profile"
  /\ LET body == Append(worker[w].prev, <<worker[w].conv, worker[w].batch>>) IN
       /\ profile' = Added(profile, drawn[Profile] + 1, body, FALSE)
       /\ Draw(Profile, profile, body)
  /\ worker' = [worker EXCEPT ![w] = BackToScan(w)]
  /\ UNCHANGED <<stm, ltm, failures, restarts>>

(* llm_summarize_profile raises: nothing catches it in the thread.         *)
ProfileRaises(w) ==
  /\ worker[w].pc = "profile"
  /\ failures < MaxFailures
  /\ failures' = failures + 1
  /\ worker' = [worker EXCEPT ![w] = [pc |-> "dead", known |-> @.known]]
  /\ UNCHANGED <<stm, ltm, profile, hub, drawn, restarts>>

(* The round ends and the thread waits for sixty seconds.                  *)
Rest(w) ==
  /\ worker[w].pc = "scan" /\ worker[w].todo = {}
  /\ worker' = [worker EXCEPT ![w].pc = "wait"]
  /\ UNCHANGED <<stm, ltm, profile, hub, drawn, failures, restarts>>

Wake(w) ==
  /\ worker[w].pc = "wait"
  /\ worker' = [worker EXCEPT ![w].pc = "scan", ![w].todo = worker[w].known]
  /\ UNCHANGED <<stm, ltm, profile, hub, drawn, failures, restarts>>

(* delete by index: the default type reaches the stm rows only.            *)
Delete(c) ==
  /\ \E i \in DOMAIN stm[c] :
       stm' = [stm EXCEPT ![c] = Remaining(@, {j \in DOMAIN @ : @[j].idx = @[i].idx})]
  /\ UNCHANGED <<ltm, profile, hub, drawn, worker, failures, restarts>>

(* clear of a short-term conversation leaves its summaries.                *)
Clear(c) ==
  /\ stm[c] # <<>>
  /\ stm' = [stm EXCEPT ![c] = <<>>]
  /\ UNCHANGED <<ltm, profile, hub, drawn, worker, failures, restarts>>

(* The process ends; the database and the hub stay.                        *)
Restart ==
  /\ restarts < MaxRestarts
  /\ \E w \in Worker : worker[w].pc # "off"
  /\ restarts' = restarts + 1
  /\ worker' = [w \in Worker |-> Off]
  /\ UNCHANGED <<stm, ltm, profile, hub, drawn, failures>>

-----------------------------------------------------------------------------
Round(w) ==
  \/ \E c \in Conv : Skip(w, c) \/ Take(w, c)
  \/ LtmAnswered(w)
  \/ ProfileAnswered(w)
  \/ Rest(w)
  \/ Wake(w)

(* One process that is never restarted and only adds; the language model   *)
(* answers every request.                                                  *)
SteadyNext == \E w \in Worker : Create(w) \/ (\E c \in Conv : Chat(w, c)) \/ Round(w)

(* The language model may refuse a summary.                                *)
RetryNext == SteadyNext \/ \E w \in Worker : LtmRefused(w)

(* It may also refuse a profile.                                           *)
FlakyNext == RetryNext \/ \E w \in Worker : ProfileRaises(w)

RestartNext == SteadyNext \/ Restart

Next == FlakyNext \/ Restart \/ \E c \in Conv : Delete(c) \/ Clear(c)

Fairness == \A w \in Worker : WF_vars(Round(w))

SteadySpec == Init /\ [][SteadyNext]_vars /\ Fairness
RetrySpec == Init /\ [][RetryNext]_vars /\ Fairness
FlakySpec == Init /\ [][FlakyNext]_vars /\ Fairness
RestartSpec == Init /\ [][RestartNext]_vars /\ Fairness
Spec == Init /\ [][Next]_vars

-----------------------------------------------------------------------------
Ids == 0..MaxStm
Files == [id : Nat, idx : Nat, body : SUBSET Ids]
Rows == [id : Nat, idx : Nat, tie : BOOLEAN, body : SUBSET Ids]
FoldedBatch == Conv \X SUBSET Ids

(* The first row of a table opens a second.                                *)
Opens(s) == s # <<>> => ~s[1].tie

TypeOK ==
  /\ \A c \in Conv : stm[c] \in Seq(Rows) /\ ltm[c] \in Seq(Rows)
  /\ \A i \in DOMAIN profile : profile[i].body \in Seq(FoldedBatch)
  /\ \A c \in Conv : hub[Stm(c)] \subseteq Files /\ hub[Ltm(c)] \subseteq Files
  /\ drawn \in [Store -> Nat]
  /\ \A w \in Worker :
       /\ worker[w].pc \in {"off", "scan", "wait", "ltm", "profile", "dead"}
       /\ worker[w].pc \in {"ltm", "profile"} =>
            worker[w].conv \in worker[w].known /\ worker[w].batch \subseteq Ids
  /\ \A c \in Conv : Opens(stm[c]) /\ Opens(ltm[c])
  /\ Opens(profile)

(* The k-th summary of a conversation covers exactly the messages with the *)
(* indexes k*16 to k*16+15: no turn is summarized twice and none is left   *)
(* out, whatever arrives while the language model works                    *)
(* (lt_memory.py:325-337).                                                 *)
SummaryCoversItsBatch ==
  \A c \in Conv : \A i \in DOMAIN ltm[c] :
    /\ ltm[c][i].idx = i - 1
    /\ ltm[c][i].body =
         {stm[c][j].id : j \in {h \in DOMAIN stm[c] : InBatch(stm[c][h].idx, i - 1)}}
    /\ Cardinality(ltm[c][i].body) = StmsPerLtm

(* When a batch is due its messages are all there: the branch of           *)
(* lt_memory.py:332-334 "theoretically does not happen".                   *)
NeverShort == \A c \in Conv : Due(c) => Cardinality(BatchRows(c)) >= StmsPerLtm

(* Whatever is deleted, cleared and reloaded from the hub, no message      *)
(* stands twice in a conversation, indexes grow along it, and a message    *)
(* that the hub has comes before every later one. (One the hub has lost,   *)
(* because its file was overwritten after a clear, may come before earlier *)
(* ones: a reload puts these behind it.) And the tables, the workers and   *)
(* what they hold keep their types (sqlite_memory.py:79-95,                *)
(* lt_memory.py:214-242).                                                  *)
HistoryInOrder ==
  /\ TypeOK
  /\ \A c \in Conv : \A i, j \in DOMAIN stm[c] :
       i < j => /\ stm[c][i].idx < stm[c][j].idx
                /\ stm[c][i].id # stm[c][j].id
                /\ stm[c][i].id \in Listed(hub[Stm(c)]) => stm[c][i].id < stm[c][j].id

(* recent_n = n gives the n messages written last: lt_memory.py:100        *)
(* "recent_n (Optional[int]): Number of recent memories to retrieve".      *)
RecentAreLatest ==
  \A c \in Conv : \A n \in 1..Len(stm[c]) :
    Recent(stm[c], n) = (Len(stm[c]) - n + 1)..Len(stm[c])

(* While no summary is refused, the profile in use has folded no batch     *)
(* twice: it is asked for once per batch (lt_memory.py:336-342).           *)
ProfileFoldsOnce ==
  failures = 0 =>
    \A i, j \in DOMAIN CurrentProfile : CurrentProfile[i] = CurrentProfile[j] => i = j

Summarized(c, id) == \E i \in DOMAIN ltm[c] : id \in ltm[c][i].body

BatchPassed(c, id) ==
  \E i \in DOMAIN stm[c] :
    /\ ~stm[c][i].tie
    /\ \E j \in DOMAIN stm[c] :
         stm[c][j].id = id /\ stm[c][j].idx \div StmsPerLtm < stm[c][i].idx \div StmsPerLtm

(* Every message of a full batch that a message of a later second follows  *)
(* gets into a summary: README.md:102 "LTMemory worker summarizes every 16 *)
(* STMs into LTM and refreshes the profile".                               *)
EveryTurnIsSummarized ==
  \A c \in Conv, id \in 1..MaxStm :
    (BatchPassed(c, id) /\ \E w \in Worker : worker[w].pc # "off") ~> Summarized(c, id)
=============================================================================
