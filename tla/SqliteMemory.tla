---------------------------- MODULE SqliteMemory ----------------------------
(***************************************************************************)
(* The message store of membase: SqliteMemory.add and the reads it makes,  *)
(* called by several threads of one process (the request threads of the    *)
(* web server and the summarizer thread of LTMemory), with the queue and   *)
(* the single upload thread of the hub client that add waits on.           *)
(*                                                                         *)
(* A thread's call is split where another thread can run in between: the   *)
(* SELECT MAX, the INSERT that opens the transaction and takes SQLite's    *)
(* one write lock, the write to the vector store, the commit, the wait for *)
(* the upload and the UPDATE of upload_status.                             *)
(*                                                                         *)
(* A member of Conv stands for one numbering scope: a pair of a            *)
(* conversation_id and a memory_type. The instance's list of the           *)
(* conversation ids it has seen is modelled in LTMemory.                   *)
(***************************************************************************)
EXTENDS Integers, Sequences, FiniteSets

CONSTANTS
  Thread,      \* threads that call the store
  Conv,        \* numbering scopes
  Msg,         \* message ids (uuid4: one id is never drawn twice)
  MaxBatch,    \* the longest list of messages one call adds
  MaxIndex,    \* bound of the model: no reload once this index is in use
  AutoUpload,  \* the auto_upload_to_hub argument of the constructor
  NoOne,       \* nobody holds the write lock / the upload thread is idle
  NoRow        \* no row with that id

ASSUME StoreAssumption ==
  /\ NoOne \notin Thread
  /\ MaxBatch \in Nat \ {0}
  /\ MaxIndex \in Nat
  /\ AutoUpload \in BOOLEAN
  /\ NoRow \notin [conv : Conv, idx : Nat, up : BOOLEAN]

ASSUME ThreadsAssumption == IsFiniteSet(Thread)

VARIABLES
  table,    \* the committed rows of the memories table, by primary key
  txn,      \* the rows as the holder of the write lock sees them
  writer,   \* the thread whose transaction holds the write lock
  rag,      \* the documents of the vector store
  call,     \* for each thread, the call it is in
  queue,    \* the upload queue of the hub client
  posting,  \* the task the upload thread is posting
  hub,      \* the files the hub has received
  fresh     \* the message ids that have not been drawn yet

vars == <<table, txn, writer, rag, call, queue, posting, hub, fresh>>

Row == [conv : Conv, idx : Nat, up : BOOLEAN]

Task == [thread : Thread, conv : Conv, idx : Nat, msg : Msg]

HubFile == [conv : Conv, idx : Nat, msg : Msg]

Idle == [pc |-> "idle"]

-----------------------------------------------------------------------------
(* Reading the table.                                                      *)

RowsOf(t, c) == {m \in Msg : t[m] # NoRow /\ t[m].conv = c}

Indexes(t, c) == {t[m].idx : m \in RowsOf(t, c)}

(* One more than the largest index in use, or 0.                           *)
NextIndex(t, c) ==
  CHOOSE n \in {0} \cup {i + 1 : i \in Indexes(t, c)} :
    \A i \in Indexes(t, c) : i < n

(* What a thread reads: its own open transaction, or the committed rows.   *)
Visible(t) == IF writer = t THEN txn ELSE table

(* A statement that writes needs the write lock.                           *)
LockFree(t) == writer \in {NoOne, t}

NoDuplicates(s) == \A i, j \in DOMAIN s : s[i] = s[j] => i = j

(* The indexes that running calls have read, used for the model's bound.   *)
IndexesInCalls == {call[t].idx : t \in {u \in Thread : call[u].pc # "idle"}}

Batch == {s \in UNION {[1..n -> Msg] : n \in 1..MaxBatch} : NoDuplicates(s)}

-----------------------------------------------------------------------------
Init ==
  /\ table = [m \in Msg |-> NoRow]
  /\ txn = table
  /\ writer = NoOne
  /\ rag = {}
  /\ call = [t \in Thread |-> Idle]
  /\ queue = <<>>
  /\ posting = NoOne
  /\ hub = {}
  /\ fresh = Msg

Begin(t, c, ms, fromHub) ==
  /\ call[t].pc = "idle"
  /\ call' = [call EXCEPT ![t] =
       [pc |-> "select", conv |-> c, todo |-> ms, idx |-> 0,
        sent |-> <<>>, upload |-> AutoUpload /\ ~fromHub]]
  /\ UNCHANGED <<table, txn, writer, rag, queue, posting, hub>>

(* add(conversation_id, memories) with messages just created.              *)
StartAdd(t, c) ==
  \E ms \in Batch :
    /\ \A i \in DOMAIN ms : ms[i] \in fresh
    /\ fresh' = fresh \ {ms[i] : i \in DOMAIN ms}
    /\ Begin(t, c, ms, FALSE)

(* add(conversation_id, msg, from_hub=True) of a message the hub returned. *)
StartReload(t, c) ==
  \E f \in hub :
    /\ f.conv = c
    /\ \A i \in Indexes(table, c) \cup IndexesInCalls : i < MaxIndex
    /\ Begin(t, c, <<f.msg>>, TRUE)
    /\ UNCHANGED fresh

(* Mutants of SelectMax: the read sees rows another thread has not         *)
(* committed; the read uses a connection of its own and misses the rows    *)
(* the call itself inserted.                                               *)
SelectMaxDirty(t) ==
  /\ call[t].pc = "select"
  /\ call' = [call EXCEPT ![t].pc = "insert",
                          ![t].idx = NextIndex(txn, call[t].conv)]
  /\ UNCHANGED <<table, txn, writer, rag, queue, posting, hub, fresh>>

SelectMaxOutside(t) ==
  /\ call[t].pc = "select"
  /\ call' = [call EXCEPT ![t].pc = "insert",
                          ![t].idx = NextIndex(table, call[t].conv)]
  /\ UNCHANGED <<table, txn, writer, rag, queue, posting, hub, fresh>>

(* SELECT MAX(memory_index): it opens no transaction of its own, so it     *)
(* reads the committed rows until the call's first INSERT.                 *)
SelectMax(t) ==
  /\ call[t].pc = "select"
  /\ call' = [call EXCEPT ![t].pc = "insert",
                          ![t].idx = NextIndex(Visible(t), call[t].conv)]
  /\ UNCHANGED <<table, txn, writer, rag, queue, posting, hub, fresh>>

(* Mutant of Insert: the primary key is the index instead of the id.       *)
InsertByIndex(t) ==
  LET c == call[t].conv
      same == {m \in RowsOf(Visible(t), c) : Visible(t)[m].idx = call[t].idx}
  IN
  /\ call[t].pc = "insert"
  /\ LockFree(t)
  /\ writer' = t
  /\ txn' = [m \in Msg |->
       IF m = Head(call[t].todo) THEN [conv |-> c, idx |-> call[t].idx, up |-> FALSE]
       ELSE IF m \in same THEN NoRow ELSE Visible(t)[m]]
  /\ call' = [call EXCEPT ![t].pc = "index"]
  /\ UNCHANGED <<table, rag, queue, posting, hub, fresh>>

(* INSERT OR REPLACE of the first message left, under the write lock.      *)
Insert(t) ==
  /\ call[t].pc = "insert"
  /\ LockFree(t)
  /\ writer' = t
  /\ txn' = [Visible(t) EXCEPT ![Head(call[t].todo)] =
       [conv |-> call[t].conv, idx |-> call[t].idx, up |-> FALSE]]
  /\ call' = [call EXCEPT ![t].pc = "index"]
  /\ UNCHANGED <<table, rag, queue, posting, hub, fresh>>

(* The vector store gets the document unless it has it; the message is     *)
(* noted for the upload loop.                                              *)
IndexDocument(t) ==
  LET m == Head(call[t].todo) IN
  /\ call[t].pc = "index"
  /\ rag' = rag \cup {m}
  /\ call' = [call EXCEPT
       ![t].todo = Tail(@),
       ![t].sent = Append(@, [msg |-> m, idx |-> call[t].idx]),
       ![t].pc = IF Len(call[t].todo) > 1 THEN "select" ELSE "commit"]
  /\ UNCHANGED <<table, txn, writer, queue, posting, hub, fresh>>

(* Mutant of IndexRaises: the exception is logged and the loop goes on.    *)
IndexRaisesIgnored(t) ==
  /\ call[t].pc = "index"
  /\ call' = [call EXCEPT
       ![t].todo = Tail(@),
       ![t].sent = Append(@, [msg |-> Head(call[t].todo), idx |-> call[t].idx]),
       ![t].pc = IF Len(call[t].todo) > 1 THEN "select" ELSE "commit"]
  /\ UNCHANGED <<table, txn, writer, rag, queue, posting, hub, fresh>>

(* The vector store raises: the exception leaves add, and closing the      *)
(* connection rolls the transaction back.                                  *)
IndexRaises(t) ==
  /\ call[t].pc = "index"
  /\ writer' = NoOne
  /\ txn' = table
  /\ call' = [call EXCEPT ![t] = Idle]
  /\ UNCHANGED <<table, rag, queue, posting, hub, fresh>>

Commit(t) ==
  /\ call[t].pc = "commit"
  /\ table' = txn
  /\ writer' = NoOne
  /\ call' = [call EXCEPT ![t] =
                IF call[t].upload THEN [call[t] EXCEPT !.pc = "upload"] ELSE Idle]
  /\ UNCHANGED <<txn, rag, queue, posting, hub, fresh>>

(* upload_hub queues the task and waits on an event of its own.            *)
QueueUpload(t) ==
  /\ call[t].pc = "upload"
  /\ queue' = Append(queue,
       [thread |-> t, conv |-> call[t].conv,
        idx |-> Head(call[t].sent).idx, msg |-> Head(call[t].sent).msg])
  /\ call' = [call EXCEPT ![t].pc = "wait"]
  /\ UNCHANGED <<table, txn, writer, rag, posting, hub, fresh>>

(* UPDATE ... SET upload_status=1 WHERE conversation_id, memory_index and  *)
(* memory_type match; the lock is kept until the loop's final commit.      *)
MarkUploaded(t) ==
  LET i == Head(call[t].sent).idx
      V == Visible(t)
      match == {m \in RowsOf(V, call[t].conv) : V[m].idx = i}
  IN
  /\ call[t].pc = "mark"
  /\ LockFree(t)
  /\ writer' = t
  /\ txn' = [m \in Msg |-> IF m \in match THEN [V[m] EXCEPT !.up = TRUE] ELSE V[m]]
  /\ call' = [call EXCEPT
       ![t].sent = Tail(@),
       ![t].pc = IF Len(call[t].sent) > 1 THEN "upload" ELSE "close"]
  /\ UNCHANGED <<table, rag, queue, posting, hub, fresh>>

CommitMarks(t) ==
  /\ call[t].pc = "close"
  /\ table' = txn
  /\ writer' = NoOne
  /\ call' = [call EXCEPT ![t] = Idle]
  /\ UNCHANGED <<txn, rag, queue, posting, hub, fresh>>

(* sqlite3 gives up on a busy lock after five seconds and raises.          *)
LockTimeout(t) ==
  /\ call[t].pc \in {"insert", "mark"}
  /\ ~LockFree(t)
  /\ call' = [call EXCEPT ![t] = Idle]
  /\ UNCHANGED <<table, txn, writer, rag, queue, posting, hub, fresh>>

-----------------------------------------------------------------------------
(* The upload thread of the hub client.                                    *)

(* Mutant of TakeTask: taking a task empties the queue.                    *)
TakeTaskOnly ==
  /\ posting = NoOne
  /\ queue # <<>>
  /\ posting' = Head(queue)
  /\ queue' = <<>>
  /\ UNCHANGED <<table, txn, writer, rag, call, hub, fresh>>

TakeTask ==
  /\ posting = NoOne
  /\ queue # <<>>
  /\ posting' = Head(queue)
  /\ queue' = Tail(queue)
  /\ UNCHANGED <<table, txn, writer, rag, call, hub, fresh>>

PostedFile == [conv |-> posting.conv, idx |-> posting.idx, msg |-> posting.msg]

(* The POST succeeds and the event wakes the caller.                       *)
PostSucceeds ==
  /\ posting # NoOne
  /\ hub' = hub \cup {PostedFile}
  /\ call' = [call EXCEPT ![posting.thread].pc = "mark"]
  /\ posting' = NoOne
  /\ UNCHANGED <<table, txn, writer, rag, queue, fresh>>

(* Mutant of PostFails: the event is set in a finally clause.              *)
PostFailsWakes ==
  /\ posting # NoOne
  /\ hub' \in {hub, hub \cup {PostedFile}}
  /\ call' = [call EXCEPT ![posting.thread].pc = "mark"]
  /\ posting' = NoOne
  /\ UNCHANGED <<table, txn, writer, rag, queue, fresh>>

(* The POST, or the reading of its answer, raises: it is logged, and the   *)
(* event is never set. The hub may have stored the file all the same.      *)
PostFails ==
  /\ posting # NoOne
  /\ hub' \in {hub, hub \cup {PostedFile}}
  /\ posting' = NoOne
  /\ UNCHANGED <<table, txn, writer, rag, call, queue, fresh>>

-----------------------------------------------------------------------------
(* DELETE by indexes and DELETE of a whole conversation, each one          *)
(* transaction; the vector store keeps its documents.                      *)
Remove(gone) ==
  /\ table' = [m \in Msg |-> IF m \in gone THEN NoRow ELSE table[m]]
  /\ txn' = table'
  /\ UNCHANGED <<writer, rag, call, queue, posting, hub, fresh>>

Delete(t, c) ==
  /\ call[t].pc = "idle"
  /\ writer = NoOne
  /\ \E I \in SUBSET Indexes(table, c) \ {{}} :
       Remove({m \in RowsOf(table, c) : table[m].idx \in I})

Clear(t, c) ==
  /\ call[t].pc = "idle"
  /\ writer = NoOne
  /\ RowsOf(table, c) # {}
  /\ Remove(RowsOf(table, c))

(* The process dies. SQLite rolls the open transaction back; the calls,    *)
(* the upload queue and the lock go with the process.                      *)
Crash ==
  /\ call # [t \in Thread |-> Idle]
  /\ txn' = table
  /\ writer' = NoOne
  /\ call' = [t \in Thread |-> Idle]
  /\ queue' = <<>>
  /\ posting' = NoOne
  /\ UNCHANGED <<table, rag, hub, fresh>>

-----------------------------------------------------------------------------
AddStep(t) ==
  \/ SelectMax(t)
  \/ Insert(t)
  \/ IndexDocument(t)
  \/ IndexRaises(t)
  \/ Commit(t)
  \/ QueueUpload(t)
  \/ MarkUploaded(t)
  \/ CommitMarks(t)
  \/ LockTimeout(t)

Uploader == TakeTask \/ PostSucceeds \/ PostFails

(* The traffic of a process that only adds: FamilyMemoryManager never      *)
(* deletes, and an LTMemory built without preload_from_hub reloads nothing *)
(* into its short-term conversations.                                      *)
AppendNext ==
  \/ \E t \in Thread : (\E c \in Conv : StartAdd(t, c)) \/ AddStep(t)
  \/ Uploader
  \/ Crash

Next ==
  \/ AppendNext
  \/ \E t \in Thread, c \in Conv : StartReload(t, c) \/ Delete(t, c) \/ Clear(t, c)

AppendSpec == Init /\ [][AppendNext]_vars

Spec == Init /\ [][Next]_vars

(* Calls and the upload thread in a process that keeps running.            *)
RunningNext == (\E t \in Thread : (\E c \in Conv : StartAdd(t, c)) \/ AddStep(t)) \/ Uploader

(* Every thread is scheduled, the upload thread too; nobody has to start a *)
(* call.                                                                   *)
RunningSpec ==
  /\ Init
  /\ [][RunningNext]_vars
  /\ \A t \in Thread : WF_vars(AddStep(t))
  /\ WF_vars(Uploader)

(* The same process while the hub answers every request.                   *)
HealthyNext ==
  \/ \E t \in Thread : (\E c \in Conv : StartAdd(t, c)) \/ AddStep(t)
  \/ TakeTask
  \/ PostSucceeds

HealthySpec ==
  /\ Init
  /\ [][HealthyNext]_vars
  /\ \A t \in Thread : WF_vars(AddStep(t))
  /\ WF_vars(TakeTask \/ PostSucceeds)

-----------------------------------------------------------------------------
Calling == [pc : {"select", "insert", "index", "commit", "upload", "wait", "mark", "close"},
            conv : Conv, todo : Seq(Msg), idx : Nat,
            sent : Seq([msg : Msg, idx : Nat]), upload : BOOLEAN]

(* The shape of the state, and the parts of a call that its place implies. *)
TypeOK ==
  /\ table \in [Msg -> Row \cup {NoRow}]
  /\ txn \in [Msg -> Row \cup {NoRow}]
  /\ writer \in Thread \cup {NoOne}
  /\ rag \subseteq Msg
  /\ call \in [Thread -> Calling \cup {Idle}]
  /\ queue \in Seq(Task)
  /\ posting \in Task \cup {NoOne}
  /\ hub \subseteq HubFile
  /\ fresh \subseteq Msg

(* The indexes of a conversation have no holes: below every index in use   *)
(* all indexes are in use, whatever the interleaving of the adders and     *)
(* wherever a call fails. The summarizer relies on it when it expects a    *)
(* full batch below the newest message (lt_memory.py:332-334).             *)
IndexContiguous ==
  \A c \in Conv : \A i \in Indexes(table, c) : 0..i \subseteq Indexes(table, c)

(* Two adders may read the same MAX(memory_index) before either commits,   *)
(* so an index can be taken more than once, but never by more rows than    *)
(* there are threads; with one writing thread indexes are unique.          *)
SharedIndexBound ==
  \A c \in Conv : \A i \in Indexes(table, c) :
    Cardinality({m \in RowsOf(table, c) : table[m].idx = i}) <= Cardinality(Thread)

(* Every committed message can be retrieved: the document is in the vector *)
(* store before the row is committed, through failures and crashes.        *)
RowsHaveDocuments == {m \in Msg : table[m] # NoRow} \subseteq rag

(* A row marked as uploaded names a file the hub has received.             *)
MarkedIsOnHub ==
  \A m \in Msg : table[m] # NoRow /\ table[m].up =>
    \E f \in hub : f.conv = table[m].conv /\ f.idx = table[m].idx

(* Without deletes and reloads a committed row is never lost, moved to     *)
(* another index or marked as not uploaded again by another thread's       *)
(* commit.                                                                 *)
CommittedStays ==
  [][\A m \in Msg : table[m] # NoRow =>
       /\ table'[m] # NoRow
       /\ table'[m].conv = table[m].conv
       /\ table'[m].idx = table[m].idx
       /\ table[m].up => table'[m].up]_vars

Log == INSTANCE MessageLog WITH log <- table

(* With its threads, its lock and its queue, the store behaves like a log  *)
(* whose batches are appended in one step (sqlite_memory.py:59-127).       *)
ImplementsLog == Log!Spec

(* Every call of add returns or raises: the waits for the write lock and   *)
(* for the upload end.                                                     *)
AddReturns == \A t \in Thread : call[t].pc # "idle" ~> call[t].pc = "idle"

-----------------------------------------------------------------------------
(* The invariants that the proofs in SqliteMemoryProofs show to be         *)
(* inductive: StoreInv for every process, AppendInv for one that only adds.*)

Adding == {"select", "insert", "index"}

Uploading == {"upload", "wait", "mark"}

CallShape ==
  \A t \in Thread :
    /\ call[t].pc \in Adding => call[t].todo # <<>>
    /\ call[t].pc \in Uploading \cup {"commit"} => call[t].sent # <<>>

(* The task of a thread that waits names what the thread uploads, and a    *)
(* thread has one task at most, queued or being posted.                    *)
TaskOf(t, k) ==
  /\ call[t].pc = "wait"
  /\ k.conv = call[t].conv
  /\ k.idx = Head(call[t].sent).idx

OneTask ==
  /\ \A i \in DOMAIN queue :
       /\ TaskOf(queue[i].thread, queue[i])
       /\ \A j \in DOMAIN queue : queue[i].thread = queue[j].thread => i = j
  /\ posting # NoOne =>
       /\ TaskOf(posting.thread, posting)
       /\ \A i \in DOMAIN queue : queue[i].thread # posting.thread

LockHeld ==
  /\ writer = NoOne => txn = table
  /\ \A t \in Thread : call[t].pc \in {"index", "commit", "close"} => writer = t

(* The open transaction has every committed row, at its index.             *)
TxnKeeps ==
  \A m \in Msg : table[m] # NoRow =>
    /\ txn[m] # NoRow
    /\ txn[m].conv = table[m].conv
    /\ txn[m].idx = table[m].idx
    /\ table[m].up => txn[m].up

(* The messages a call has yet to insert are in no transaction, and no two *)
(* calls have the same message.                                            *)
Unstored ==
  /\ \A m \in fresh : txn[m] = NoRow
  /\ \A t \in Thread : call[t].pc \in Adding =>
       /\ NoDuplicates(call[t].todo)
       /\ \A i \in DOMAIN call[t].todo :
            /\ call[t].todo[i] \notin fresh
            /\ (call[t].pc = "index" /\ i = 1) \/ txn[call[t].todo[i]] = NoRow
       /\ \A u \in Thread \ {t} : call[u].pc \in Adding =>
            \A i \in DOMAIN call[t].todo, j \in DOMAIN call[u].todo :
              call[t].todo[i] # call[u].todo[j]

(* The indexes in use are those below the next one.                        *)
Segment(T, c) ==
  /\ NextIndex(T, c) \in Nat
  /\ Indexes(T, c) = 0..(NextIndex(T, c) - 1)

Segments == \A c \in Conv : Segment(table, c) /\ Segment(txn, c)

(* The index a call has read may be taken by now, but leaves no hole.      *)
ReadIndex ==
  \A t \in Thread : call[t].pc = "insert" =>
    call[t].idx <= NextIndex(Visible(t), call[t].conv)

(* Only the message being indexed can lack its document.                   *)
Documents ==
  /\ \A m \in Msg : table[m] # NoRow => m \in rag
  /\ \A m \in Msg : txn[m] # NoRow =>
       m \in rag \/ \E t \in Thread : call[t].pc = "index" /\ m = Head(call[t].todo)

OnHub(c, i) == \E f \in hub : f.conv = c /\ f.idx = i

(* A call marks what the hub has received.                                 *)
MarksOnHub(T) == \A m \in Msg : T[m] # NoRow /\ T[m].up => OnHub(T[m].conv, T[m].idx)

Marks ==
  /\ MarksOnHub(table)
  /\ MarksOnHub(txn)
  /\ \A t \in Thread : call[t].pc = "mark" => OnHub(call[t].conv, Head(call[t].sent).idx)

(* The indexes in use have a maximum, and NextIndex is above it.           *)
Bounded(T) ==
  \A c \in Conv : NextIndex(T, c) \in Nat /\ \A i \in Indexes(T, c) : i < NextIndex(T, c)

(* What holds of every process, one that deletes and reloads included.     *)
StoreInv ==
  /\ TypeOK
  /\ CallShape
  /\ OneTask
  /\ LockHeld
  /\ Documents
  /\ Marks
  /\ Bounded(table)
  /\ Bounded(txn)

AppendInv ==
  /\ StoreInv
  /\ TxnKeeps
  /\ Unstored
  /\ Segments
  /\ ReadIndex
=============================================================================
