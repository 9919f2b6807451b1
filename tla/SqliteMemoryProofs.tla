------------------------- MODULE SqliteMemoryProofs -------------------------
(***************************************************************************)
(* Proofs about the message store, for any number of threads,              *)
(* conversations and messages. StoreInv is inductive for every process     *)
(* (Spec): types, documents and upload marks are right through deletes and *)
(* reloads. AppendInv is inductive for a process that only adds            *)
(* (AppendSpec), and the other properties of SqliteMemory that the runs    *)
(* check follow from it.                                                   *)
(*                                                                         *)
(* From "What a call has done to the table so far" on: such a store        *)
(* implements a log whose batches are appended in one step. The commit of  *)
(* a call is the append, the commit of its upload marks is the mark, and   *)
(* every other step of a thread, of the upload thread or of a crash leaves *)
(* the log as it is (sqlite_memory.py:59-127). And an index has no more    *)
(* rows than there are threads.                                            *)
(***************************************************************************)
EXTENDS SqliteMemory, FiniteSetTheorems, WellFoundedInduction, TLAPS

Rows == [Msg -> Row \cup {NoRow}]

-----------------------------------------------------------------------------
(* Facts about the table and the next index.                               *)

(* A set of numbers that is not empty has a least one.                     *)
LEMMA LeastNat ==
  ASSUME NEW T, T \subseteq Nat, T # {}
  PROVE  \E m \in T : \A k \in T : m <= k
<1>1. IsWellFoundedOn({ss \in Nat \X Nat : ss[1] < ss[2]}, Nat)
  BY NatLessThanWellFounded DEF OpToRel
<1>2. PICK m \in T : \A y \in T : ~ (<<y, m>> \in {ss \in Nat \X Nat : ss[1] < ss[2]})
  BY <1>1, WFMin
<1>3. ASSUME NEW y \in T
      PROVE  m <= y
  <2>1. y \in Nat /\ m \in Nat
    OBVIOUS
  <2>2. ~(y < m)
    BY <1>2, <2>1
  <2> QED BY <2>1, <2>2
<1> QED BY <1>3

(* The first element and the rest of a sequence that is not empty.         *)
LEMMA HeadAndTail ==
  ASSUME NEW S, NEW s \in Seq(S), s # <<>>
  PROVE  /\ Len(s) \in Nat /\ Len(s) >= 1 /\ DOMAIN s = 1..Len(s)
         /\ Head(s) \in S /\ Head(s) = s[1]
         /\ Tail(s) \in Seq(S) /\ Len(Tail(s)) = Len(s) - 1
         /\ \A i \in 1..(Len(s) - 1) : Tail(s)[i] = s[i + 1]
         /\ Len(s) > 1 => Tail(s) # <<>>
<1>1. Len(s) \in Nat /\ Len(s) >= 1 /\ DOMAIN s = 1..Len(s)
  OBVIOUS
<1>2. Head(s) \in S /\ Head(s) = s[1]
  BY <1>1
<1>3. Tail(s) \in Seq(S) /\ Len(Tail(s)) = Len(s) - 1
  BY <1>1
<1>4. \A i \in 1..(Len(s) - 1) : Tail(s)[i] = s[i + 1]
  BY <1>1
<1>5. Len(s) > 1 => Tail(s) # <<>>
  <2>1. Len(<<>>) = 0
    OBVIOUS
  <2>2. Tail(s) = <<>> => Len(s) - 1 = 0
    BY <1>3, <2>1
  <2> QED BY <1>1, <2>2
<1> QED BY <1>1, <1>2, <1>3, <1>4, <1>5

(* A sequence with an element added is a sequence and is not empty.        *)
LEMMA AppendIs ==
  ASSUME NEW S, NEW s \in Seq(S), NEW e \in S
  PROVE  Append(s, e) \in Seq(S) /\ Append(s, e) # <<>>
<1>1. Append(s, e) \in Seq(S) /\ Len(Append(s, e)) = Len(s) + 1 /\ Len(s) \in Nat
  OBVIOUS
<1>2. Len(<<>>) = 0
  OBVIOUS
<1> QED BY <1>1, <1>2

(* NoRow is no row.                                                        *)
LEMMA NoRowIsNoRow == NoRow \notin Row
BY StoreAssumption DEF Row

(* The indexes of a scope are the indexes of its rows.                     *)
LEMMA IndexesAre ==
  ASSUME NEW T \in Rows, NEW c \in Conv
  PROVE  /\ \A i : i \in Indexes(T, c) <=>
                \E m \in Msg : T[m] # NoRow /\ T[m].conv = c /\ T[m].idx = i
         /\ Indexes(T, c) \subseteq Nat
BY NoRowIsNoRow DEF Indexes, RowsOf, Rows, Row

(* SELECT MAX over a set of indexes without holes gives its size.          *)
LEMMA NextIndexIs ==
  ASSUME NEW T, NEW c, NEW n \in Nat, Indexes(T, c) = 0..(n - 1)
  PROVE  NextIndex(T, c) = n
<1> DEFINE P(k) == /\ k \in {0} \cup {i + 1 : i \in Indexes(T, c)}
                   /\ \A i \in Indexes(T, c) : i < k
<1>1. P(n)
  <2>1. CASE n = 0
    BY <2>1
  <2>2. CASE n # 0
    <3>1. n - 1 \in Indexes(T, c) /\ n = (n - 1) + 1
      BY <2>2
    <3> QED BY <3>1
  <2> QED BY <2>1, <2>2
<1>2. ASSUME NEW k, P(k) PROVE k = n
  <2>1. k \in Nat
    BY <1>2
  <2>2. k <= n
    BY <1>2
  <2>3. n <= k
    <3>1. CASE n = 0
      BY <2>1, <3>1
    <3>2. CASE n # 0
      <4>1. n - 1 \in Indexes(T, c)
        BY <3>2
      <4>2. n - 1 < k
        BY <1>2, <4>1
      <4> QED BY <2>1, <4>2
    <3> QED BY <3>1, <3>2
  <2> QED BY <2>1, <2>2, <2>3
<1>3. NextIndex(T, c) = CHOOSE k \in {0} \cup {i + 1 : i \in Indexes(T, c)} :
                          \A i \in Indexes(T, c) : i < k
  BY DEF NextIndex
<1> QED BY <1>1, <1>2, <1>3

(* An empty table has next index 0 everywhere.                             *)
LEMMA EmptySegment ==
  ASSUME NEW c \in Conv
  PROVE  Segment([m \in Msg |-> NoRow], c)
<1>1. Indexes([m \in Msg |-> NoRow], c) = 0..(0 - 1)
  BY DEF Indexes, RowsOf
<1>2. NextIndex([m \in Msg |-> NoRow], c) = 0
  BY <1>1, NextIndexIs
<1> QED BY <1>1, <1>2 DEF Segment

(* Tables that agree on which rows there are and on their scopes and       *)
(* indexes have the same indexes in use.                                   *)
LEMMA SameIndexes ==
  ASSUME NEW T \in Rows, NEW U \in Rows, NEW c \in Conv,
         \A m \in Msg : /\ T[m] = NoRow <=> U[m] = NoRow
                        /\ T[m] # NoRow => T[m].conv = U[m].conv /\ T[m].idx = U[m].idx
  PROVE  Indexes(U, c) = Indexes(T, c) /\ NextIndex(U, c) = NextIndex(T, c)
<1>1. \A i : i \in Indexes(U, c) <=> i \in Indexes(T, c)
  BY IndexesAre
<1>2. Indexes(U, c) = Indexes(T, c)
  BY <1>1
<1> QED BY <1>2 DEF NextIndex

(* Adding an index not above the next one leaves no hole.                  *)
LEMMA SegmentGrows ==
  ASSUME NEW T, NEW U, NEW c, Segment(T, c),
         NEW i \in Nat, i <= NextIndex(T, c),
         Indexes(U, c) = Indexes(T, c) \cup {i}
  PROVE  Segment(U, c) /\ NextIndex(T, c) <= NextIndex(U, c)
<1>1. PICK n \in Nat : n = NextIndex(T, c) /\ Indexes(T, c) = 0..(n - 1)
  BY DEF Segment
<1>2. CASE i < n
  <2>1. Indexes(U, c) = 0..(n - 1)
    BY <1>1, <1>2
  <2>2. NextIndex(U, c) = n
    BY <2>1, NextIndexIs
  <2> QED BY <1>1, <2>1, <2>2 DEF Segment
<1>3. CASE i = n
  <2>1. 0..((n + 1) - 1) = 0..(n - 1) \cup {n}
    OBVIOUS
  <2>2. Indexes(U, c) = 0..((n + 1) - 1)
    BY <1>1, <1>3, <2>1
  <2>3. NextIndex(U, c) = n + 1
    BY <2>2, NextIndexIs
  <2> QED BY <1>1, <2>2, <2>3 DEF Segment
<1> QED BY <1>1, <1>2, <1>3

(* Inserting a row that is not there at an index not above the next one    *)
(* leaves no hole, and no next index gets smaller.                         *)
LEMMA InsertRow ==
  ASSUME NEW T \in Rows, NEW U \in Rows, NEW m \in Msg, T[m] = NoRow,
         NEW c \in Conv, NEW i \in Nat, i <= NextIndex(T, c),
         U[m] # NoRow, U[m].conv = c, U[m].idx = i,
         \A x \in Msg : x # m => U[x] = T[x],
         \A d \in Conv : Segment(T, d)
  PROVE  \A d \in Conv : Segment(U, d) /\ NextIndex(T, d) <= NextIndex(U, d)
<1> SUFFICES ASSUME NEW d \in Conv
             PROVE  Segment(U, d) /\ NextIndex(T, d) <= NextIndex(U, d)
  OBVIOUS
<1>1. \A k : k \in Indexes(U, d) <=> k \in Indexes(T, d) \/ (d = c /\ k = i)
  <2>1. \A k : k \in Indexes(T, d) <=>
          \E x \in Msg : T[x] # NoRow /\ T[x].conv = d /\ T[x].idx = k
    BY IndexesAre
  <2>2. \A k : k \in Indexes(U, d) <=>
          \E x \in Msg : U[x] # NoRow /\ U[x].conv = d /\ U[x].idx = k
    BY IndexesAre
  <2> QED BY <2>1, <2>2
<1>2. CASE d = c
  <2>1. Indexes(U, d) = Indexes(T, d) \cup {i}
    BY <1>1, <1>2
  <2> QED BY <1>2, <2>1, SegmentGrows
<1>3. CASE d # c
  <2>1. Indexes(U, d) = Indexes(T, d)
    BY <1>1, <1>3
  <2>2. NextIndex(U, d) = NextIndex(T, d)
    BY <2>1 DEF NextIndex
  <2> QED BY <2>1, <2>2 DEF Segment
<1> QED BY <1>2, <1>3

-----------------------------------------------------------------------------
(* What holds of every process, one that deletes and reloads included: one *)
(* lemma for each action.                                                  *)

(* A thread in a call has the record of a call.                            *)
LEMMA CallIs ==
  ASSUME TypeOK, NEW t \in Thread, call[t].pc # "idle"
  PROVE  /\ call[t] \in Calling
         /\ call[t].conv \in Conv /\ call[t].todo \in Seq(Msg) /\ call[t].idx \in Nat
         /\ call[t].sent \in Seq([msg : Msg, idx : Nat])
<1>1. call[t] \in Calling
  BY DEF TypeOK, Idle
<1> QED BY <1>1 DEF Calling

(* The threads of the tasks are threads.                                   *)
LEMMA TasksAre ==
  ASSUME TypeOK
  PROVE  /\ \A i \in DOMAIN queue : queue[i] \in Task /\ queue[i].thread \in Thread
         /\ posting # NoOne => posting \in Task /\ posting.thread \in Thread
<1>1. \A i \in DOMAIN queue : queue[i] \in Task
  BY DEF TypeOK
<1> QED BY <1>1 DEF TypeOK, Task

(* A set of indexes with a bound has a maximum: SELECT MAX has a value.    *)
LEMMA NextIndexBounds ==
  ASSUME NEW T \in Rows, NEW c \in Conv, NEW n \in Nat, \A i \in Indexes(T, c) : i < n
  PROVE  NextIndex(T, c) \in Nat /\ \A i \in Indexes(T, c) : i < NextIndex(T, c)
<1> DEFINE N == {0} \cup {i + 1 : i \in Indexes(T, c)}
           B == {k \in Nat : \A i \in Indexes(T, c) : i < k}
<1>1. Indexes(T, c) \subseteq Nat /\ N \subseteq Nat
  BY IndexesAre
<1>2. PICK k \in B : \A l \in B : k <= l
  <2>1. B \subseteq Nat /\ n \in B
    OBVIOUS
  <2> HIDE DEF B
  <2> QED BY <2>1, LeastNat
<1>3. k \in N
  <2>1. CASE k = 0
    BY <2>1
  <2>2. CASE k # 0
    <3>1. k - 1 \in Nat /\ k - 1 \notin B
      BY <1>2, <2>2
    <3>2. PICK i \in Indexes(T, c) : ~(i < k - 1)
      BY <3>1
    <3>3. i + 1 = k
      BY <1>1, <1>2, <3>2
    <3> QED BY <3>3
  <2> QED BY <2>1, <2>2
<1>4. NextIndex(T, c) = CHOOSE l \in N : \A i \in Indexes(T, c) : i < l
  BY DEF NextIndex
<1> HIDE DEF N
<1>5. NextIndex(T, c) \in N /\ \A i \in Indexes(T, c) : i < NextIndex(T, c)
  BY <1>2, <1>3, <1>4
<1> QED BY <1>1, <1>5

(* A table with no index that another has not is bounded like that one.    *)
LEMMA FewerIndexes ==
  ASSUME NEW T \in Rows, NEW U \in Rows, Bounded(T),
         \A c \in Conv : Indexes(U, c) \subseteq Indexes(T, c)
  PROVE  Bounded(U)
BY NextIndexBounds DEF Bounded

(* A row more leaves a table bounded.                                      *)
LEMMA OneMoreIndex ==
  ASSUME NEW T \in Rows, NEW m \in Msg, NEW r \in Row, Bounded(T)
  PROVE  Bounded([T EXCEPT ![m] = r])
<1>1. PICK U \in Rows : U = [T EXCEPT ![m] = r]
  BY DEF Rows
<1>2. U[m] = r /\ \A x \in Msg : x # m => U[x] = T[x]
  BY <1>1 DEF Rows
<1>3. r.idx \in Nat /\ r.conv \in Conv
  BY DEF Row
<1>4. ASSUME NEW c \in Conv
      PROVE  NextIndex(U, c) \in Nat /\ \A i \in Indexes(U, c) : i < NextIndex(U, c)
  <2>1. \A i \in Indexes(U, c) : i \in Nat /\ (i \in Indexes(T, c) \/ i = r.idx)
    BY <1>2, IndexesAre
  <2>2. PICK n \in Nat : \A i \in Indexes(T, c) : i < n
    BY DEF Bounded
  <2>3. PICK k \in Nat : k >= n /\ k > r.idx
    <3>1. CASE n > r.idx
      BY <3>1
    <3>2. CASE ~(n > r.idx)
      <4>1. r.idx + 1 \in Nat /\ r.idx + 1 >= n /\ r.idx + 1 > r.idx
        BY <1>3, <3>2
      <4> QED BY <4>1
    <3> QED BY <3>1, <3>2
  <2>4. \A i \in Indexes(U, c) : i < k
    BY <1>3, <2>1, <2>2, <2>3
  <2> QED BY <2>4, NextIndexBounds
<1> QED BY <1>1, <1>4 DEF Bounded

(* The tables of the store.                                                *)
LEMMA TablesAre ==
  ASSUME StoreInv, NEW t \in Thread
  PROVE  /\ table \in Rows /\ txn \in Rows /\ Visible(t) \in Rows
         /\ LockFree(t) => Visible(t) = txn
         /\ \A c \in Conv : NextIndex(Visible(t), c) \in Nat
BY DEF StoreInv, TypeOK, Rows, Visible, LockFree, LockHeld, Bounded

(* A call that goes from one place to another where it has no task, holds  *)
(* no lock and has nothing to mark leaves the store sound.                 *)
LEMMA CallMoves ==
  ASSUME StoreInv, NEW t \in Thread, NEW new \in Calling \cup {Idle},
         call[t].pc \in {"idle", "select", "insert", "mark"},
         new.pc \in {"idle", "select", "insert"},
         new.pc \in Adding => new.todo # <<>>,
         call' = [call EXCEPT ![t] = new],
         UNCHANGED <<table, txn, writer, rag, queue, posting, hub>>,
         fresh' \subseteq fresh
  PROVE  StoreInv'
<1>1. call'[t] = new /\ \A u \in Thread \ {t} : call'[u] = call[u]
  BY DEF StoreInv, TypeOK
<1>2. TypeOK'
  BY DEF StoreInv, TypeOK
<1>3. CallShape' /\ LockHeld'
  BY <1>1 DEF StoreInv, CallShape, LockHeld, Adding, Uploading
<1>4. OneTask'
  BY <1>1, TasksAre DEF StoreInv, OneTask, TaskOf
<1>5. Documents' /\ Marks'
  BY <1>1 DEF StoreInv, Documents, Marks, MarksOnHub, OnHub
<1>6. Bounded(table)' /\ Bounded(txn)'
  BY DEF StoreInv, Bounded
<1> QED BY <1>2, <1>3, <1>4, <1>5, <1>6 DEF StoreInv

LEMMA StartAddIsSound ==
  ASSUME StoreInv, NEW t \in Thread, NEW c \in Conv, StartAdd(t, c)
  PROVE  StoreInv'
<1>1. PICK ms \in Batch :
        /\ fresh' \subseteq fresh
        /\ Begin(t, c, ms, FALSE)
  BY DEF StartAdd
<1>2. ms \in Seq(Msg) /\ ms # <<>>
  <2>1. PICK n \in 1..MaxBatch : ms \in [1..n -> Msg]
    BY DEF Batch
  <2> QED BY <2>1, StoreAssumption
<1>3. PICK new : new = [pc |-> "select", conv |-> c, todo |-> ms, idx |-> 0,
                        sent |-> <<>>, upload |-> AutoUpload /\ ~FALSE]
  OBVIOUS
<1>4. new \in Calling /\ new.pc = "select" /\ new.todo # <<>>
  BY <1>2, <1>3, StoreAssumption DEF Calling
<1>5. /\ call[t].pc = "idle" /\ call' = [call EXCEPT ![t] = new]
      /\ UNCHANGED <<table, txn, writer, rag, queue, posting, hub>>
  BY <1>1, <1>3 DEF Begin
<1> QED BY <1>1, <1>4, <1>5, CallMoves

(* A reload adds one message that the hub has returned.                    *)
LEMMA StartReloadIsSound ==
  ASSUME StoreInv, NEW t \in Thread, NEW c \in Conv, StartReload(t, c)
  PROVE  StoreInv'
<1>1. PICK f \in hub : Begin(t, c, <<f.msg>>, TRUE) /\ fresh' = fresh
  BY DEF StartReload
<1>2. f.msg \in Msg
  BY DEF StoreInv, TypeOK, HubFile
<1>3. PICK ms : ms = <<f.msg>>
  OBVIOUS
<1>4. PICK new : new = [pc |-> "select", conv |-> c, todo |-> ms, idx |-> 0,
                        sent |-> <<>>, upload |-> AutoUpload /\ ~TRUE]
  OBVIOUS
<1>5. ms \in Seq(Msg) /\ ms # <<>>
  <2>1. ms \in Seq(Msg)
    BY <1>2, <1>3
  <2>2. Len(ms) = 1
    BY <1>2, <1>3
  <2>3. Len(<<>>) # 1
    OBVIOUS
  <2> QED BY <2>1, <2>2, <2>3, Zenon
<1>6. new \in Calling /\ new.pc = "select" /\ new.todo # <<>>
  BY <1>4, <1>5, StoreAssumption DEF Calling
<1>7. /\ call[t].pc = "idle" /\ call' = [call EXCEPT ![t] = new]
      /\ UNCHANGED <<table, txn, writer, rag, queue, posting, hub>>
  BY <1>1, <1>3, <1>4 DEF Begin
<1> QED BY <1>1, <1>6, <1>7, CallMoves

LEMMA SelectMaxIsSound ==
  ASSUME StoreInv, NEW t \in Thread, SelectMax(t)
  PROVE  StoreInv'
<1>1. /\ call[t].pc = "select" /\ call[t] \in Calling /\ call[t].conv \in Conv
      /\ call[t].todo # <<>>
  BY CallIs DEF StoreInv, SelectMax, CallShape, Adding
<1>2. PICK n \in Nat : n = NextIndex(Visible(t), call[t].conv)
  BY <1>1, TablesAre
<1>3. PICK new : new = [call[t] EXCEPT !.pc = "insert", !.idx = n]
  OBVIOUS
<1>4. new \in Calling /\ new.pc = "insert" /\ new.todo # <<>>
  BY <1>1, <1>3 DEF Calling
<1>5. /\ call' = [call EXCEPT ![t] = new]
      /\ UNCHANGED <<table, txn, writer, rag, queue, posting, hub, fresh>>
  BY <1>2, <1>3 DEF SelectMax, StoreInv, TypeOK
<1> QED BY <1>1, <1>4, <1>5, CallMoves

LEMMA LockTimeoutIsSound ==
  ASSUME StoreInv, NEW t \in Thread, LockTimeout(t)
  PROVE  StoreInv'
<1>1. /\ call[t].pc \in {"insert", "mark"} /\ call' = [call EXCEPT ![t] = Idle]
      /\ UNCHANGED <<table, txn, writer, rag, queue, posting, hub, fresh>>
  BY DEF LockTimeout
<1>2. Idle.pc = "idle" /\ Idle.pc \notin Adding
  BY DEF Idle, Adding
<1> QED BY <1>1, <1>2, CallMoves

LEMMA InsertIsSound ==
  ASSUME StoreInv, NEW t \in Thread, Insert(t)
  PROVE  StoreInv'
<1>1. /\ call[t].pc = "insert" /\ call[t] \in Calling
      /\ call[t].conv \in Conv /\ call[t].idx \in Nat
      /\ call[t].todo # <<>> /\ call[t].todo \in Seq(Msg)
  BY CallIs DEF Insert, StoreInv, CallShape, Adding
<1>2. PICK m \in Msg : m = Head(call[t].todo)
  BY <1>1, HeadAndTail
<1>3. PICK row \in Row : row = [conv |-> call[t].conv, idx |-> call[t].idx, up |-> FALSE]
  BY <1>1 DEF Row
<1>4. row # NoRow /\ row.up = FALSE
  BY <1>3, NoRowIsNoRow
<1>5. PICK new : new = [call[t] EXCEPT !.pc = "index"]
  OBVIOUS
<1>6. new \in Calling /\ new.pc = "index" /\ new.todo = call[t].todo
  BY <1>1, <1>5 DEF Calling
<1>7. /\ writer \in {NoOne, t} /\ writer' = t /\ txn' = [txn EXCEPT ![m] = row]
      /\ call' = [call EXCEPT ![t] = new]
      /\ UNCHANGED <<table, rag, queue, posting, hub, fresh>>
  BY <1>2, <1>3, <1>5, TablesAre DEF Insert, LockFree, StoreInv, TypeOK
<1>8. call'[t] = new /\ \A u \in Thread \ {t} : call'[u] = call[u]
  BY <1>7 DEF StoreInv, TypeOK
<1>9. txn' \in Rows /\ txn'[m] = row /\ \A x \in Msg : x # m => txn'[x] = txn[x]
  BY <1>7, TablesAre DEF Rows
<1>10. TypeOK'
  BY <1>6, <1>7, <1>9 DEF StoreInv, TypeOK, Rows
<1>11. CallShape' /\ OneTask'
  BY <1>1, <1>6, <1>7, <1>8, TasksAre
     DEF StoreInv, CallShape, Adding, Uploading, OneTask, TaskOf
<1>12. LockHeld'
  <2>1. \A u \in Thread : u # NoOne
    BY StoreAssumption
  <2> QED BY <1>6, <1>7, <1>8, <2>1 DEF StoreInv, LockHeld
<1>13. Documents'
  BY <1>1, <1>2, <1>6, <1>7, <1>8, <1>9 DEF StoreInv, Documents
<1>14. Marks'
  BY <1>4, <1>6, <1>7, <1>8, <1>9 DEF StoreInv, Marks, MarksOnHub, OnHub
<1>15. Bounded(table)' /\ Bounded(txn)'
  <2>1. Bounded(txn)'
    BY <1>7, OneMoreIndex, TablesAre DEF StoreInv
  <2> QED BY <1>7, <2>1 DEF StoreInv, Bounded
<1> QED BY <1>10, <1>11, <1>12, <1>13, <1>14, <1>15 DEF StoreInv

(* The document is in the vector store before the row can be committed.    *)
LEMMA IndexDocumentIsSound ==
  ASSUME StoreInv, NEW t \in Thread, IndexDocument(t)
  PROVE  StoreInv'
<1>1. /\ call[t].pc = "index" /\ call[t] \in Calling /\ call[t].idx \in Nat
      /\ call[t].todo # <<>> /\ call[t].todo \in Seq(Msg)
      /\ call[t].sent \in Seq([msg : Msg, idx : Nat])
  BY CallIs DEF IndexDocument, StoreInv, CallShape, Adding
<1>2. PICK m \in Msg : m = Head(call[t].todo)
  BY <1>1, HeadAndTail
<1>3. PICK rest \in Seq(Msg) :
        rest = Tail(call[t].todo) /\ (Len(call[t].todo) > 1 => rest # <<>>)
  BY <1>1, HeadAndTail
<1>4. PICK sent \in Seq([msg : Msg, idx : Nat]) :
        sent = Append(call[t].sent, [msg |-> m, idx |-> call[t].idx]) /\ sent # <<>>
  <2>1. [msg |-> m, idx |-> call[t].idx] \in [msg : Msg, idx : Nat]
    BY <1>1
  <2> QED BY <1>1, <2>1, AppendIs
<1>5. PICK p : p = IF Len(call[t].todo) > 1 THEN "select" ELSE "commit"
  OBVIOUS
<1>6. PICK new : new = [call[t] EXCEPT !.todo = rest, !.sent = sent, !.pc = p]
  OBVIOUS
<1>7. /\ new \in Calling /\ new.sent # <<>>
      /\ new.pc \in {"select", "commit"} /\ (new.pc = "select" => new.todo # <<>>)
  BY <1>1, <1>3, <1>4, <1>5, <1>6 DEF Calling
<1>8. /\ rag' = rag \cup {m} /\ call' = [call EXCEPT ![t] = new]
      /\ UNCHANGED <<table, txn, writer, queue, posting, hub, fresh>>
  BY <1>2, <1>3, <1>4, <1>5, <1>6 DEF IndexDocument, StoreInv, TypeOK
<1>9. call'[t] = new /\ \A u \in Thread \ {t} : call'[u] = call[u]
  BY <1>8 DEF StoreInv, TypeOK
<1>10. TypeOK'
  BY <1>7, <1>8 DEF StoreInv, TypeOK
<1>11. CallShape' /\ LockHeld'
  BY <1>1, <1>7, <1>8, <1>9 DEF StoreInv, CallShape, Adding, Uploading, LockHeld
<1>12. OneTask'
  BY <1>1, <1>8, <1>9, TasksAre DEF StoreInv, OneTask, TaskOf
<1>13. Documents'
  <2> SUFFICES ASSUME NEW x \in Msg, txn[x] # NoRow, x \notin rag'
               PROVE  \E u \in Thread : call'[u].pc = "index" /\ x = Head(call'[u].todo)
    BY <1>8 DEF StoreInv, Documents
  <2>1. PICK u \in Thread : call[u].pc = "index" /\ x = Head(call[u].todo)
    BY <1>8 DEF StoreInv, Documents
  <2>2. u # t
    BY <1>2, <1>8, <2>1
  <2> QED BY <1>9, <2>1, <2>2
<1>14. Marks'
  BY <1>7, <1>8, <1>9 DEF StoreInv, Marks, MarksOnHub, OnHub
<1>15. Bounded(table)' /\ Bounded(txn)'
  BY <1>8 DEF StoreInv, Bounded
<1> QED BY <1>10, <1>11, <1>12, <1>13, <1>14, <1>15 DEF StoreInv

(* A rollback leaves the committed rows.                                   *)
LEMMA RollbackIsSound ==
  ASSUME StoreInv, NEW t \in Thread, IndexRaises(t)
  PROVE  StoreInv'
<1>1. /\ call[t].pc = "index" /\ writer = t
      /\ UNCHANGED <<table, rag, queue, posting, hub, fresh>>
      /\ writer' = NoOne /\ txn' = table
      /\ call'[t] = Idle /\ call'[t].pc = "idle"
      /\ \A u \in Thread \ {t} : call'[u] = call[u]
  BY DEF IndexRaises, StoreInv, TypeOK, Idle, LockHeld
<1>2. TypeOK'
  BY <1>1 DEF IndexRaises, StoreInv, TypeOK
<1>3. CallShape' /\ OneTask'
  BY <1>1, TasksAre DEF StoreInv, CallShape, Adding, Uploading, OneTask, TaskOf
<1>4. LockHeld'
  BY <1>1, StoreAssumption DEF StoreInv, LockHeld
<1>5. Documents' /\ Marks'
  BY <1>1 DEF StoreInv, Documents, Marks, MarksOnHub, OnHub
<1>6. Bounded(table)' /\ Bounded(txn)'
  BY <1>1 DEF StoreInv, Bounded
<1> QED BY <1>2, <1>3, <1>4, <1>5, <1>6 DEF StoreInv

(* A commit publishes what the transaction holds; only its own thread      *)
(* could be behind the row it indexes.                                     *)
LEMMA CommitsAreSound ==
  ASSUME StoreInv, NEW t \in Thread, Commit(t) \/ CommitMarks(t)
  PROVE  StoreInv'
<1>1. call[t].pc \in {"commit", "close"} /\ writer = t /\ call[t] \in Calling
  BY CallIs DEF Commit, CommitMarks, StoreInv, LockHeld
<1>2. PICK up : up = [call[t] EXCEPT !.pc = "upload"]
  OBVIOUS
<1>3. up \in Calling /\ up.pc = "upload" /\ (call[t].pc = "commit" => up.sent # <<>>)
  BY <1>1, <1>2 DEF StoreInv, CallShape, Calling
<1>4. PICK new \in Calling \cup {Idle} :
        /\ call' = [call EXCEPT ![t] = new]
        /\ new = Idle \/ (new = up /\ call[t].pc = "commit")
  BY <1>2, <1>3 DEF Commit, CommitMarks
<1>5. new.pc \in {"idle", "upload"} /\ (new.pc = "upload" => new.sent # <<>>)
  BY <1>3, <1>4 DEF Idle
<1>6. /\ table' = txn /\ writer' = NoOne
      /\ UNCHANGED <<txn, rag, queue, posting, hub, fresh>>
  BY DEF Commit, CommitMarks
<1>7. call'[t] = new /\ \A u \in Thread \ {t} : call'[u] = call[u]
  BY <1>4 DEF StoreInv, TypeOK
<1>8. TypeOK'
  BY <1>4, <1>6 DEF StoreInv, TypeOK
<1>9. CallShape' /\ OneTask'
  BY <1>1, <1>5, <1>6, <1>7, TasksAre
     DEF StoreInv, CallShape, Adding, Uploading, OneTask, TaskOf
<1>10. LockHeld'
  BY <1>1, <1>5, <1>6, <1>7, StoreAssumption DEF StoreInv, LockHeld
<1>11. Documents'
  BY <1>1, <1>5, <1>6, <1>7 DEF StoreInv, Documents, LockHeld
<1>12. Marks'
  BY <1>5, <1>6, <1>7 DEF StoreInv, Marks, MarksOnHub, OnHub
<1>13. Bounded(table)' /\ Bounded(txn)'
  BY <1>6 DEF StoreInv, Bounded
<1> QED BY <1>8, <1>9, <1>10, <1>11, <1>12, <1>13 DEF StoreInv

(* The thread queues a task where none of its own is under way.            *)
LEMMA QueueUploadIsSound ==
  ASSUME StoreInv, NEW t \in Thread, QueueUpload(t)
  PROVE  StoreInv'
<1>1. /\ call[t].pc = "upload" /\ call[t] \in Calling /\ call[t].sent # <<>>
      /\ call[t].sent \in Seq([msg : Msg, idx : Nat])
  BY CallIs DEF StoreInv, QueueUpload, CallShape, Uploading
<1>2. Head(call[t].sent) \in [msg : Msg, idx : Nat]
  BY <1>1, HeadAndTail
<1>3. PICK k \in Task : k = [thread |-> t, conv |-> call[t].conv,
                             idx |-> Head(call[t].sent).idx, msg |-> Head(call[t].sent).msg]
  BY <1>1, <1>2 DEF Task, Calling
<1>4. k.thread = t /\ k.conv = call[t].conv /\ k.idx = Head(call[t].sent).idx
  BY <1>3
<1>5. PICK new : new = [call[t] EXCEPT !.pc = "wait"]
  OBVIOUS
<1>6. /\ new \in Calling /\ new.pc = "wait" /\ new.conv = call[t].conv
      /\ new.sent = call[t].sent
  BY <1>1, <1>5 DEF Calling
<1>7. /\ queue' = Append(queue, k) /\ call' = [call EXCEPT ![t] = new]
      /\ UNCHANGED <<table, txn, writer, rag, posting, hub, fresh>>
  BY <1>3, <1>5 DEF QueueUpload, StoreInv, TypeOK
<1>8. call'[t] = new /\ \A u \in Thread \ {t} : call'[u] = call[u]
  BY <1>7 DEF StoreInv, TypeOK
<1>9. TypeOK'
  BY <1>6, <1>7 DEF StoreInv, TypeOK
<1>10. CallShape' /\ LockHeld'
  BY <1>1, <1>6, <1>7, <1>8 DEF StoreInv, CallShape, Adding, Uploading, LockHeld
<1>11. OneTask'
  <2>1. /\ DOMAIN queue' = 1..(Len(queue) + 1) /\ DOMAIN queue = 1..Len(queue)
        /\ Len(queue) \in Nat
        /\ queue'[Len(queue) + 1] = k
        /\ \A i \in 1..Len(queue) : queue'[i] = queue[i]
    BY <1>7 DEF StoreInv, TypeOK
  <2>2. /\ \A i \in 1..Len(queue) : queue[i].thread \in Thread \ {t}
        /\ posting # NoOne => posting.thread \in Thread \ {t}
    BY <1>1, <2>1, TasksAre DEF StoreInv, OneTask, TaskOf
  <2>3. \A i \in DOMAIN queue' :
         /\ call'[queue'[i].thread].pc = "wait"
         /\ queue'[i].conv = call'[queue'[i].thread].conv
         /\ queue'[i].idx = Head(call'[queue'[i].thread].sent).idx
    BY <1>4, <1>6, <1>8, <2>1, <2>2 DEF StoreInv, OneTask, TaskOf
  <2>4. \A i, j \in DOMAIN queue' : queue'[i].thread = queue'[j].thread => i = j
    BY <1>4, <2>1, <2>2 DEF StoreInv, OneTask
  <2>5. posting' # NoOne =>
         /\ call'[posting'.thread].pc = "wait"
         /\ posting'.conv = call'[posting'.thread].conv
         /\ posting'.idx = Head(call'[posting'.thread].sent).idx
         /\ \A i \in DOMAIN queue' : queue'[i].thread # posting'.thread
    BY <1>4, <1>7, <1>8, <2>1, <2>2 DEF StoreInv, OneTask, TaskOf
  <2> QED BY <2>3, <2>4, <2>5 DEF OneTask, TaskOf
<1>12. Documents' /\ Marks'
  BY <1>1, <1>6, <1>7, <1>8 DEF StoreInv, Documents, Marks, MarksOnHub, OnHub
<1>13. Bounded(table)' /\ Bounded(txn)'
  BY <1>7 DEF StoreInv, Bounded
<1> QED BY <1>9, <1>10, <1>11, <1>12, <1>13 DEF StoreInv

(* The UPDATE touches the rows at an index whose file the hub has, and     *)
(* neither moves nor removes a row.                                        *)
LEMMA UpdateMarks ==
  ASSUME StoreInv, NEW t \in Thread, MarkUploaded(t), NEW m \in Msg
  PROVE  /\ txn'[m] \in Row \cup {NoRow}
         /\ txn[m] = NoRow <=> txn'[m] = NoRow
         /\ txn[m] # NoRow =>
              /\ txn'[m].conv = txn[m].conv /\ txn'[m].idx = txn[m].idx
              /\ txn[m].up => txn'[m].up
              /\ txn'[m].up => OnHub(txn[m].conv, txn[m].idx)
<1>1. PICK c, i : c = call[t].conv /\ i = Head(call[t].sent).idx
  OBVIOUS
<1>2. OnHub(c, i)
  BY <1>1 DEF MarkUploaded, StoreInv, Marks
<1>3. txn'[m] = IF m \in {x \in RowsOf(txn, c) : txn[x].idx = i}
                THEN [txn[m] EXCEPT !.up = TRUE] ELSE txn[m]
  BY <1>1, TablesAre DEF MarkUploaded
<1>4. txn[m] # NoRow => txn[m] \in Row
  BY TablesAre DEF Rows
<1>5. CASE txn[m] # NoRow /\ txn[m].conv = c /\ txn[m].idx = i
  <2>1. txn'[m] = [txn[m] EXCEPT !.up = TRUE] /\ txn[m] \in Row
    BY <1>3, <1>4, <1>5 DEF RowsOf
  <2>2. /\ txn'[m] \in Row /\ txn'[m].conv = txn[m].conv
        /\ txn'[m].idx = txn[m].idx /\ txn'[m].up = TRUE
    BY <2>1 DEF Row
  <2> QED BY <1>2, <1>5, <2>2, NoRowIsNoRow
<1>6. CASE ~(txn[m] # NoRow /\ txn[m].conv = c /\ txn[m].idx = i)
  <2>1. txn'[m] = txn[m]
    BY <1>3, <1>6 DEF RowsOf
  <2> QED BY <1>4, <2>1 DEF StoreInv, Marks, MarksOnHub
<1> QED BY <1>5, <1>6

LEMMA MarkUploadedIsSound ==
  ASSUME StoreInv, NEW t \in Thread, MarkUploaded(t)
  PROVE  StoreInv'
<1>1. /\ call[t].pc = "mark" /\ call[t] \in Calling /\ call[t].sent # <<>>
      /\ call[t].sent \in Seq([msg : Msg, idx : Nat])
  BY CallIs DEF MarkUploaded, StoreInv, CallShape, Uploading
<1>2. PICK rest \in Seq([msg : Msg, idx : Nat]) :
        rest = Tail(call[t].sent) /\ (Len(call[t].sent) > 1 => rest # <<>>)
  BY <1>1, HeadAndTail
<1>3. PICK p : p = IF Len(call[t].sent) > 1 THEN "upload" ELSE "close"
  OBVIOUS
<1>4. PICK new : new = [call[t] EXCEPT !.sent = rest, !.pc = p]
  OBVIOUS
<1>5. /\ new \in Calling /\ new.pc \in {"upload", "close"}
      /\ new.pc = "upload" => new.sent # <<>>
  BY <1>1, <1>2, <1>3, <1>4 DEF Calling
<1>6. /\ writer \in {NoOne, t} /\ writer' = t /\ call' = [call EXCEPT ![t] = new]
      /\ UNCHANGED <<table, rag, queue, posting, hub, fresh>>
  BY <1>2, <1>3, <1>4 DEF MarkUploaded, LockFree, StoreInv, TypeOK
<1>7. call'[t] = new /\ \A u \in Thread \ {t} : call'[u] = call[u]
  BY <1>6 DEF StoreInv, TypeOK
<1>8. txn' \in Rows
  <2>1. \A m \in Msg : txn'[m] \in Row \cup {NoRow}
    BY UpdateMarks
  <2>2. txn' = [m \in Msg |-> txn'[m]]
    BY DEF MarkUploaded
  <2> QED BY <2>1, <2>2 DEF Rows
<1>9. TypeOK'
  BY <1>5, <1>6, <1>8 DEF StoreInv, TypeOK, Rows
<1>10. CallShape' /\ OneTask'
  BY <1>1, <1>5, <1>6, <1>7, TasksAre
     DEF StoreInv, CallShape, Adding, Uploading, OneTask, TaskOf
<1>11. LockHeld'
  <2>1. \A u \in Thread : u # NoOne
    BY StoreAssumption
  <2> QED BY <1>5, <1>6, <1>7, <2>1 DEF StoreInv, LockHeld
<1>12. Documents'
  <2>1. \A m \in Msg : txn'[m] # NoRow => txn[m] # NoRow
    BY UpdateMarks
  <2> QED BY <1>1, <1>6, <1>7, <2>1 DEF StoreInv, Documents
<1>13. Marks'
  <2>1. \A m \in Msg : txn'[m] # NoRow /\ txn'[m].up => OnHub(txn'[m].conv, txn'[m].idx)
    BY UpdateMarks
  <2>2. \A u \in Thread : call'[u].pc = "mark" => call'[u] = call[u]
    BY <1>5, <1>7
  <2> QED BY <1>6, <2>1, <2>2 DEF StoreInv, Marks, MarksOnHub, OnHub
<1>14. Bounded(table)' /\ Bounded(txn)'
  <2>1. \A c \in Conv : Indexes(txn', c) = Indexes(txn, c)
    BY <1>8, TablesAre, UpdateMarks, SameIndexes
  <2>2. Bounded(txn)'
    BY <1>8, <2>1, TablesAre, FewerIndexes DEF StoreInv
  <2> QED BY <1>6, <2>2 DEF StoreInv, Bounded
<1> QED BY <1>9, <1>10, <1>11, <1>12, <1>13, <1>14 DEF StoreInv

LEMMA TakeTaskIsSound ==
  ASSUME StoreInv, TakeTask
  PROVE  StoreInv'
<1>1. /\ posting = NoOne /\ queue # <<>> /\ queue \in Seq(Task)
      /\ posting' = Head(queue) /\ queue' = Tail(queue)
      /\ UNCHANGED <<table, txn, writer, rag, call, hub, fresh>>
  BY DEF TakeTask, StoreInv, TypeOK
<1>2. /\ posting' \in Task /\ posting' = queue[1] /\ 1 \in DOMAIN queue
      /\ queue' \in Seq(Task)
      /\ \A i \in DOMAIN queue' :
           i \in Nat /\ i + 1 \in DOMAIN queue \ {1} /\ queue'[i] = queue[i + 1]
  <2>1. /\ Head(queue) \in Task /\ Head(queue) = queue[1] /\ 1 \in DOMAIN queue
        /\ Tail(queue) \in Seq(Task)
        /\ Len(queue) \in Nat /\ DOMAIN queue = 1..Len(queue)
        /\ DOMAIN Tail(queue) = 1..(Len(queue) - 1)
        /\ \A i \in 1..(Len(queue) - 1) : Tail(queue)[i] = queue[i + 1]
    BY <1>1, HeadAndTail
  <2> QED BY <1>1, <2>1
<1>3. TypeOK'
  BY <1>1, <1>2 DEF StoreInv, TypeOK
<1>4. CallShape' /\ LockHeld' /\ Documents' /\ Marks'
  BY <1>1 DEF StoreInv, CallShape, LockHeld, Documents, Marks, MarksOnHub, OnHub
<1>5. OneTask'
  <2>1. \A i \in DOMAIN queue' : TaskOf(queue'[i].thread, queue'[i])
    BY <1>2 DEF StoreInv, OneTask
  <2>2. ASSUME NEW i \in DOMAIN queue', NEW j \in DOMAIN queue',
               queue'[i].thread = queue'[j].thread
        PROVE  i = j
    <3>1. i + 1 = j + 1
      BY <1>2, <2>2 DEF StoreInv, OneTask
    <3> QED BY <1>2, <3>1
  <2>3. TaskOf(posting'.thread, posting')
    BY <1>2 DEF StoreInv, OneTask
  <2>4. \A i \in DOMAIN queue' : queue'[i].thread # posting'.thread
    BY <1>2 DEF StoreInv, OneTask
  <2> QED BY <1>1, <2>1, <2>2, <2>3, <2>4 DEF OneTask, TaskOf
<1>6. Bounded(table)' /\ Bounded(txn)'
  BY <1>1 DEF StoreInv, Bounded
<1> QED BY <1>3, <1>4, <1>5, <1>6 DEF StoreInv

(* The event wakes the one call whose file the hub has stored.             *)
LEMMA PostSucceedsIsSound ==
  ASSUME StoreInv, PostSucceeds
  PROVE  StoreInv'
<1>1. PICK t \in Thread : t = posting.thread
  BY TasksAre DEF PostSucceeds, StoreInv
<1>2. /\ posting # NoOne /\ posting \in Task
      /\ call[t].pc = "wait" /\ posting.conv = call[t].conv
      /\ posting.idx = Head(call[t].sent).idx
      /\ \A i \in DOMAIN queue : queue[i].thread # t
  BY <1>1, TasksAre DEF PostSucceeds, StoreInv, OneTask, TaskOf
<1>3. call[t] \in Calling /\ call[t].sent # <<>>
  BY <1>2, CallIs DEF StoreInv, CallShape, Uploading
<1>4. PICK f \in HubFile :
        f = PostedFile /\ f.conv = call[t].conv /\ f.idx = Head(call[t].sent).idx
  <2>1. PICK g : g = PostedFile
    OBVIOUS
  <2>2. g \in HubFile /\ g.conv = call[t].conv /\ g.idx = Head(call[t].sent).idx
    BY <1>2, <2>1 DEF PostedFile, HubFile, Task
  <2> QED BY <2>1, <2>2
<1>5. PICK new : new = [call[t] EXCEPT !.pc = "mark"]
  OBVIOUS
<1>6. /\ new \in Calling /\ new.pc = "mark" /\ new.conv = call[t].conv
      /\ new.sent = call[t].sent
  BY <1>3, <1>5 DEF Calling
<1>7. /\ hub' = hub \cup {f} /\ posting' = NoOne /\ call' = [call EXCEPT ![t] = new]
      /\ UNCHANGED <<table, txn, writer, rag, queue, fresh>>
  BY <1>1, <1>4, <1>5 DEF PostSucceeds, StoreInv, TypeOK
<1>8. call'[t] = new /\ \A u \in Thread \ {t} : call'[u] = call[u]
  BY <1>7 DEF StoreInv, TypeOK
<1>9. TypeOK'
  BY <1>6, <1>7 DEF StoreInv, TypeOK
<1>10. CallShape' /\ LockHeld'
  BY <1>2, <1>3, <1>6, <1>7, <1>8 DEF StoreInv, CallShape, Adding, Uploading, LockHeld
<1>11. OneTask'
  BY <1>2, <1>7, <1>8, TasksAre DEF StoreInv, OneTask, TaskOf
<1>12. Documents'
  BY <1>2, <1>6, <1>7, <1>8 DEF StoreInv, Documents
<1>13. Marks'
  <2>1. \A c, i : OnHub(c, i) => OnHub(c, i)'
    BY <1>7 DEF OnHub
  <2>2. OnHub(new.conv, Head(new.sent).idx)'
    BY <1>4, <1>6, <1>7 DEF OnHub
  <2>3. MarksOnHub(table)' /\ MarksOnHub(txn)'
    BY <1>7, <2>1 DEF StoreInv, Marks, MarksOnHub
  <2>4. ASSUME NEW u \in Thread, call'[u].pc = "mark"
        PROVE  OnHub(call[u].conv, Head(call[u].sent).idx)'
    <3>1. CASE u = t
      BY <1>8, <2>2, <3>1
    <3>2. CASE u # t
      BY <1>8, <2>1, <2>4, <3>2 DEF StoreInv, Marks
    <3> QED BY <3>1, <3>2
  <2> QED BY <2>3, <2>4 DEF Marks
<1>14. Bounded(table)' /\ Bounded(txn)'
  BY <1>7 DEF StoreInv, Bounded
<1> QED BY <1>9, <1>10, <1>11, <1>12, <1>13, <1>14 DEF StoreInv

LEMMA PostFailsIsSound ==
  ASSUME StoreInv, PostFails
  PROVE  StoreInv'
<1>1. /\ posting # NoOne /\ posting \in Task /\ posting' = NoOne
      /\ hub \subseteq hub' /\ hub' \subseteq hub \cup {PostedFile}
      /\ UNCHANGED <<table, txn, writer, rag, call, queue, fresh>>
  BY DEF PostFails, StoreInv, TypeOK
<1>2. PostedFile \in HubFile
  BY <1>1 DEF PostedFile, HubFile, Task
<1>3. TypeOK'
  BY <1>1, <1>2 DEF StoreInv, TypeOK
<1>4. CallShape' /\ LockHeld' /\ Documents' /\ Marks'
  BY <1>1 DEF StoreInv, CallShape, LockHeld, Documents, Marks, MarksOnHub, OnHub
<1>5. OneTask'
  BY <1>1 DEF StoreInv, OneTask, TaskOf
<1>6. Bounded(table)' /\ Bounded(txn)'
  BY <1>1 DEF StoreInv, Bounded
<1> QED BY <1>3, <1>4, <1>5, <1>6 DEF StoreInv

(* A delete takes rows away and leaves the vector store and the hub as     *)
(* they are; nobody is in a transaction meanwhile.                         *)
LEMMA RemoveIsSound ==
  ASSUME StoreInv, NEW gone, writer = NoOne, Remove(gone)
  PROVE  StoreInv'
<1>1. /\ table' = [m \in Msg |-> IF m \in gone THEN NoRow ELSE table[m]]
      /\ txn' = table'
      /\ UNCHANGED <<writer, rag, call, queue, posting, hub, fresh>>
  BY DEF Remove
<1>2. table' \in Rows /\ txn' \in Rows /\ table \in Rows
  BY <1>1 DEF StoreInv, TypeOK, Rows
<1>3. \A m \in Msg : table'[m] # NoRow => table[m] # NoRow /\ table'[m] = table[m]
  BY <1>1
<1>4. TypeOK'
  BY <1>1, <1>2 DEF StoreInv, TypeOK, Rows
<1>5. CallShape' /\ OneTask' /\ LockHeld'
  BY <1>1 DEF StoreInv, CallShape, OneTask, TaskOf, LockHeld
<1>6. Documents' /\ Marks'
  BY <1>1, <1>3 DEF StoreInv, Documents, Marks, MarksOnHub, OnHub
<1>7. Bounded(table)' /\ Bounded(txn)'
  <2>1. \A c \in Conv : Indexes(table', c) \subseteq Indexes(table, c)
    BY <1>2, <1>3, IndexesAre
  <2>2. PICK U \in Rows : U = table' /\ U = txn'
    BY <1>1, <1>2
  <2>3. Bounded(U)
    BY <1>2, <2>1, <2>2, FewerIndexes DEF StoreInv
  <2> QED BY <2>2, <2>3 DEF Bounded
<1> QED BY <1>4, <1>5, <1>6, <1>7 DEF StoreInv

LEMMA DeleteIsSound ==
  ASSUME StoreInv, NEW t \in Thread, NEW c \in Conv, Delete(t, c) \/ Clear(t, c)
  PROVE  StoreInv'
<1>1. PICK gone : writer = NoOne /\ Remove(gone)
  BY DEF Delete, Clear
<1> QED BY <1>1, RemoveIsSound

(* A crash leaves the committed rows, with nobody in a call.               *)
LEMMA CrashIsSound ==
  ASSUME StoreInv, Crash
  PROVE  StoreInv'
<1>1. /\ UNCHANGED <<table, rag, hub, fresh>>
      /\ writer' = NoOne /\ txn' = table /\ queue' = <<>> /\ posting' = NoOne
      /\ call' = [u \in Thread |-> Idle]
      /\ \A u \in Thread : call'[u].pc = "idle"
  BY DEF Crash, Idle
<1>2. TypeOK'
  BY <1>1 DEF StoreInv, TypeOK
<1>3. CallShape' /\ OneTask' /\ LockHeld'
  BY <1>1 DEF CallShape, Adding, Uploading, OneTask, LockHeld
<1>4. Documents' /\ Marks'
  BY <1>1 DEF StoreInv, Documents, Marks, MarksOnHub, OnHub
<1>5. Bounded(table)' /\ Bounded(txn)'
  BY <1>1 DEF StoreInv, Bounded
<1> QED BY <1>2, <1>3, <1>4, <1>5 DEF StoreInv

(* No step of a process breaks StoreInv.                                   *)
LEMMA StoreStep ==
  ASSUME StoreInv, [Next]_vars
  PROVE  StoreInv'
<1>1. CASE UNCHANGED vars
  BY <1>1 DEF vars, StoreInv, TypeOK, CallShape, OneTask, TaskOf, LockHeld, Documents,
     Marks, MarksOnHub, OnHub, Bounded
<1>2. ASSUME NEW t \in Thread, NEW c \in Conv,
             StartAdd(t, c) \/ StartReload(t, c) \/ Delete(t, c) \/ Clear(t, c)
      PROVE  StoreInv'
  BY <1>2, StartAddIsSound, StartReloadIsSound, DeleteIsSound
<1>3. ASSUME NEW t \in Thread, AddStep(t)
      PROVE  StoreInv'
  BY <1>3, SelectMaxIsSound, InsertIsSound, IndexDocumentIsSound, RollbackIsSound,
     CommitsAreSound, QueueUploadIsSound, MarkUploadedIsSound, LockTimeoutIsSound DEF AddStep
<1>4. CASE Uploader
  BY <1>4, TakeTaskIsSound, PostSucceedsIsSound, PostFailsIsSound DEF Uploader
<1>5. CASE Crash
  BY <1>5, CrashIsSound
<1> QED BY <1>1, <1>2, <1>3, <1>4, <1>5 DEF Next, AppendNext

LEMMA StoreInit ==
  ASSUME Init
  PROVE  StoreInv
<1>1. \A t \in Thread : call[t] = Idle /\ call[t].pc = "idle"
  BY DEF Init, Idle
<1>2. TypeOK
  BY DEF Init, TypeOK
<1>3. CallShape /\ OneTask /\ LockHeld
  BY <1>1 DEF Init, CallShape, Adding, Uploading, OneTask, LockHeld
<1>4. Documents /\ Marks
  BY <1>1 DEF Init, Documents, Marks, MarksOnHub
<1>5. Bounded(table) /\ Bounded(txn)
  <2>1. table \in Rows /\ txn = table /\ \A c \in Conv : Indexes(table, c) = {}
    BY DEF Init, Rows, Indexes, RowsOf
  <2>2. \A c \in Conv : \A i \in Indexes(table, c) : i < 0
    BY <2>1
  <2> QED BY <2>1, <2>2, NextIndexBounds DEF Bounded
<1> QED BY <1>2, <1>3, <1>4, <1>5 DEF StoreInv

(* StoreInv holds of every process, whatever it adds, deletes and reloads. *)
THEOREM StoreInvHolds == Spec => []StoreInv
<1>1. Init => StoreInv
  BY StoreInit
<1>2. StoreInv /\ [Next]_vars => StoreInv'
  BY StoreStep
<1> QED BY <1>1, <1>2, PTL DEF Spec

-----------------------------------------------------------------------------
(* What holds besides of a process that only adds: one lemma for each      *)
(* action that writes a row or reads an index.                             *)

(* What a thread sees of its own transaction or of the committed rows is a *)
(* table without holes.                                                    *)
LEMMA VisibleIs ==
  ASSUME AppendInv, NEW t \in Thread
  PROVE  /\ Visible(t) \in Rows
         /\ \A c \in Conv : Segment(Visible(t), c)
         /\ LockFree(t) => Visible(t) = txn
BY DEF AppendInv, StoreInv, TypeOK, Segments, Visible, LockFree, LockHeld, Rows

(* No next index of the open transaction is below the committed one.       *)
LEMMA TxnIsAhead ==
  ASSUME AppendInv, NEW c \in Conv
  PROVE  NextIndex(table, c) <= NextIndex(txn, c)
<1>1. table \in Rows /\ txn \in Rows
  BY DEF AppendInv, StoreInv, TypeOK, Rows
<1>2. PICK a \in Nat, b \in Nat :
        /\ a = NextIndex(table, c) /\ Indexes(table, c) = 0..(a - 1)
        /\ b = NextIndex(txn, c) /\ Indexes(txn, c) = 0..(b - 1)
  BY DEF AppendInv, Segments, Segment
<1>3. Indexes(table, c) \subseteq Indexes(txn, c)
  BY <1>1, IndexesAre DEF AppendInv, TxnKeeps
<1>4. a = 0 \/ a - 1 \in 0..(a - 1)
  OBVIOUS
<1>5. a = 0 \/ a - 1 \in 0..(b - 1)
  BY <1>2, <1>3, <1>4
<1> QED BY <1>2, <1>5

(* SELECT MAX reads an index that leaves no hole at that moment.           *)
LEMMA SelectMaxKeeps ==
  ASSUME AppendInv, NEW t \in Thread, SelectMax(t)
  PROVE  TxnKeeps' /\ Unstored' /\ Segments' /\ ReadIndex'
<1> DEFINE n == NextIndex(Visible(t), call[t].conv)
<1>1. call[t] \in Calling /\ call[t].conv \in Conv /\ call[t].pc = "select"
  BY CallIs DEF AppendInv, StoreInv, SelectMax
<1>2. n \in Nat
  BY <1>1, VisibleIs DEF Segment
<1>3. /\ call' = [call EXCEPT ![t] = [call[t] EXCEPT !.pc = "insert", !.idx = n]]
      /\ UNCHANGED <<table, txn, writer, rag, queue, posting, hub, fresh>>
  BY <1>1 DEF SelectMax, AppendInv, StoreInv, TypeOK
<1> HIDE DEF n
<1>4. [call[t] EXCEPT !.pc = "insert", !.idx = n] \in Calling
  BY <1>1, <1>2 DEF Calling
<1>5. /\ call'[t] \in Calling /\ call'[t].pc = "insert" /\ call'[t].idx = n
      /\ call'[t].conv = call[t].conv /\ call'[t].todo = call[t].todo
      /\ call'[t].sent = call[t].sent
      /\ \A u \in Thread \ {t} : call'[u] = call[u]
  BY <1>1, <1>3, <1>4 DEF AppendInv, StoreInv, TypeOK, Calling
<1>6. UNCHANGED <<table, txn, writer, rag, queue, posting, hub, fresh>>
  BY <1>3
<1>7. TxnKeeps' /\ Segments'
  BY <1>6 DEF AppendInv, TxnKeeps, Segments
<1>8. Unstored'
  BY <1>1, <1>5, <1>6 DEF AppendInv, Unstored, Adding
<1>9. ReadIndex'
  <2>1. ASSUME NEW u \in Thread
        PROVE  Visible(u)' = Visible(u)
    BY <1>6 DEF Visible
  <2>2. ASSUME NEW u \in Thread, call'[u].pc = "insert"
        PROVE  call'[u].idx <= NextIndex(Visible(u), call'[u].conv)
    BY <1>1, <1>2, <1>5, <2>2 DEF AppendInv, ReadIndex, n
  <2> QED BY <2>1, <2>2 DEF ReadIndex
<1> QED BY <1>7, <1>8, <1>9

(* A call starts with messages nobody else has.                            *)
LEMMA StartAddKeeps ==
  ASSUME AppendInv, NEW t \in Thread, NEW c \in Conv, StartAdd(t, c)
  PROVE  TxnKeeps' /\ Unstored' /\ Segments' /\ ReadIndex'
<1>1. PICK ms \in Batch :
        /\ \A i \in DOMAIN ms : ms[i] \in fresh
        /\ fresh' = fresh \ {ms[i] : i \in DOMAIN ms}
        /\ Begin(t, c, ms, FALSE)
  BY DEF StartAdd
<1>2. ms \in Seq(Msg) /\ ms # <<>> /\ NoDuplicates(ms)
  <2>1. PICK n \in 1..MaxBatch : ms \in [1..n -> Msg]
    BY DEF Batch
  <2>2. ms \in Seq(Msg) /\ Len(ms) = n
    BY <2>1, StoreAssumption
  <2> QED BY <2>1, <2>2 DEF Batch
<1> DEFINE new == [pc |-> "select", conv |-> c, todo |-> ms, idx |-> 0,
                   sent |-> <<>>, upload |-> AutoUpload /\ ~FALSE]
<1>3. /\ call[t].pc = "idle"
      /\ call' = [call EXCEPT ![t] = new]
      /\ UNCHANGED <<table, txn, writer, rag, queue, posting, hub>>
  BY <1>1 DEF Begin
<1>4. new.pc = "select" /\ new.todo = ms
  OBVIOUS
<1> HIDE DEF new
<1>5. /\ call'[t].pc = "select" /\ call'[t].todo = ms
      /\ \A u \in Thread \ {t} : call'[u] = call[u]
  BY <1>3, <1>4 DEF AppendInv, StoreInv, TypeOK
<1>6. TxnKeeps' /\ Segments'
  BY <1>3 DEF AppendInv, TxnKeeps, Segments
<1>7. Unstored'
  <2>1. \A m \in fresh' : m \in fresh /\ txn'[m] = NoRow
    BY <1>1, <1>3 DEF AppendInv, Unstored
  <2>2. \A i \in DOMAIN ms : ms[i] \notin fresh' /\ txn'[ms[i]] = NoRow
    BY <1>1, <1>3 DEF AppendInv, Unstored
  <2>3. ASSUME NEW u \in Thread \ {t}, call'[u].pc \in Adding
        PROVE  /\ \A i \in DOMAIN call'[u].todo : call'[u].todo[i] \notin fresh
               /\ \A i \in DOMAIN ms, j \in DOMAIN call'[u].todo : ms[i] # call'[u].todo[j]
    BY <1>1, <1>5, <2>3 DEF AppendInv, Unstored
  <2>4. ASSUME NEW u \in Thread, call'[u].pc \in Adding
        PROVE  /\ NoDuplicates(call'[u].todo)
               /\ \A i \in DOMAIN call'[u].todo :
                    /\ call'[u].todo[i] \notin fresh'
                    /\ (call'[u].pc = "index" /\ i = 1) \/ txn'[call'[u].todo[i]] = NoRow
    <3>1. CASE u = t
      BY <1>2, <1>5, <2>2, <3>1
    <3>2. CASE u # t
      BY <1>3, <1>5, <2>1, <2>3, <2>4, <3>2 DEF AppendInv, Unstored
    <3> QED BY <3>1, <3>2
  <2>5. ASSUME NEW u \in Thread, NEW v \in Thread \ {u},
               call'[u].pc \in Adding, call'[v].pc \in Adding
        PROVE  \A i \in DOMAIN call'[u].todo, j \in DOMAIN call'[v].todo :
                 call'[u].todo[i] # call'[v].todo[j]
    <3>1. CASE u = t
      BY <1>5, <2>3, <2>5, <3>1
    <3>2. CASE v = t
      BY <1>5, <2>3, <2>5, <3>2
    <3>3. CASE u # t /\ v # t
      BY <1>5, <2>5, <3>3 DEF AppendInv, Unstored
    <3> QED BY <3>1, <3>2, <3>3
  <2> QED BY <2>1, <2>4, <2>5 DEF Unstored
<1>8. ReadIndex'
  <2>1. ASSUME NEW u \in Thread
        PROVE  Visible(u)' = Visible(u)
    BY <1>3 DEF Visible
  <2>2. ASSUME NEW u \in Thread, call'[u].pc = "insert"
        PROVE  call'[u].idx <= NextIndex(Visible(u), call'[u].conv)
    BY <1>5, <2>2 DEF AppendInv, ReadIndex
  <2> QED BY <2>1, <2>2 DEF ReadIndex
<1> QED BY <1>6, <1>7, <1>8

(* The row goes where it leaves no hole, whoever has written since the     *)
(* index was read.                                                         *)
LEMMA InsertKeeps ==
  ASSUME AppendInv, NEW t \in Thread, Insert(t)
  PROVE  TxnKeeps' /\ Unstored' /\ Segments' /\ ReadIndex'
<1> DEFINE m == Head(call[t].todo)
           row == [conv |-> call[t].conv, idx |-> call[t].idx, up |-> FALSE]
<1>1. /\ call[t].pc = "insert" /\ call[t] \in Calling /\ call[t].todo # <<>>
      /\ call[t].conv \in Conv /\ call[t].idx \in Nat
      /\ m \in Msg /\ m = call[t].todo[1] /\ 1 \in DOMAIN call[t].todo
  <2>1. call[t].pc = "insert" /\ call[t].todo # <<>>
    BY DEF Insert, AppendInv, StoreInv, CallShape, Adding
  <2> QED BY <2>1, CallIs, HeadAndTail DEF AppendInv, StoreInv
<1>2. row \in Row /\ row # NoRow /\ row.conv = call[t].conv /\ row.idx = call[t].idx
      /\ row.up = FALSE
  <2>1. row \in Row
    BY <1>1 DEF Row
  <2> QED BY <2>1, NoRowIsNoRow
<1>3. Visible(t) = txn /\ txn \in Rows
  BY VisibleIs DEF Insert
<1>4. /\ writer \in {NoOne, t} /\ writer' = t
      /\ txn' = [txn EXCEPT ![m] = row]
      /\ call' = [call EXCEPT ![t] = [call[t] EXCEPT !.pc = "index"]]
      /\ UNCHANGED <<table, rag, queue, posting, hub, fresh>>
  BY <1>3 DEF Insert, LockFree, AppendInv, StoreInv, TypeOK
<1> HIDE DEF m, row
<1>5. /\ call'[t].pc = "index" /\ call'[t].conv = call[t].conv
      /\ call'[t].todo = call[t].todo
      /\ \A u \in Thread \ {t} : call'[u] = call[u]
  BY <1>1, <1>4 DEF AppendInv, StoreInv, TypeOK, Calling
<1>6. /\ txn' \in Rows /\ txn'[m] = row
      /\ \A x \in Msg : x # m => txn'[x] = txn[x]
  BY <1>1, <1>2, <1>3, <1>4 DEF Rows
<1>7. txn[m] = NoRow /\ table[m] = NoRow /\ m \notin fresh
  BY <1>1 DEF AppendInv, Unstored, Adding, TxnKeeps
<1>8. \A d \in Conv : Segment(txn', d) /\ NextIndex(txn, d) <= NextIndex(txn', d)
  <2>1. call[t].idx <= NextIndex(txn, call[t].conv)
    BY <1>1, <1>3 DEF AppendInv, ReadIndex
  <2>2. \A d \in Conv : Segment(txn, d)
    BY DEF AppendInv, Segments
  <2> QED BY <1>1, <1>2, <1>3, <1>6, <1>7, <2>1, <2>2, InsertRow
<1>9. TxnKeeps'
  BY <1>4, <1>6, <1>7 DEF AppendInv, TxnKeeps
<1>10. Unstored'
  <2>1. \A u \in Thread \ {t} : call[u].pc \in Adding =>
          \A i \in DOMAIN call[u].todo : call[u].todo[i] # m
    BY <1>1 DEF AppendInv, Unstored, Adding
  <2>2. \A i \in DOMAIN call[t].todo : call[t].todo[i] = m => i = 1
    BY <1>1 DEF AppendInv, Unstored, Adding, NoDuplicates
  <2>3. \A u \in Thread : call'[u].todo = call[u].todo /\ (call'[u].pc \in Adding => call[u].pc \in Adding)
    BY <1>1, <1>5 DEF Adding
  <2>4. \A x \in fresh' : txn'[x] = NoRow
    BY <1>4, <1>6, <1>7 DEF AppendInv, StoreInv, Unstored, TypeOK
  <2>5. ASSUME NEW u \in Thread, call'[u].pc \in Adding, NEW i \in DOMAIN call'[u].todo
        PROVE  (call'[u].pc = "index" /\ i = 1) \/ txn'[call'[u].todo[i]] = NoRow
    <3>1. call[u].todo[i] \in Msg
      <4>1. call[u].pc \in Adding
        BY <2>3, <2>5
      <4>2. call[u].todo \in Seq(Msg)
        BY <4>1, CallIs DEF AppendInv, StoreInv, Adding
      <4> QED BY <2>3, <4>2
    <3>2. CASE u = t
      BY <1>1, <1>5, <1>6, <2>2, <2>5, <3>1, <3>2 DEF AppendInv, Unstored, Adding
    <3>3. CASE u # t
      BY <1>5, <1>6, <2>1, <2>3, <2>5, <3>1, <3>3 DEF AppendInv, Unstored
    <3> QED BY <3>2, <3>3
  <2> QED BY <1>4, <2>3, <2>4, <2>5 DEF AppendInv, Unstored
<1>11. Segments'
  BY <1>4, <1>8 DEF AppendInv, Segments
<1>12. ReadIndex'
  <2> SUFFICES ASSUME NEW u \in Thread, call'[u].pc = "insert"
               PROVE  call'[u].idx <= NextIndex(Visible(u)', call'[u].conv)
    BY DEF ReadIndex
  <2>1. u # t /\ call'[u] = call[u] /\ call[u].pc = "insert"
    BY <1>5
  <2>2. u # writer /\ u # writer'
    BY <1>4, <2>1, StoreAssumption
  <2>3. Visible(u)' = Visible(u)
    BY <1>4, <2>2 DEF Visible
  <2> QED BY <2>1, <2>3 DEF AppendInv, ReadIndex
<1> QED BY <1>9, <1>10, <1>11, <1>12

(* The document is in the vector store before the row can be committed.    *)
LEMMA IndexDocumentKeeps ==
  ASSUME AppendInv, NEW t \in Thread, IndexDocument(t)
  PROVE  TxnKeeps' /\ Unstored' /\ Segments' /\ ReadIndex'
<1> DEFINE m == Head(call[t].todo)
           rest == Tail(call[t].todo)
           new == [call[t] EXCEPT
             !.todo = Tail(@),
             !.sent = Append(@, [msg |-> m, idx |-> call[t].idx]),
             !.pc = IF Len(call[t].todo) > 1 THEN "select" ELSE "commit"]
<1>1. call[t].pc = "index" /\ call[t] \in Calling /\ call[t].todo # <<>>
  BY CallIs DEF IndexDocument, AppendInv, StoreInv, CallShape, Adding
<1>2. /\ call[t].todo \in Seq(Msg) /\ call[t].idx \in Nat /\ call[t].conv \in Conv
      /\ call[t].sent \in Seq([msg : Msg, idx : Nat])
  BY <1>1 DEF Calling
<1>3. /\ m \in Msg /\ m = call[t].todo[1] /\ 1 \in DOMAIN call[t].todo
      /\ rest \in Seq(Msg)
      /\ Len(call[t].todo) > 1 => rest # <<>>
      /\ \A i \in DOMAIN rest :
           i \in Nat /\ i + 1 \in DOMAIN call[t].todo \ {1} /\ rest[i] = call[t].todo[i + 1]
  <2>1. DOMAIN rest = 1..(Len(call[t].todo) - 1)
    BY <1>1, <1>2, HeadAndTail
  <2> HIDE DEF rest
  <2>2. \A i \in DOMAIN rest : i \in Nat /\ i >= 1 /\ i + 1 \in 1..Len(call[t].todo)
    BY <2>1, <1>1, <1>2, HeadAndTail
  <2> QED BY <1>1, <1>2, <2>1, <2>2, HeadAndTail DEF rest
<1>4. /\ rag' = rag \cup {m}
      /\ call' = [call EXCEPT ![t] = new]
      /\ UNCHANGED <<table, txn, writer, queue, posting, hub, fresh>>
  BY DEF IndexDocument, AppendInv, StoreInv, TypeOK
<1>5. new.todo = rest /\ new.pc \in {"select", "commit"}
  BY <1>1 DEF Calling
<1> HIDE DEF m, new, rest
<1>6. call'[t] = new /\ \A u \in Thread \ {t} : call'[u] = call[u]
  BY <1>4 DEF AppendInv, StoreInv, TypeOK
<1>7. TxnKeeps' /\ Segments'
  BY <1>4 DEF AppendInv, TxnKeeps, Segments
<1>8. Unstored'
  <2>1. ASSUME call'[t].pc \in Adding
        PROVE  /\ NoDuplicates(call'[t].todo)
               /\ \A i \in DOMAIN call'[t].todo :
                    call'[t].todo[i] \notin fresh /\ txn[call'[t].todo[i]] = NoRow
    <3>1. \A i \in DOMAIN call[t].todo :
            call[t].todo[i] \notin fresh /\ (i = 1 \/ txn[call[t].todo[i]] = NoRow)
      BY <1>1 DEF AppendInv, Unstored, Adding
    <3>2. \A i, j \in DOMAIN call[t].todo : call[t].todo[i] = call[t].todo[j] => i = j
      BY <1>1 DEF AppendInv, Unstored, Adding, NoDuplicates
    <3>3. \A i, j \in DOMAIN rest : rest[i] = rest[j] => i = j
      <4> TAKE i, j \in DOMAIN rest
      <4> HAVE rest[i] = rest[j]
      <4>1. i + 1 = j + 1
        BY <1>3, <3>2
      <4> QED BY <1>3, <4>1
    <3>4. \A i \in DOMAIN rest : rest[i] \notin fresh /\ txn[rest[i]] = NoRow
      BY <1>3, <3>1
    <3>5. call'[t].todo = rest
      BY <1>5, <1>6
    <3> QED BY <3>3, <3>4, <3>5 DEF NoDuplicates
  <2>2. ASSUME NEW u \in Thread \ {t}, call'[u].pc \in Adding
        PROVE  \A i \in DOMAIN call'[t].todo, j \in DOMAIN call'[u].todo :
                 call'[t].todo[i] # call'[u].todo[j]
    <3>1. \A k \in DOMAIN call[t].todo, j \in DOMAIN call[u].todo :
            call[t].todo[k] # call[u].todo[j]
      BY <1>1, <1>6, <2>2 DEF AppendInv, Unstored, Adding
    <3>2. call'[t].todo = rest /\ call'[u].todo = call[u].todo
      BY <1>5, <1>6
    <3>3. \A i \in DOMAIN rest : i + 1 \in DOMAIN call[t].todo /\ rest[i] = call[t].todo[i + 1]
      BY <1>3
    <3> QED BY <3>1, <3>2, <3>3
  <2>3. \A u \in Thread \ {t} : call'[u].pc \in Adding =>
          /\ NoDuplicates(call'[u].todo)
          /\ \A i \in DOMAIN call'[u].todo :
               /\ call'[u].todo[i] \notin fresh
               /\ (call'[u].pc = "index" /\ i = 1) \/ txn[call'[u].todo[i]] = NoRow
          /\ \A v \in Thread \ {t, u} : call'[v].pc \in Adding =>
               \A i \in DOMAIN call'[u].todo, j \in DOMAIN call'[v].todo :
                 call'[u].todo[i] # call'[v].todo[j]
    BY <1>6 DEF AppendInv, Unstored
  <2>4. \A x \in fresh : txn[x] = NoRow
    BY DEF AppendInv, Unstored
  <2>5. ASSUME NEW u \in Thread, NEW v \in Thread \ {u},
               call'[u].pc \in Adding, call'[v].pc \in Adding
        PROVE  \A i \in DOMAIN call'[u].todo, j \in DOMAIN call'[v].todo :
                 call'[u].todo[i] # call'[v].todo[j]
    BY <2>2, <2>3, <2>5
  <2> QED BY <1>4, <2>1, <2>3, <2>4, <2>5 DEF Unstored
<1>9. ReadIndex'
  <2>1. ASSUME NEW u \in Thread
        PROVE  Visible(u)' = Visible(u)
    BY <1>4 DEF Visible
  <2> QED BY <1>5, <1>6, <2>1 DEF AppendInv, ReadIndex
<1> QED BY <1>7, <1>8, <1>9

(* The rollback leaves the rows that the other calls have counted on: no   *)
(* other call has read the open transaction.                               *)
LEMMA RollbackKeeps ==
  ASSUME AppendInv, NEW t \in Thread, IndexRaises(t)
  PROVE  TxnKeeps' /\ Unstored' /\ Segments' /\ ReadIndex'
<1>1. /\ call[t].pc = "index" /\ writer = t
      /\ UNCHANGED <<table, rag, queue, posting, hub, fresh>>
      /\ writer' = NoOne /\ txn' = table
      /\ call'[t] = Idle /\ call'[t].pc = "idle"
      /\ \A u \in Thread \ {t} : call'[u] = call[u]
  BY DEF IndexRaises, AppendInv, StoreInv, TypeOK, Idle, LockHeld
<1>2. TxnKeeps' /\ Segments'
  BY <1>1 DEF AppendInv, StoreInv, TypeOK, TxnKeeps, Segments
<1>3. \A x \in Msg : txn[x] = NoRow => table[x] = NoRow
  BY DEF AppendInv, TxnKeeps
<1>4. Unstored'
  <2>1. \A x \in fresh' : txn'[x] = NoRow
    BY <1>1, <1>3 DEF AppendInv, StoreInv, Unstored, TypeOK
  <2>2. ASSUME NEW u \in Thread, call'[u].pc \in Adding, NEW i \in DOMAIN call'[u].todo
        PROVE  (call'[u].pc = "index" /\ i = 1) \/ txn'[call'[u].todo[i]] = NoRow
    <3>1. u # t /\ call'[u] = call[u]
      BY <1>1, <2>2 DEF Adding
    <3>2. call[u].todo[i] \in Msg
      BY <2>2, <3>1, CallIs DEF AppendInv, StoreInv, Adding
    <3>3. (call[u].pc = "index" /\ i = 1) \/ txn[call[u].todo[i]] = NoRow
      BY <2>2, <3>1 DEF AppendInv, Unstored
    <3> QED BY <1>1, <1>3, <3>1, <3>2, <3>3
  <2> QED BY <1>1, <2>1, <2>2 DEF AppendInv, Unstored, Adding
<1>5. ReadIndex'
  <2> SUFFICES ASSUME NEW u \in Thread, call'[u].pc = "insert"
               PROVE  call'[u].idx <= NextIndex(Visible(u)', call'[u].conv)
    BY DEF ReadIndex
  <2>1. u # t /\ call'[u] = call[u]
    BY <1>1
  <2>2. Visible(u)' = Visible(u)
    BY <1>1, <2>1, StoreAssumption DEF Visible
  <2> QED BY <2>1, <2>2 DEF AppendInv, ReadIndex
<1> QED BY <1>2, <1>4, <1>5

(* The commit publishes what the transaction holds; only its own thread    *)
(* can be behind the row it indexes.                                       *)
LEMMA CommitsKeep ==
  ASSUME AppendInv, NEW t \in Thread, Commit(t) \/ CommitMarks(t)
  PROVE  TxnKeeps' /\ Unstored' /\ Segments' /\ ReadIndex'
<1>1. call[t].pc \in {"commit", "close"} /\ writer = t /\ call[t] \in Calling
  BY CallIs DEF Commit, CommitMarks, AppendInv, StoreInv, LockHeld
<1>2. PICK new : /\ call' = [call EXCEPT ![t] = new]
                 /\ new = Idle \/ new = [call[t] EXCEPT !.pc = "upload"]
  BY DEF Commit, CommitMarks
<1>3. table' = txn /\ writer' = NoOne /\ UNCHANGED <<txn, fresh>>
  BY DEF Commit, CommitMarks
<1>4. call'[t].pc \in {"idle", "upload"} /\ \A u \in Thread \ {t} : call'[u] = call[u]
  <2>1. new.pc \in {"idle", "upload"}
    BY <1>1, <1>2 DEF Idle, Calling
  <2> QED BY <1>2, <2>1 DEF AppendInv, StoreInv, TypeOK
<1>5. TxnKeeps' /\ Segments'
  BY <1>3 DEF AppendInv, TxnKeeps, Segments
<1>6. Unstored'
  BY <1>3, <1>4 DEF AppendInv, Unstored, Adding
<1>7. ReadIndex'
  <2> SUFFICES ASSUME NEW u \in Thread, call'[u].pc = "insert"
               PROVE  call'[u].idx <= NextIndex(Visible(u)', call'[u].conv)
    BY DEF ReadIndex
  <2>1. u # t /\ call'[u] = call[u] /\ call[u].conv \in Conv /\ call[u].idx \in Nat
    BY <1>3, <1>4, CallIs DEF AppendInv, StoreInv
  <2>2. Visible(u) = table /\ Visible(u)' = txn
    BY <1>1, <1>3, <2>1, StoreAssumption DEF Visible
  <2>3. call[u].idx <= NextIndex(table, call[u].conv)
    BY <2>1, <2>2 DEF AppendInv, ReadIndex
  <2>4. NextIndex(table, call[u].conv) <= NextIndex(txn, call[u].conv)
    BY <2>1, TxnIsAhead
  <2>5. NextIndex(table, call[u].conv) \in Nat /\ NextIndex(txn, call[u].conv) \in Nat
    BY <2>1 DEF AppendInv, Segments, Segment
  <2> QED BY <2>1, <2>2, <2>3, <2>4, <2>5
<1> QED BY <1>5, <1>6, <1>7

(* The UPDATE neither moves nor removes a row, and takes no mark away.     *)
LEMMA MarkUploadedKeeps ==
  ASSUME AppendInv, NEW t \in Thread, MarkUploaded(t)
  PROVE  TxnKeeps' /\ Unstored' /\ Segments' /\ ReadIndex'
<1>1. /\ call[t].pc = "mark" /\ writer \in {NoOne, t} /\ writer' = t
      /\ UNCHANGED <<table, fresh>>
  BY DEF MarkUploaded, LockFree
<1>2. StoreInv /\ txn \in Rows
  BY VisibleIs DEF AppendInv, StoreInv, TypeOK, Rows
<1>3. PICK p \in {"upload", "close"} : p = IF Len(call[t].sent) > 1 THEN "upload" ELSE "close"
  OBVIOUS
<1>4. call' = [call EXCEPT ![t] = [call[t] EXCEPT !.sent = Tail(@), !.pc = p]]
  BY <1>3 DEF MarkUploaded, AppendInv, StoreInv, TypeOK
<1>5. \A m \in Msg :
        /\ txn'[m] \in Row \cup {NoRow}
        /\ txn[m] = NoRow <=> txn'[m] = NoRow
        /\ txn[m] # NoRow =>
             /\ txn'[m].conv = txn[m].conv /\ txn'[m].idx = txn[m].idx
             /\ txn[m].up => txn'[m].up
  BY <1>2, UpdateMarks
<1>6. txn' \in Rows
  BY <1>5 DEF MarkUploaded, Rows
<1>7. call'[t].pc \notin Adding /\ \A u \in Thread \ {t} : call'[u] = call[u]
  <2>1. call[t] \in Calling
    BY <1>1, CallIs DEF AppendInv, StoreInv
  <2>2. call'[t].pc = p
    BY <1>4, <2>1 DEF AppendInv, StoreInv, TypeOK, Calling
  <2> QED BY <1>3, <1>4, <2>2 DEF AppendInv, StoreInv, TypeOK, Adding
<1>8. TxnKeeps'
  BY <1>1, <1>5 DEF AppendInv, TxnKeeps
<1>9. \A d \in Conv : Indexes(txn', d) = Indexes(txn, d) /\ NextIndex(txn', d) = NextIndex(txn, d)
  BY <1>2, <1>5, <1>6, SameIndexes
<1>10. Segments'
  <2>1. \A d \in Conv : Segment(table, d) /\ Segment(txn', d)
    BY <1>9 DEF AppendInv, Segments, Segment
  <2> QED BY <1>1, <2>1 DEF Segments
<1>11. Unstored'
  <2>1. \A x \in fresh' : txn'[x] = NoRow
    BY <1>1, <1>5 DEF AppendInv, StoreInv, Unstored, TypeOK
  <2>2. \A u \in Thread : call'[u].pc \in Adding => u # t /\ call'[u] = call[u]
    BY <1>7
  <2>3. ASSUME NEW u \in Thread, call'[u].pc \in Adding, NEW j \in DOMAIN call'[u].todo
        PROVE  (call'[u].pc = "index" /\ j = 1) \/ txn'[call'[u].todo[j]] = NoRow
    <3>1. call[u].todo[j] \in Msg
      BY <2>2, <2>3, CallIs DEF AppendInv, StoreInv, Adding
    <3> QED BY <1>5, <2>2, <2>3, <3>1 DEF AppendInv, Unstored
  <2>4. ASSUME NEW u \in Thread, call'[u].pc \in Adding
        PROVE  /\ NoDuplicates(call'[u].todo)
               /\ \A j \in DOMAIN call'[u].todo : call'[u].todo[j] \notin fresh
    BY <2>2, <2>4 DEF AppendInv, Unstored
  <2>5. ASSUME NEW u \in Thread, NEW v \in Thread \ {u},
               call'[u].pc \in Adding, call'[v].pc \in Adding
        PROVE  \A j \in DOMAIN call'[u].todo, k \in DOMAIN call'[v].todo :
                 call'[u].todo[j] # call'[v].todo[k]
    BY <2>2, <2>5 DEF AppendInv, Unstored
  <2> QED BY <1>1, <2>1, <2>3, <2>4, <2>5 DEF Unstored
<1>12. ReadIndex'
  <2> SUFFICES ASSUME NEW u \in Thread, call'[u].pc = "insert"
               PROVE  call'[u].idx <= NextIndex(Visible(u)', call'[u].conv)
    BY DEF ReadIndex
  <2>1. u # t /\ call'[u] = call[u]
    BY <1>7 DEF Adding
  <2>2. Visible(u)' = Visible(u)
    BY <1>1, <2>1, StoreAssumption DEF Visible
  <2> QED BY <2>1, <2>2 DEF AppendInv, ReadIndex
<1> QED BY <1>8, <1>10, <1>11, <1>12

(* A step that leaves the tables, the lock and the threads that add alone. *)
LEMMA OthersKeep ==
  ASSUME AppendInv, UNCHANGED <<table, txn, writer, fresh>>,
         \A t \in Thread : call'[t].pc \in Adding => call'[t] = call[t]
  PROVE  TxnKeeps' /\ Unstored' /\ Segments' /\ ReadIndex'
<1>1. TxnKeeps' /\ Segments'
  BY DEF AppendInv, TxnKeeps, Segments
<1>2. Unstored'
  BY DEF AppendInv, Unstored
<1>3. ReadIndex'
  <2>1. \A t \in Thread : Visible(t)' = Visible(t)
    BY DEF Visible
  <2> QED BY <2>1 DEF AppendInv, ReadIndex, Adding
<1> QED BY <1>1, <1>2, <1>3

(* The waits for the lock and for the upload, and the upload thread.       *)
LEMMA WaitsKeep ==
  ASSUME AppendInv,
         (\E t \in Thread : QueueUpload(t) \/ LockTimeout(t)) \/ Uploader \/ UNCHANGED vars
  PROVE  TxnKeeps' /\ Unstored' /\ Segments' /\ ReadIndex'
<1>1. UNCHANGED <<table, txn, writer, fresh>>
  BY DEF QueueUpload, LockTimeout, Uploader, TakeTask, PostSucceeds, PostFails, vars
<1>2. ASSUME NEW t \in Thread, NEW p \in {"wait", "mark"},
             call[t].pc # "idle", call' = [call EXCEPT ![t].pc = p]
      PROVE  \A u \in Thread : call'[u].pc \in Adding => call'[u] = call[u]
  <2>1. call[t] \in Calling
    BY <1>2, CallIs DEF AppendInv, StoreInv
  <2>2. call'[t].pc = p /\ \A u \in Thread \ {t} : call'[u] = call[u]
    BY <1>2, <2>1 DEF AppendInv, StoreInv, TypeOK, Calling
  <2> QED BY <2>2 DEF Adding
<1>3. ASSUME NEW t \in Thread, QueueUpload(t)
      PROVE  \A u \in Thread : call'[u].pc \in Adding => call'[u] = call[u]
  BY <1>2, <1>3 DEF QueueUpload
<1>4. ASSUME NEW t \in Thread, LockTimeout(t)
      PROVE  \A u \in Thread : call'[u].pc \in Adding => call'[u] = call[u]
  BY <1>4 DEF LockTimeout, Idle, Adding, AppendInv, StoreInv, TypeOK
<1>5. CASE PostSucceeds
  <2>1. posting.thread \in Thread /\ call[posting.thread].pc = "wait"
    BY <1>5, TasksAre DEF PostSucceeds, AppendInv, StoreInv, OneTask, TaskOf
  <2>2. \A u \in Thread : call'[u].pc \in Adding => call'[u] = call[u]
    BY <1>2, <1>5, <2>1 DEF PostSucceeds
  <2> QED BY <1>1, <2>2, OthersKeep
<1>6. CASE TakeTask \/ PostFails \/ UNCHANGED vars
  BY <1>1, <1>6, OthersKeep DEF TakeTask, PostFails, vars
<1> QED BY <1>1, <1>3, <1>4, <1>5, <1>6, OthersKeep DEF Uploader

(* A crash leaves the committed rows, with nobody in a call.               *)
LEMMA CrashKeeps ==
  ASSUME AppendInv, Crash
  PROVE  TxnKeeps' /\ Unstored' /\ Segments' /\ ReadIndex'
<1>1. /\ UNCHANGED <<table, rag, hub, fresh>>
      /\ writer' = NoOne /\ txn' = table /\ queue' = <<>> /\ posting' = NoOne
      /\ call' = [u \in Thread |-> Idle]
      /\ \A u \in Thread : call'[u].pc = "idle"
  BY DEF Crash, Idle
<1>2. TxnKeeps' /\ Segments'
  BY <1>1 DEF AppendInv, StoreInv, TypeOK, TxnKeeps, Segments
<1>3. Unstored'
  <2>1. \A x \in fresh' : txn'[x] = NoRow
    BY <1>1 DEF AppendInv, StoreInv, TypeOK, Unstored, TxnKeeps
  <2> QED BY <1>1, <2>1 DEF Unstored, Adding
<1>4. ReadIndex'
  BY <1>1 DEF ReadIndex
<1> QED BY <1>2, <1>3, <1>4

-----------------------------------------------------------------------------
(* The theorems.                                                           *)

(* AppendInv holds at first, and every step of a process that only adds    *)
(* keeps it.                                                               *)
THEOREM AppendInvHolds == AppendSpec => []AppendInv
<1>1. Init => AppendInv
  <2> SUFFICES ASSUME Init
               PROVE  AppendInv
    OBVIOUS
  <2>1. StoreInv
    BY StoreInit
  <2>2. TxnKeeps /\ Unstored /\ ReadIndex
    BY DEF Init, Idle, TxnKeeps, Unstored, Adding, ReadIndex
  <2>3. Segments
    BY EmptySegment DEF Init, Segments
  <2> QED BY <2>1, <2>2, <2>3 DEF AppendInv
<1>2. AppendInv /\ [AppendNext]_vars => AppendInv'
  <2> SUFFICES ASSUME AppendInv, [AppendNext]_vars
               PROVE  AppendInv'
    OBVIOUS
  <2>1. StoreInv'
    BY StoreStep DEF AppendInv, Next
  <2>2. CASE \E t \in Thread, c \in Conv : StartAdd(t, c)
    BY <2>1, <2>2, StartAddKeeps DEF AppendInv
  <2>3. ASSUME NEW t \in Thread, AddStep(t)
        PROVE  AppendInv'
    <3>1. TxnKeeps' /\ Unstored' /\ Segments' /\ ReadIndex'
      BY <2>3, SelectMaxKeeps, InsertKeeps, IndexDocumentKeeps, RollbackKeeps, CommitsKeep,
         WaitsKeep, MarkUploadedKeeps DEF AddStep
    <3> QED BY <2>1, <3>1 DEF AppendInv
  <2>4. CASE Uploader \/ UNCHANGED vars
    BY <2>1, <2>4, WaitsKeep DEF AppendInv
  <2>5. CASE Crash
    BY <2>1, <2>5, CrashKeeps DEF AppendInv
  <2> QED BY <2>2, <2>3, <2>4, <2>5 DEF AppendNext
<1> QED BY <1>1, <1>2, PTL DEF AppendSpec

(* Every state of the store is well-typed: a delete leaves an index to     *)
(* start from, and a reload stores a message of the hub                    *)
(* (sqlite_memory.py:59-127, hub.py:22-103).                               *)
THEOREM StoreIsTyped == Spec => []TypeOK
<1>1. StoreInv => TypeOK
  BY DEF StoreInv
<1> QED BY <1>1, StoreInvHolds, PTL

(* A committed message is in the vector store, also after deletes and      *)
(* reloads (sqlite_memory.py:92-109).                                      *)
THEOREM CommittedIsIndexed == Spec => []RowsHaveDocuments
<1>1. StoreInv => RowsHaveDocuments
  BY DEF StoreInv, Documents, RowsHaveDocuments
<1> QED BY <1>1, StoreInvHolds, PTL

(* A row with upload_status 1 names a file the hub has received, also when *)
(* its index has been used before (sqlite_memory.py:111-127,               *)
(* hub.py:39-46).                                                          *)
THEOREM MarkedWasPosted == Spec => []MarkedIsOnHub
<1>1. StoreInv => MarkedIsOnHub
  BY DEF StoreInv, Marks, MarksOnHub, OnHub, MarkedIsOnHub
<1> QED BY <1>1, StoreInvHolds, PTL

(* However many threads add, and wherever calls fail, the indexes of a     *)
(* conversation have no holes (sqlite_memory.py:87-95).                    *)
THEOREM AppendLeavesNoHoles == AppendSpec => []IndexContiguous
<1>1. AppendInv => IndexContiguous
  <2> SUFFICES ASSUME AppendInv, NEW c \in Conv, NEW i \in Indexes(table, c)
               PROVE  0..i \subseteq Indexes(table, c)
    BY DEF IndexContiguous
  <2>1. PICK n \in Nat : Indexes(table, c) = 0..(n - 1)
    BY DEF AppendInv, Segments, Segment
  <2> QED BY <2>1
<1> QED BY <1>1, AppendInvHolds, PTL

(* No commit takes away, moves or unmarks a row that another commit has    *)
(* published (sqlite_memory.py:92-95, 108-109, 125-126).                   *)
THEOREM CommitsNeverRevert == AppendSpec => CommittedStays
<1> DEFINE Stays == \A m \in Msg : table[m] # NoRow =>
       /\ table'[m] # NoRow
       /\ table'[m].conv = table[m].conv
       /\ table'[m].idx = table[m].idx
       /\ table[m].up => table'[m].up
<1>1. AppendInv /\ [AppendNext]_vars => [Stays]_vars
  <2> SUFFICES ASSUME AppendInv, AppendNext
               PROVE  Stays
    OBVIOUS
  <2>1. table' = table \/ table' = txn
    BY DEF AppendNext, StartAdd, Begin, AddStep, SelectMax, Insert, IndexDocument, IndexRaises,
           Commit, QueueUpload, MarkUploaded, CommitMarks, LockTimeout, Uploader, TakeTask,
           PostSucceeds, PostFails, Crash
  <2> QED BY <2>1 DEF AppendInv, TxnKeeps
<1>2. AppendSpec => [][Stays]_vars
  BY <1>1, AppendInvHolds, PTL DEF AppendSpec
<1> QED BY <1>2 DEF CommittedStays

-----------------------------------------------------------------------------
(* What a call has done to the table so far.                               *)

(* Where the i-th message of a batch goes when the first goes to k.        *)
Place(T, c, k, i) ==
  IF i = 1 THEN k
  ELSE (IF k = NextIndex(T, c) THEN k + 1 ELSE NextIndex(T, c)) + i - 2

(* U is the table T with the rows of the messages of s added, s being a    *)
(* sequence of messages and the indexes they were given.                   *)
Appended(T, U, c, s) ==
  /\ s # <<>>
  /\ \A i \in DOMAIN s :
       /\ T[s[i].msg] = NoRow
       /\ U[s[i].msg] = [conv |-> c, idx |-> s[i].idx, up |-> FALSE]
       /\ s[i].idx = Place(T, c, s[1].idx, i)
       /\ \A j \in DOMAIN s : s[i].msg = s[j].msg => i = j
  /\ \A m \in Msg : (\A i \in DOMAIN s : s[i].msg # m) => U[m] = T[m]
  /\ s[1].idx <= NextIndex(T, c)
  /\ NextIndex(U, c) = Place(T, c, s[1].idx, Len(s) + 1)

(* A row more, and the sequence of a call with its message.                *)
WithRow(U, c, m, i) == [U EXCEPT ![m] = [conv |-> c, idx |-> i, up |-> FALSE]]

Added(s, m, i) == Append(s, [msg |-> m, idx |-> i])

(* A table with the rows marked that have one of the indexes I.            *)
Marked(T, c, I) ==
  [m \in Msg |->
    IF T[m] # NoRow /\ T[m].conv = c /\ T[m].idx \in I
    THEN [T[m] EXCEPT !.up = TRUE]
    ELSE T[m]]

(* What one UPDATE does.                                                   *)
MarkedAt(U, c, i) ==
  [m \in Msg |-> IF m \in {x \in RowsOf(U, c) : U[x].idx = i}
                 THEN [U[m] EXCEPT !.up = TRUE] ELSE U[m]]

(* The messages of a call that are in its transaction.                     *)
Inserted(t) ==
  IF call[t].pc = "index"
  THEN Added(call[t].sent, Head(call[t].todo), call[t].idx)
  ELSE call[t].sent

(* The open transaction is the table with the rows, or with the marks, of  *)
(* the one call that holds the write lock; and a call that does not hold   *)
(* it has inserted nothing.                                                *)
CallOnLog(t) ==
  /\ writer = t =>
       /\ call[t].pc # "idle"
       /\ call[t].pc \in Adding \cup {"commit"} =>
            Appended(table, txn, call[t].conv, Inserted(t))
       /\ call[t].pc = "insert" => call[t].idx = NextIndex(txn, call[t].conv)
       /\ call[t].pc \in Uploading \cup {"close"} =>
            \E I \in SUBSET Indexes(table, call[t].conv) : txn = Marked(table, call[t].conv, I)
  /\ call[t].pc \in {"select", "insert"} /\ writer # t => call[t].sent = <<>>
  /\ call[t].pc \in Adding => Len(call[t].sent) + Len(call[t].todo) <= MaxBatch
  /\ call[t].pc = "commit" => Len(call[t].sent) <= MaxBatch

OnLog == \A t \in Thread : CallOnLog(t)

-----------------------------------------------------------------------------
(* Adding a row adds its index.                                            *)
LEMMA AddedIndex ==
  ASSUME NEW U \in Rows, NEW c \in Conv, NEW m \in Msg, U[m] = NoRow, NEW i \in Nat,
         NEW V, V = WithRow(U, c, m, i)
  PROVE  /\ V \in Rows
         /\ V[m] = [conv |-> c, idx |-> i, up |-> FALSE] /\ V[m] # NoRow
         /\ \A x \in Msg : x # m => V[x] = U[x]
         /\ Indexes(V, c) = Indexes(U, c) \cup {i}
<1> DEFINE row == [conv |-> c, idx |-> i, up |-> FALSE]
<1>1. row \in Row /\ row # NoRow /\ row.conv = c /\ row.idx = i
  <2>1. row \in Row
    BY DEF Row
  <2> QED BY <2>1, NoRowIsNoRow
<1> HIDE DEF row
<1>2. V \in Rows /\ V[m] = row /\ \A x \in Msg : x # m => V[x] = U[x]
  <2>1. V = [U EXCEPT ![m] = row]
    BY DEF WithRow, row
  <2> QED BY <1>1, <2>1 DEF Rows
<1>3. \A k : k \in Indexes(V, c) <=> k \in Indexes(U, c) \/ k = i
  <2>1. \A k : k \in Indexes(U, c) <=>
          \E x \in Msg : U[x] # NoRow /\ U[x].conv = c /\ U[x].idx = k
    BY IndexesAre
  <2>2. \A k : k \in Indexes(V, c) <=>
          \E x \in Msg : V[x] # NoRow /\ V[x].conv = c /\ V[x].idx = k
    BY <1>2, IndexesAre
  <2> QED BY <1>1, <1>2, <2>1, <2>2
<1>4. V[m] = [conv |-> c, idx |-> i, up |-> FALSE] /\ V[m] # NoRow
  BY <1>1, <1>2 DEF row
<1> QED BY <1>2, <1>3, <1>4

(* The next index after an index not above it is taken.                    *)
LEMMA NextGrows ==
  ASSUME NEW T, NEW U, NEW c, Segment(T, c), NEW i \in Nat, i <= NextIndex(T, c),
         Indexes(U, c) = Indexes(T, c) \cup {i}
  PROVE  NextIndex(U, c) = IF i = NextIndex(T, c) THEN i + 1 ELSE NextIndex(T, c)
<1>1. PICK n \in Nat : n = NextIndex(T, c) /\ Indexes(T, c) = 0..(n - 1)
  BY DEF Segment
<1>2. CASE i < n
  <2>1. Indexes(U, c) = 0..(n - 1)
    BY <1>1, <1>2
  <2>2. NextIndex(U, c) = n
    BY <2>1, NextIndexIs
  <2> QED BY <1>1, <1>2, <2>2
<1>3. CASE i = n
  <2>1. 0..((n + 1) - 1) = 0..(n - 1) \cup {n}
    OBVIOUS
  <2>2. Indexes(U, c) = 0..((n + 1) - 1)
    BY <1>1, <1>3, <2>1
  <2>3. NextIndex(U, c) = n + 1
    BY <2>2, NextIndexIs
  <2> QED BY <1>1, <1>3, <2>3
<1> QED BY <1>1, <1>2, <1>3

Given == [msg : Msg, idx : Nat]

(* Sequences with an element added.                                        *)
LEMMA AppendAt ==
  ASSUME NEW s \in Seq(Given), NEW x \in Given
  PROVE  /\ Append(s, x) \in Seq(Given) /\ Append(s, x) # <<>>
         /\ Len(s) \in Nat /\ Len(Append(s, x)) = Len(s) + 1
         /\ DOMAIN s = 1..Len(s) /\ DOMAIN Append(s, x) = 1..(Len(s) + 1)
         /\ \A i \in 1..Len(s) : Append(s, x)[i] = s[i]
         /\ Append(s, x)[Len(s) + 1] = x
<1>1. /\ Append(s, x) \in Seq(Given) /\ Len(s) \in Nat
      /\ DOMAIN s = 1..Len(s) /\ DOMAIN Append(s, x) = 1..(Len(s) + 1)
      /\ \A i \in 1..Len(s) : Append(s, x)[i] = s[i]
      /\ Append(s, x)[Len(s) + 1] = x
  OBVIOUS
<1>2. Append(s, x) # <<>>
  BY AppendIs
<1>3. Len(Append(s, x)) = Len(s) + 1
  OBVIOUS
<1> QED BY <1>1, <1>2, <1>3

(* The first message of a batch.                                           *)
LEMMA AppendedFirst ==
  ASSUME NEW T \in Rows, NEW c \in Conv, Segment(T, c), NEW m \in Msg, T[m] = NoRow,
         NEW i \in Nat, i <= NextIndex(T, c),
         NEW U, U = WithRow(T, c, m, i), NEW s, s = Added(<<>>, m, i)
  PROVE  Appended(T, U, c, s)
<1> DEFINE x == [msg |-> m, idx |-> i]
<1>1. x \in Given /\ x.msg = m /\ x.idx = i
  BY DEF Given
<1>2. s = Append(<<>>, x)
  BY DEF Added
<1> HIDE DEF x
<1>3. /\ s # <<>> /\ DOMAIN s = {1} /\ s[1] = x /\ Len(s) = 1
  <2>1. <<>> \in Seq(Given) /\ Len(<<>>) = 0
    OBVIOUS
  <2>2. s # <<>> /\ Len(s) = 0 + 1 /\ DOMAIN s = 1..(0 + 1) /\ s[0 + 1] = x
    BY <1>1, <1>2, <2>1, AppendAt
  <2>3. 1..(0 + 1) = {1} /\ 0 + 1 = 1
    OBVIOUS
  <2> QED BY <2>2, <2>3
<1>4. /\ U[m] = [conv |-> c, idx |-> i, up |-> FALSE]
      /\ \A y \in Msg : y # m => U[y] = T[y]
      /\ Indexes(U, c) = Indexes(T, c) \cup {i}
  BY AddedIndex
<1>5. NextIndex(T, c) \in Nat
  BY DEF Segment
<1>6. NextIndex(U, c) = Place(T, c, i, 1 + 1)
  <2>1. NextIndex(U, c) = IF i = NextIndex(T, c) THEN i + 1 ELSE NextIndex(T, c)
    BY <1>4, NextGrows
  <2> QED BY <1>5, <2>1 DEF Place
<1>7. Place(T, c, i, 1) = i
  BY DEF Place
<1>8. NextIndex(U, c) = Place(T, c, s[1].idx, Len(s) + 1)
  BY <1>1, <1>3, <1>6
<1>9. \A j \in DOMAIN s :
        /\ T[s[j].msg] = NoRow
        /\ U[s[j].msg] = [conv |-> c, idx |-> s[j].idx, up |-> FALSE]
        /\ s[j].idx = Place(T, c, s[1].idx, j)
        /\ \A k \in DOMAIN s : s[j].msg = s[k].msg => j = k
  <2> SUFFICES ASSUME NEW j \in DOMAIN s
               PROVE  /\ T[s[j].msg] = NoRow
                      /\ U[s[j].msg] = [conv |-> c, idx |-> s[j].idx, up |-> FALSE]
                      /\ s[j].idx = Place(T, c, s[1].idx, j)
                      /\ \A k \in DOMAIN s : s[j].msg = s[k].msg => j = k
    OBVIOUS
  <2>1. j = 1 /\ s[j].msg = m /\ s[j].idx = i /\ \A k \in DOMAIN s : k = 1
    BY <1>1, <1>3
  <2> QED BY <1>4, <1>7, <2>1
<1>10. \A y \in Msg : (\A j \in DOMAIN s : s[j].msg # y) => U[y] = T[y]
  BY <1>1, <1>3, <1>4
<1> QED BY <1>1, <1>3, <1>8, <1>9, <1>10 DEF Appended

(* Each other message of a batch goes to the next index.                   *)
LEMMA AppendedNext ==
  ASSUME NEW T \in Rows, NEW U \in Rows, NEW c \in Conv, Segment(T, c), Segment(U, c),
         NEW s \in Seq(Given), Appended(T, U, c, s),
         NEW m \in Msg, U[m] = NoRow, NEW i \in Nat, i = NextIndex(U, c),
         NEW V, V = WithRow(U, c, m, i), NEW r, r = Added(s, m, i)
  PROVE  Appended(T, V, c, r)
<1> DEFINE x == [msg |-> m, idx |-> i]
           n == Len(s)
<1>1. x \in Given /\ x.msg = m /\ x.idx = i /\ r = Append(s, x)
  BY DEF Given, Added
<1> HIDE DEF x
<1>2. /\ n \in Nat /\ n >= 1 /\ DOMAIN s = 1..n
      /\ r # <<>> /\ Len(r) = n + 1 /\ DOMAIN r = 1..(n + 1)
      /\ \A j \in 1..n : r[j] = s[j] /\ s[j] \in Given
      /\ r[n + 1] = x
  <2>1. s # <<>>
    BY DEF Appended
  <2>2. n \in Nat /\ n >= 1 /\ DOMAIN s = 1..n /\ \A j \in 1..n : s[j] \in Given
    BY <2>1
  <2>3. /\ r # <<>> /\ Len(r) = n + 1 /\ DOMAIN r = 1..(n + 1)
        /\ \A j \in 1..n : r[j] = s[j]
        /\ r[n + 1] = x
    BY <1>1, AppendAt
  <2> QED BY <2>2, <2>3
<1> HIDE DEF n
<1>3. /\ V[m] = [conv |-> c, idx |-> i, up |-> FALSE]
      /\ \A y \in Msg : y # m => V[y] = U[y]
      /\ Indexes(V, c) = Indexes(U, c) \cup {i}
  BY AddedIndex
<1>4. NextIndex(T, c) \in Nat /\ NextIndex(U, c) \in Nat
  BY DEF Segment
<1>5. NextIndex(V, c) = NextIndex(U, c) + 1
  BY <1>3, NextGrows
<1>6. /\ s[1].idx \in Nat /\ s[1].idx <= NextIndex(T, c) /\ r[1] = s[1]
      /\ NextIndex(U, c) = Place(T, c, s[1].idx, n + 1)
  BY <1>2 DEF Appended, n, Given
<1>7. NextIndex(V, c) = Place(T, c, s[1].idx, n + 2)
  BY <1>2, <1>4, <1>5, <1>6 DEF Place
<1>8. \A j \in 1..n :
        /\ s[j].msg \in Msg /\ s[j].msg # m
        /\ T[s[j].msg] = NoRow
        /\ U[s[j].msg] = [conv |-> c, idx |-> s[j].idx, up |-> FALSE]
        /\ s[j].idx = Place(T, c, s[1].idx, j)
        /\ \A k \in 1..n : s[j].msg = s[k].msg => j = k
  <2>1. ASSUME NEW j \in 1..n
        PROVE  s[j].msg \in Msg /\ s[j].msg # m
    <3>1. s[j].msg \in Msg /\ s[j].idx \in Nat
      BY <1>2 DEF Given
    <3>2. U[s[j].msg] = [conv |-> c, idx |-> s[j].idx, up |-> FALSE]
      BY <1>2 DEF Appended
    <3>3. U[s[j].msg] \in Row
      BY <3>1, <3>2 DEF Row
    <3> QED BY <3>1, <3>3, NoRowIsNoRow
  <2> QED BY <1>2, <2>1 DEF Appended
<1>9. T[m] = NoRow
  <2>1. \A j \in DOMAIN s : s[j].msg # m
    BY <1>2, <1>8
  <2> QED BY <2>1 DEF Appended
<1>10. ASSUME NEW j \in DOMAIN r
       PROVE  /\ T[r[j].msg] = NoRow
              /\ V[r[j].msg] = [conv |-> c, idx |-> r[j].idx, up |-> FALSE]
              /\ r[j].idx = Place(T, c, r[1].idx, j)
              /\ \A k \in DOMAIN r : r[j].msg = r[k].msg => j = k
  <2>1. CASE j \in 1..n
    <3>1. r[j] = s[j] /\ V[s[j].msg] = U[s[j].msg]
      BY <1>2, <1>3, <1>8, <2>1
    <3>2. \A k \in DOMAIN r : r[j].msg = r[k].msg => j = k
      <4>1. \A k \in DOMAIN r : k \in 1..n \/ k = n + 1
        BY <1>2
      <4> QED BY <1>1, <1>2, <1>8, <2>1, <3>1, <4>1
    <3> QED BY <1>6, <1>8, <2>1, <3>1, <3>2
  <2>2. CASE j = n + 1
    <3>1. r[j] = x /\ r[j].msg = m /\ r[j].idx = i
      BY <1>1, <1>2, <2>2
    <3>2. \A k \in DOMAIN r : r[j].msg = r[k].msg => j = k
      <4>1. \A k \in DOMAIN r : k \in 1..n \/ k = n + 1
        BY <1>2
      <4> QED BY <1>2, <1>8, <2>2, <3>1, <4>1
    <3> QED BY <1>3, <1>6, <1>9, <2>2, <3>1, <3>2
  <2> QED BY <1>2, <2>1, <2>2
<1>11. ASSUME NEW y \in Msg, \A j \in DOMAIN r : r[j].msg # y
       PROVE  V[y] = T[y]
  <2>1. \A j \in DOMAIN s : s[j].msg # y
    BY <1>2, <1>11
  <2>2. y # m
    <3>1. n + 1 \in DOMAIN r
      BY <1>2
    <3> QED BY <1>1, <1>2, <1>11, <3>1
  <2> QED BY <1>3, <2>1, <2>2 DEF Appended
<1>12. NextIndex(V, c) = Place(T, c, r[1].idx, Len(r) + 1)
  <2>1. Len(r) + 1 = n + 2
    BY <1>2
  <2> QED BY <1>6, <1>7, <2>1
<1> QED BY <1>2, <1>6, <1>10, <1>11, <1>12 DEF Appended

(* The UPDATE of a call marks rows of its scope.                           *)
LEMMA MarkedNone ==
  ASSUME NEW T \in Rows, NEW c
  PROVE  T = Marked(T, c, {})
BY DEF Marked, Rows

LEMMA MarkedMore ==
  ASSUME NEW T \in Rows, NEW c \in Conv, NEW I \in SUBSET Indexes(T, c),
         NEW U, U = Marked(T, c, I), NEW i,
         NEW V, V = MarkedAt(U, c, i)
  PROVE  \E J \in SUBSET Indexes(T, c) : V = Marked(T, c, J)
<1> DEFINE J == I \cup ({i} \cap Indexes(T, c))
<1>1. ASSUME NEW m \in Msg
      PROVE  V[m] = Marked(T, c, J)[m]
  <2>1. CASE T[m] = NoRow
    BY <2>1 DEF Marked, MarkedAt, RowsOf
  <2>2. CASE T[m] # NoRow
    <3>1. T[m] \in Row /\ T[m].conv = c => T[m].idx \in Indexes(T, c)
      BY <2>2, IndexesAre DEF Rows
    <3>2. T[m] \in Row
      BY <2>2 DEF Rows
    <3>3. /\ [T[m] EXCEPT !.up = TRUE] \in Row
          /\ [T[m] EXCEPT !.up = TRUE].conv = T[m].conv
          /\ [T[m] EXCEPT !.up = TRUE].idx = T[m].idx
          /\ [[T[m] EXCEPT !.up = TRUE] EXCEPT !.up = TRUE] = [T[m] EXCEPT !.up = TRUE]
      BY <3>2 DEF Row
    <3>4. CASE T[m].conv = c /\ T[m].idx \in I
      <4>1. U[m] = [T[m] EXCEPT !.up = TRUE]
        BY <2>2, <3>4 DEF Marked
      <4>2. V[m] = [T[m] EXCEPT !.up = TRUE]
        BY <3>3, <4>1 DEF MarkedAt
      <4> QED BY <2>2, <3>4, <4>2 DEF Marked
    <3>5. CASE ~(T[m].conv = c /\ T[m].idx \in I)
      <4>1. U[m] = T[m]
        BY <3>5 DEF Marked
      <4>2. V[m] = IF T[m].conv = c /\ T[m].idx = i THEN [T[m] EXCEPT !.up = TRUE] ELSE T[m]
        BY <2>2, <4>1 DEF RowsOf, MarkedAt
      <4> QED BY <2>2, <3>1, <3>2, <3>5, <4>2 DEF Marked
    <3> QED BY <3>4, <3>5
  <2> QED BY <2>1, <2>2
<1>2. V = Marked(T, c, J)
  BY <1>1 DEF Marked, MarkedAt
<1> QED BY <1>2

-----------------------------------------------------------------------------
(* The steps keep OnLog.                                                   *)

LEMMA StoreIs ==
  ASSUME AppendInv
  PROVE  /\ table \in Rows /\ txn \in Rows
         /\ \A c \in Conv : Segment(table, c) /\ Segment(txn, c)
         /\ call \in [Thread -> Calling \cup {Idle}]
         /\ \A t \in Thread : t # NoOne
BY StoreAssumption DEF AppendInv, StoreInv, TypeOK, Segments, Rows

(* A step of one call is nothing to another, unless that one has the write *)
(* lock or gets it.                                                        *)
LEMMA OthersOnLog ==
  ASSUME OnLog, NEW u \in Thread, call'[u] = call[u],
         \/ UNCHANGED <<table, txn, writer>>
         \/ writer # u /\ writer' # u
  PROVE  CallOnLog(u)'
<1>1. CallOnLog(u) /\ Inserted(u)' = Inserted(u)
  BY DEF OnLog, Inserted
<1>2. CASE UNCHANGED <<table, txn, writer>>
  BY <1>1, <1>2 DEF CallOnLog
<1>3. CASE writer # u /\ writer' # u
  BY <1>1, <1>3 DEF CallOnLog
<1> QED BY <1>2, <1>3

(* Steps that leave the table, its transaction and its lock alone.         *)
LEMMA CallStepOnLog ==
  ASSUME AppendInv, OnLog, NEW t \in Thread, NEW new, call' = [call EXCEPT ![t] = new],
         UNCHANGED <<table, txn, writer>>, CallOnLog(t)'
  PROVE  OnLog'
<1>1. \A u \in Thread \ {t} : call'[u] = call[u]
  BY StoreIs
<1> QED BY <1>1, OthersOnLog DEF OnLog

LEMMA StartAddOnLog ==
  ASSUME AppendInv, OnLog, NEW t \in Thread, NEW c \in Conv, StartAdd(t, c)
  PROVE  OnLog' /\ table' = table
<1>1. PICK ms \in Batch : Begin(t, c, ms, FALSE)
  BY DEF StartAdd
<1>2. Len(ms) <= MaxBatch
  <2>1. PICK n \in 1..MaxBatch : ms \in [1..n -> Msg]
    BY DEF Batch
  <2>2. ms \in Seq(Msg) /\ Len(ms) = n
    BY <2>1, StoreAssumption
  <2> QED BY <2>1, <2>2, StoreAssumption
<1> DEFINE new == [pc |-> "select", conv |-> c, todo |-> ms, idx |-> 0,
                   sent |-> <<>>, upload |-> AutoUpload /\ ~FALSE]
<1>3. /\ call[t].pc = "idle" /\ call' = [call EXCEPT ![t] = new]
      /\ UNCHANGED <<table, txn, writer, rag, queue, posting, hub>>
  BY <1>1 DEF Begin
<1>4. new.pc = "select" /\ new.todo = ms /\ new.sent = <<>> /\ Len(new.sent) = 0
  OBVIOUS
<1> HIDE DEF new
<1>5. call'[t] = new /\ writer # t
  BY <1>3, StoreIs DEF OnLog, CallOnLog
<1>6. Len(ms) \in Nat
  <2>1. PICK n \in 1..MaxBatch : ms \in [1..n -> Msg]
    BY <1>1 DEF Batch
  <2> QED BY <2>1, StoreAssumption
<1>7. CallOnLog(t)'
  <2>1. Len(<<>>) + Len(ms) <= MaxBatch
    BY <1>2, <1>6
  <2> QED BY <1>3, <1>4, <1>5, <2>1 DEF CallOnLog, Adding, Uploading
<1> QED BY <1>3, <1>7, CallStepOnLog

LEMMA SelectMaxOnLog ==
  ASSUME AppendInv, OnLog, NEW t \in Thread, SelectMax(t)
  PROVE  OnLog' /\ table' = table
<1> DEFINE n == NextIndex(Visible(t), call[t].conv)
           new == [call[t] EXCEPT !.pc = "insert", !.idx = n]
<1>1. call[t] \in Calling /\ call[t].pc = "select"
  BY CallIs DEF AppendInv, StoreInv, SelectMax
<1>2. call' = [call EXCEPT ![t] = new] /\ UNCHANGED <<table, txn, writer>>
  BY StoreIs DEF SelectMax
<1>3. /\ new.pc = "insert" /\ new.idx = n /\ new.conv = call[t].conv
      /\ new.todo = call[t].todo /\ new.sent = call[t].sent
  BY <1>1 DEF Calling
<1> HIDE DEF new
<1>4. call'[t] = new
  BY <1>2, StoreIs
<1>5. writer = t => n = NextIndex(txn, call[t].conv)
  BY DEF Visible
<1> HIDE DEF n
<1>6. CallOnLog(t)
  BY DEF OnLog
<1>7. Inserted(t) = call[t].sent /\ Inserted(t)' = call[t].sent
  BY <1>1, <1>3, <1>4 DEF Inserted
<1>8. CallOnLog(t)'
  BY <1>1, <1>2, <1>3, <1>4, <1>5, <1>6, <1>7 DEF CallOnLog, Adding, Uploading
<1> QED BY <1>2, <1>8, CallStepOnLog

(* The first INSERT of a call opens a transaction, the others go on in it. *)
LEMMA InsertOnLog ==
  ASSUME AppendInv, OnLog, NEW t \in Thread, Insert(t)
  PROVE  OnLog' /\ table' = table
<1> DEFINE m == Head(call[t].todo)
           c == call[t].conv
           i == call[t].idx
           s == call[t].sent
<1>1. /\ call[t].pc = "insert" /\ call[t] \in Calling /\ call[t].todo # <<>>
      /\ c \in Conv /\ i \in Nat /\ s \in Seq(Given)
      /\ m \in Msg /\ m = call[t].todo[1] /\ 1 \in DOMAIN call[t].todo
  <2>1. call[t].pc = "insert" /\ call[t].todo # <<>>
    BY DEF Insert, AppendInv, StoreInv, CallShape, Adding
  <2>2. /\ call[t] \in Calling /\ c \in Conv /\ i \in Nat /\ s \in Seq(Given)
        /\ call[t].todo \in Seq(Msg)
    BY <2>1, CallIs DEF AppendInv, StoreInv, Given
  <2> QED BY <2>1, <2>2, HeadAndTail
<1>2. Visible(t) = txn
  BY VisibleIs DEF Insert
<1>3. /\ writer \in {NoOne, t} /\ writer' = t
      /\ txn' = WithRow(txn, c, m, i)
      /\ call' = [call EXCEPT ![t] = [call[t] EXCEPT !.pc = "index"]]
      /\ table' = table
  BY <1>2 DEF Insert, LockFree, AppendInv, StoreInv, TypeOK, WithRow
<1>4. /\ call'[t].pc = "index" /\ call'[t].conv = c /\ call'[t].idx = i
      /\ call'[t].todo = call[t].todo /\ call'[t].sent = s
      /\ \A u \in Thread \ {t} : call'[u] = call[u]
  BY <1>1, <1>3 DEF AppendInv, StoreInv, TypeOK, Calling
<1>5. Inserted(t)' = Added(s, m, i)
  BY <1>4 DEF Inserted
<1>6. txn[m] = NoRow /\ table[m] = NoRow
  BY <1>1 DEF AppendInv, Unstored, Adding, TxnKeeps
<1>7. CallOnLog(t)
  BY DEF OnLog
<1>12. Len(s) + Len(call[t].todo) <= MaxBatch
  BY <1>1, <1>7 DEF CallOnLog, Adding
<1> HIDE DEF m, c, i, s
<1>8. Appended(table, txn', c, Inserted(t)')
  <2>1. CASE writer = t
    <3>1. Appended(table, txn, c, s) /\ i = NextIndex(txn, c)
      BY <1>1, <1>7, <2>1 DEF CallOnLog, Adding, Inserted, c, i, s
    <3> QED BY <1>1, <1>3, <1>5, <1>6, <3>1, StoreIs, AppendedNext
  <2>2. CASE writer = NoOne
    <3>1. writer # t
      BY <2>2, StoreIs
    <3>2. txn = table /\ s = <<>> /\ i <= NextIndex(table, c)
      BY <1>1, <1>7, <2>2, <3>1 DEF AppendInv, StoreInv, LockHeld, ReadIndex, Visible, CallOnLog, c, i, s
    <3> QED BY <1>1, <1>3, <1>5, <1>6, <3>2, StoreIs, AppendedFirst
  <2> QED BY <1>3, <2>1, <2>2
<1>9. CallOnLog(t)'
  BY <1>3, <1>4, <1>8, <1>12 DEF CallOnLog, Adding, Uploading
<1>10. \A u \in Thread \ {t} : writer # u /\ writer' # u
  BY <1>3, StoreIs
<1>11. \A u \in Thread \ {t} : CallOnLog(u)'
  BY <1>4, <1>10, OthersOnLog
<1> QED BY <1>3, <1>9, <1>11 DEF OnLog

LEMMA IndexDocumentOnLog ==
  ASSUME AppendInv, OnLog, NEW t \in Thread, IndexDocument(t)
  PROVE  OnLog' /\ table' = table
<1> DEFINE m == Head(call[t].todo)
           rest == Tail(call[t].todo)
           sent == Added(call[t].sent, m, call[t].idx)
           new == [call[t] EXCEPT
             !.todo = Tail(@),
             !.sent = Append(@, [msg |-> m, idx |-> call[t].idx]),
             !.pc = IF Len(call[t].todo) > 1 THEN "select" ELSE "commit"]
<1>1. call[t].pc = "index" /\ call[t] \in Calling /\ call[t].todo # <<>>
  BY CallIs DEF IndexDocument, AppendInv, StoreInv, CallShape, Adding
<1>2. /\ call[t].todo \in Seq(Msg) /\ call[t].idx \in Nat /\ call[t].conv \in Conv
      /\ call[t].sent \in Seq(Given)
  BY <1>1 DEF Calling, Given
<1>3. /\ m \in Msg /\ Len(call[t].todo) \in Nat /\ Len(call[t].todo) >= 1
      /\ Len(rest) = Len(call[t].todo) - 1
  BY <1>1, <1>2, HeadAndTail
<1>4. Len(call[t].sent) \in Nat /\ Len(sent) = Len(call[t].sent) + 1
  <2>1. [msg |-> m, idx |-> call[t].idx] \in Given
    BY <1>2, <1>3 DEF Given
  <2> QED BY <1>2, <2>1, AppendAt DEF Added
<1>5. call' = [call EXCEPT ![t] = new] /\ UNCHANGED <<table, txn, writer>>
  BY DEF IndexDocument, AppendInv, StoreInv, TypeOK
<1>6. /\ new.conv = call[t].conv /\ new.todo = rest /\ new.sent = sent
      /\ new.pc = IF Len(call[t].todo) > 1 THEN "select" ELSE "commit"
  BY <1>1 DEF Calling, Added
<1>7. Inserted(t) = sent
  BY <1>1 DEF Inserted
<1> HIDE DEF m, rest, sent, new
<1>8. call'[t] = new
  BY <1>5, StoreIs
<1>9. Inserted(t)' = sent
  BY <1>6, <1>8 DEF Inserted
<1>10. writer = t
  BY <1>1 DEF AppendInv, StoreInv, LockHeld
<1>11. Appended(table, txn, call[t].conv, sent) /\ Len(call[t].sent) + Len(call[t].todo) <= MaxBatch
  BY <1>1, <1>7, <1>10 DEF OnLog, CallOnLog, Adding
<1>12. /\ Len(sent) + Len(rest) <= MaxBatch
       /\ ~(Len(call[t].todo) > 1) => Len(sent) <= MaxBatch
  <2>1. PICK a \in Nat, b \in Nat :
          /\ Len(call[t].sent) = a /\ Len(call[t].todo) = b /\ b >= 1
          /\ Len(sent) = a + 1 /\ Len(rest) = b - 1
    BY <1>3, <1>4
  <2>2. a + b <= MaxBatch
    BY <1>11, <2>1
  <2>3. (a + 1) + (b - 1) <= MaxBatch /\ (~(b > 1) => a + 1 <= MaxBatch)
    BY <2>1, <2>2, StoreAssumption
  <2> QED BY <2>1, <2>3
<1>14. CallOnLog(t)'
  <2>1. /\ call'[t].pc \in {"select", "commit"} /\ call'[t].conv = call[t].conv
        /\ call'[t].sent = sent /\ call'[t].todo = rest
        /\ call'[t].pc = "commit" => ~(Len(call[t].todo) > 1)
        /\ writer' = t /\ table' = table /\ txn' = txn
    BY <1>5, <1>6, <1>8, <1>10
  <2> QED BY <1>9, <1>11, <1>12, <2>1 DEF CallOnLog, Adding, Uploading
<1> QED BY <1>5, <1>14, CallStepOnLog

(* Steps after which a call is over, and the lock is not its.              *)
LEMMA EndsOnLog ==
  ASSUME AppendInv, OnLog, NEW t \in Thread, call' = [call EXCEPT ![t] = Idle],
         \/ writer = t /\ writer' = NoOne
         \/ writer # t /\ UNCHANGED <<table, txn, writer>>
  PROVE  OnLog'
<1>1. call'[t] = Idle /\ call'[t].pc = "idle" /\ writer' # t
  BY StoreIs DEF Idle
<1>2. CallOnLog(t)'
  BY <1>1 DEF CallOnLog, Adding
<1>3. \A u \in Thread \ {t} : call'[u] = call[u]
  BY StoreIs
<1>4. \A u \in Thread \ {t} : UNCHANGED <<table, txn, writer>> \/ (writer # u /\ writer' # u)
  BY StoreIs
<1>5. \A u \in Thread \ {t} : CallOnLog(u)'
  BY <1>3, <1>4, OthersOnLog
<1> QED BY <1>2, <1>5 DEF OnLog

(* The exception or the lost lock leaves nothing in the log.               *)
LEMMA RaisesOnLog ==
  ASSUME AppendInv, OnLog, NEW t \in Thread, IndexRaises(t) \/ LockTimeout(t)
  PROVE  OnLog' /\ table' = table
<1>1. CASE IndexRaises(t)
  <2>1. writer = t
    BY <1>1 DEF IndexRaises, AppendInv, StoreInv, LockHeld
  <2> QED BY <1>1, <2>1, EndsOnLog DEF IndexRaises
<1>2. CASE LockTimeout(t)
  <2>1. writer # t
    BY <1>2 DEF LockTimeout, LockFree
  <2> QED BY <1>2, <2>1, EndsOnLog DEF LockTimeout
<1> QED BY <1>1, <1>2

(* After its commit a call holds the lock no longer.                       *)
LEMMA CommitOnLog ==
  ASSUME AppendInv, OnLog, NEW t \in Thread, Commit(t)
  PROVE  OnLog'
<1>1. /\ call[t].pc = "commit" /\ writer = t /\ writer' = NoOne
      /\ call' = [call EXCEPT ![t] = IF call[t].upload
                    THEN [call[t] EXCEPT !.pc = "upload"] ELSE Idle]
  BY DEF Commit, AppendInv, StoreInv, LockHeld
<1>2. CASE ~call[t].upload
  BY <1>1, <1>2, EndsOnLog
<1>3. CASE call[t].upload
  <2>1. call[t] \in Calling
    BY <1>1, CallIs DEF AppendInv, StoreInv
  <2>2. call'[t].pc = "upload" /\ \A u \in Thread \ {t} : call'[u] = call[u]
    BY <1>1, <1>3, <2>1, StoreIs DEF Calling
  <2>3. writer' # t
    BY <1>1, StoreIs
  <2>4. CallOnLog(t)'
    BY <2>2, <2>3 DEF CallOnLog, Adding
  <2>5. \A u \in Thread \ {t} : writer # u /\ writer' # u
    BY <1>1, StoreIs
  <2>6. \A u \in Thread \ {t} : CallOnLog(u)'
    BY <2>2, <2>5, OthersOnLog
  <2> QED BY <2>4, <2>6 DEF OnLog
<1> QED BY <1>2, <1>3

LEMMA CommitMarksOnLog ==
  ASSUME AppendInv, OnLog, NEW t \in Thread, CommitMarks(t)
  PROVE  OnLog'
<1>1. writer = t /\ writer' = NoOne /\ call' = [call EXCEPT ![t] = Idle]
  BY DEF CommitMarks, AppendInv, StoreInv, LockHeld
<1> QED BY <1>1, EndsOnLog

(* A call that waits for the upload may hold the lock all the while.       *)
LEMMA WaitOnLog ==
  ASSUME AppendInv, OnLog, NEW t \in Thread, NEW next \in {"wait", "mark"},
         call[t].pc \in {"upload", "wait"}, UNCHANGED <<table, txn, writer>>,
         call' = [call EXCEPT ![t].pc = next]
  PROVE  OnLog'
<1> DEFINE new == [call[t] EXCEPT !.pc = next]
<1>1. call[t] \in Calling
  BY CallIs DEF AppendInv, StoreInv
<1>2. new.pc = next /\ new.conv = call[t].conv
  BY <1>1 DEF Calling
<1>3. call' = [call EXCEPT ![t] = new]
  BY StoreIs
<1> HIDE DEF new
<1>4. call'[t] = new
  BY <1>3, StoreIs
<1>5. CallOnLog(t)
  BY DEF OnLog
<1>6. CallOnLog(t)'
  BY <1>2, <1>4, <1>5 DEF CallOnLog, Adding, Uploading
<1> QED BY <1>3, <1>6, CallStepOnLog

LEMMA MarkUploadedOnLog ==
  ASSUME AppendInv, OnLog, NEW t \in Thread, MarkUploaded(t)
  PROVE  OnLog' /\ table' = table
<1> DEFINE c == call[t].conv
           i == Head(call[t].sent).idx
           new == [call[t] EXCEPT
             !.sent = Tail(@),
             !.pc = IF Len(call[t].sent) > 1 THEN "upload" ELSE "close"]
<1>1. call[t].pc = "mark" /\ call[t] \in Calling /\ c \in Conv
  BY CallIs DEF MarkUploaded, AppendInv, StoreInv
<1>2. Visible(t) = txn
  BY VisibleIs DEF MarkUploaded
<1>3. /\ writer \in {NoOne, t} /\ writer' = t /\ table' = table
      /\ txn' = MarkedAt(txn, c, i)
      /\ call' = [call EXCEPT ![t] = new]
  BY <1>2 DEF MarkUploaded, LockFree, MarkedAt, AppendInv, StoreInv, TypeOK
<1>4. new.conv = c /\ new.pc \in {"upload", "close"}
  BY <1>1 DEF Calling
<1> HIDE DEF i, new
<1>5. /\ call'[t] = new /\ \A u \in Thread \ {t} : call'[u] = call[u]
      /\ \A u \in Thread \ {t} : writer # u /\ writer' # u
  BY <1>3, StoreIs
<1>6. \E I \in SUBSET Indexes(table, c) : txn = Marked(table, c, I)
  <2>1. CASE writer = t
    BY <1>1, <2>1 DEF OnLog, CallOnLog, Uploading
  <2>2. CASE writer = NoOne
    BY <2>2, StoreIs, MarkedNone DEF AppendInv, StoreInv, LockHeld
  <2> QED BY <1>3, <2>1, <2>2
<1>7. \E J \in SUBSET Indexes(table, c) : txn' = Marked(table, c, J)
  <2>1. PICK I \in SUBSET Indexes(table, c) : txn = Marked(table, c, I)
    BY <1>6
  <2> QED BY <1>1, <1>3, <2>1, StoreIs, MarkedMore
<1>8. CallOnLog(t)'
  BY <1>3, <1>4, <1>5, <1>7 DEF CallOnLog, Adding, Uploading
<1>9. \A u \in Thread \ {t} : CallOnLog(u)'
  BY <1>5, OthersOnLog
<1> QED BY <1>3, <1>8, <1>9 DEF OnLog

(* The upload thread, a crash and a step of another part.                  *)
LEMMA StillOnLog ==
  ASSUME OnLog, UNCHANGED <<table, txn, writer, call>>
  PROVE  OnLog'
BY OthersOnLog DEF OnLog

LEMMA UploaderOnLog ==
  ASSUME AppendInv, OnLog, Uploader
  PROVE  OnLog' /\ table' = table
<1>1. CASE TakeTask \/ PostFails
  BY <1>1, StillOnLog DEF TakeTask, PostFails
<1>2. CASE PostSucceeds
  <2>1. PICK t \in Thread : t = posting.thread
    BY <1>2, TasksAre DEF PostSucceeds, AppendInv, StoreInv
  <2>2. call[t].pc = "wait"
    BY <1>2, <2>1 DEF PostSucceeds, AppendInv, StoreInv, OneTask, TaskOf
  <2>3. UNCHANGED <<table, txn, writer>> /\ call' = [call EXCEPT ![t].pc = "mark"]
    BY <1>2, <2>1 DEF PostSucceeds
  <2> QED BY <2>2, <2>3, WaitOnLog
<1> QED BY <1>1, <1>2 DEF Uploader

LEMMA CrashOnLog ==
  ASSUME Crash
  PROVE  OnLog' /\ table' = table
<1>1. writer' = NoOne /\ table' = table /\ \A t \in Thread : call'[t].pc = "idle"
  BY DEF Crash, Idle
<1>2. \A t \in Thread : writer' # t
  BY <1>1, StoreAssumption
<1> QED BY <1>1, <1>2 DEF OnLog, CallOnLog, Adding

-----------------------------------------------------------------------------
(* The commits are steps of the log.                                       *)

LEMMA LogSize ==
  ASSUME NEW c
  PROVE  Log!IndexesIn(c) = Indexes(table, c) /\ Log!Size(c) = NextIndex(table, c)
<1>1. Log!IndexesIn(c) = Indexes(table, c)
  BY DEF Log!IndexesIn, Indexes, RowsOf
<1> QED BY <1>1 DEF Log!Size, NextIndex

LEMMA CommitIsAppend ==
  ASSUME AppendInv, OnLog, NEW t \in Thread, Commit(t)
  PROVE  Log!Next
<1> DEFINE c == call[t].conv
           s == call[t].sent
           n == Len(s)
           k == s[1].idx
           ms == [i \in 1..n |-> s[i].msg]
<1>1. /\ call[t].pc = "commit" /\ writer = t /\ table' = txn
      /\ c \in Conv /\ s \in Seq(Given)
  BY CallIs DEF Commit, AppendInv, StoreInv, LockHeld, Given
<1>2. Appended(table, txn, c, s) /\ n <= MaxBatch
  BY <1>1 DEF OnLog, CallOnLog, Inserted
<1>3. /\ n \in 1..MaxBatch /\ DOMAIN s = 1..n
      /\ \A i \in 1..n : s[i] \in Given /\ s[i].msg \in Msg /\ s[i].idx \in Nat
  <2>1. s # <<>>
    BY <1>2 DEF Appended
  <2>2. n \in Nat /\ n >= 1 /\ DOMAIN s = 1..n /\ \A i \in 1..n : s[i] \in Given
    BY <1>1, <2>1
  <2> QED BY <1>2, <2>2, StoreAssumption DEF Given
<1> HIDE DEF c, s, n
<1>4. ms \in [1..n -> Msg] /\ DOMAIN ms = 1..n /\ \A i \in 1..n : ms[i] = s[i].msg
  BY <1>3
<1>5. k \in 0..Log!Size(c)
  <2>1. k \in Nat /\ k <= NextIndex(table, c)
    BY <1>2, <1>3 DEF Appended
  <2>2. NextIndex(table, c) \in Nat
    BY <1>1, StoreIs DEF Segment
  <2> QED BY <2>1, <2>2, LogSize
<1>6. \A i \in 1..n : Log!Position(c, k, i) = s[i].idx
  <2>1. \A i \in 1..n : s[i].idx = Place(table, c, k, i)
    BY <1>2, <1>3 DEF Appended
  <2>2. Log!Size(c) = NextIndex(table, c)
    BY LogSize
  <2>3. \A i : Log!Position(c, k, i) = Place(table, c, k, i)
    BY <2>2 DEF Log!Position, Place
  <2> QED BY <2>1, <2>3
<1> HIDE DEF k, ms
<1>7. /\ \A i \in DOMAIN ms : table[ms[i]] = NoRow
      /\ \A i, j \in DOMAIN ms : ms[i] = ms[j] => i = j
  <2>1. \A i \in 1..n : /\ table[s[i].msg] = NoRow
                        /\ \A j \in 1..n : s[i].msg = s[j].msg => i = j
    BY <1>2, <1>3 DEF Appended
  <2> QED BY <1>4, <2>1
<1> DEFINE result(m) ==
      IF \E i \in DOMAIN ms : ms[i] = m
      THEN [conv |-> c, up |-> FALSE,
            idx |-> Log!Position(c, k, CHOOSE i \in DOMAIN ms : ms[i] = m)]
      ELSE table[m]
<1>8. ASSUME NEW m \in Msg
      PROVE  txn[m] = result(m)
  <2>1. CASE \E i \in DOMAIN ms : ms[i] = m
    <3>1. PICK i \in 1..n : i = CHOOSE j \in DOMAIN ms : ms[j] = m
      BY <1>4, <2>1
    <3>2. ms[i] = m
      BY <2>1, <3>1
    <3>3. txn[m] = [conv |-> c, idx |-> s[i].idx, up |-> FALSE]
      BY <1>2, <1>3, <1>4, <3>2 DEF Appended
    <3>4. result(m) = [conv |-> c, up |-> FALSE, idx |-> Log!Position(c, k, i)]
      BY <2>1, <3>1
    <3>5. [conv |-> c, up |-> FALSE, idx |-> s[i].idx] = [conv |-> c, idx |-> s[i].idx, up |-> FALSE]
      OBVIOUS
    <3> QED BY <1>6, <3>3, <3>4, <3>5
  <2>2. CASE ~ \E i \in DOMAIN ms : ms[i] = m
    BY <1>2, <1>3, <1>4, <2>2 DEF Appended
  <2> QED BY <2>1, <2>2
<1>9. txn = [m \in Msg |-> txn[m]]
  BY StoreIs DEF Rows
<1>10. table' = [m \in Msg |-> result(m)]
  BY <1>1, <1>8, <1>9
<1>11. Log!Append(c, k, ms)
  BY <1>7, <1>10 DEF Log!Append
<1> QED BY <1>1, <1>3, <1>4, <1>5, <1>11 DEF Log!Next

LEMMA CommitMarksIsMark ==
  ASSUME AppendInv, OnLog, NEW t \in Thread, CommitMarks(t)
  PROVE  Log!Next
<1>1. /\ call[t].pc = "close" /\ writer = t /\ table' = txn /\ call[t].conv \in Conv
  BY CallIs DEF CommitMarks, AppendInv, StoreInv, LockHeld
<1>2. PICK I \in SUBSET Indexes(table, call[t].conv) : txn = Marked(table, call[t].conv, I)
  BY <1>1 DEF OnLog, CallOnLog
<1>3. Log!Mark(call[t].conv, I)
  BY <1>1, <1>2 DEF Log!Mark, Marked
<1>4. I \in SUBSET Log!IndexesIn(call[t].conv)
  BY <1>2, LogSize
<1> QED BY <1>1, <1>3, <1>4 DEF Log!Next

(* A step of a process that only adds is a step of the log or leaves it.   *)
LEMMA StepOnLog ==
  ASSUME AppendInv, OnLog, [AppendNext]_vars
  PROVE  OnLog' /\ [Log!Next]_table
<1>1. CASE \E t \in Thread, c \in Conv : StartAdd(t, c)
  BY <1>1, StartAddOnLog
<1>2. ASSUME NEW t \in Thread, AddStep(t)
      PROVE  OnLog' /\ [Log!Next]_table
  <2>1. CASE SelectMax(t) \/ Insert(t) \/ IndexDocument(t)
    BY <2>1, SelectMaxOnLog, InsertOnLog, IndexDocumentOnLog
  <2>2. CASE IndexRaises(t) \/ LockTimeout(t)
    BY <2>2, RaisesOnLog
  <2>3. CASE Commit(t)
    BY <2>3, CommitOnLog, CommitIsAppend
  <2>4. CASE QueueUpload(t)
    BY <2>4, WaitOnLog DEF QueueUpload
  <2>5. CASE MarkUploaded(t)
    BY <2>5, MarkUploadedOnLog
  <2>6. CASE CommitMarks(t)
    BY <2>6, CommitMarksOnLog, CommitMarksIsMark
  <2> QED BY <1>2, <2>1, <2>2, <2>3, <2>4, <2>5, <2>6 DEF AddStep
<1>3. CASE Uploader
  BY <1>3, UploaderOnLog
<1>4. CASE Crash
  BY <1>4, CrashOnLog
<1>5. CASE UNCHANGED vars
  BY <1>5, StillOnLog DEF vars
<1> QED BY <1>1, <1>2, <1>3, <1>4, <1>5 DEF AppendNext

(* With its threads, its one write lock, the vector store and the upload   *)
(* queue between them, the store implements the log: a call's messages     *)
(* appear together at its commit, in places that were free to take, and    *)
(* its marks together at the commit that ends it (sqlite_memory.py:59-127).*)
THEOREM StoreImplementsLog == AppendSpec => ImplementsLog
<1>1. Init => OnLog /\ Log!Init
  <2> SUFFICES ASSUME Init
               PROVE  OnLog /\ Log!Init
    OBVIOUS
  <2>1. \A t \in Thread : call[t].pc = "idle" /\ writer # t
    BY StoreAssumption DEF Init, Idle
  <2> QED BY <2>1 DEF Init, OnLog, CallOnLog, Adding, Log!Init
<1>2. AppendInv /\ OnLog /\ [AppendNext]_vars => OnLog' /\ [Log!Next]_table
  BY StepOnLog
<1>3. AppendSpec => []AppendInv
  BY AppendInvHolds
<1> QED BY <1>1, <1>2, <1>3, PTL DEF AppendSpec, ImplementsLog, Log!Spec

-----------------------------------------------------------------------------
(* How many rows can have one index. A thread that is about to insert at   *)
(* an index counts with the rows that have it already: reading the index   *)
(* again after its own insert, a thread never gets the same one.           *)

RowsAt(T, c, i) == {m \in RowsOf(T, c) : T[m].idx = i}

Inserting(c, i) ==
  {t \in Thread : call[t].pc = "insert" /\ call[t].conv = c /\ call[t].idx = i}

Shared(c, i) ==
  /\ IsFiniteSet(RowsAt(txn, c, i))
  /\ Cardinality(RowsAt(txn, c, i)) + Cardinality(Inserting(c, i)) <= Cardinality(Thread)

SharedRows == \A c \in Conv, i \in Nat : Shared(c, i)

LEMMA InsertingIs ==
  ASSUME NEW c, NEW i
  PROVE  /\ IsFiniteSet(Inserting(c, i)) /\ Cardinality(Inserting(c, i)) \in Nat
         /\ Cardinality(Inserting(c, i)) <= Cardinality(Thread)
         /\ Cardinality(Thread) \in Nat
         /\ IsFiniteSet(Inserting(c, i)') /\ Cardinality(Inserting(c, i)') \in Nat
         /\ Cardinality(Inserting(c, i)') <= Cardinality(Thread)
<1>1. Inserting(c, i) \in SUBSET Thread /\ Inserting(c, i)' \in SUBSET Thread
  BY DEF Inserting
<1>2. \A S \in SUBSET Thread : IsFiniteSet(S) /\ Cardinality(S) <= Cardinality(Thread)
  BY ThreadsAssumption, FS_Subset
<1> QED BY <1>1, <1>2, ThreadsAssumption, FS_CardinalityType

(* Fewer rows and fewer threads about to insert.                           *)
LEMMA SharedKept ==
  ASSUME NEW c, NEW i, Shared(c, i),
         RowsAt(txn', c, i) \subseteq RowsAt(txn, c, i),
         Inserting(c, i)' \subseteq Inserting(c, i)
  PROVE  Shared(c, i)'
<1>1. /\ IsFiniteSet(RowsAt(txn', c, i))
      /\ Cardinality(RowsAt(txn', c, i)) <= Cardinality(RowsAt(txn, c, i))
      /\ Cardinality(RowsAt(txn, c, i)) \in Nat /\ Cardinality(RowsAt(txn', c, i)) \in Nat
  BY FS_Subset, FS_CardinalityType DEF Shared
<1>2. /\ Cardinality(Inserting(c, i)') <= Cardinality(Inserting(c, i))
      /\ Cardinality(Inserting(c, i)) \in Nat /\ Cardinality(Inserting(c, i)') \in Nat
      /\ Cardinality(Thread) \in Nat
  BY InsertingIs, FS_Subset
<1>3. Cardinality(RowsAt(txn', c, i)) + Cardinality(Inserting(c, i)') <= Cardinality(Thread)
  BY <1>1, <1>2 DEF Shared
<1> QED BY <1>1, <1>3 DEF Shared

(* The messages of one batch have different indexes.                       *)
LEMMA OneOfBatch ==
  ASSUME NEW T \in Rows, NEW U \in Rows, NEW c \in Conv, Segment(T, c), Segment(U, c),
         NEW s \in Seq(Given), Appended(T, U, c, s), NEW d \in Conv, Segment(T, d),
         NEW i \in Nat, i = NextIndex(T, d)
  PROVE  \A m, k \in RowsAt(U, d, i) : m = k
<1>1. s # <<>> /\ Len(s) \in Nat /\ DOMAIN s = 1..Len(s)
      /\ \A j \in 1..Len(s) : s[j] \in Given /\ s[j].msg \in Msg /\ s[j].idx \in Nat
  <2>1. s # <<>>
    BY DEF Appended
  <2>2. Len(s) \in Nat /\ DOMAIN s = 1..Len(s) /\ \A j \in 1..Len(s) : s[j] \in Given
    OBVIOUS
  <2> QED BY <2>1, <2>2 DEF Given
<1>2. NextIndex(T, c) \in Nat
  BY DEF Segment
<1>3. \A j, l \in DOMAIN s : s[j].idx = s[l].idx => j = l
  <2>1. 1 \in DOMAIN s
    BY <1>1
  <2>2. s[1].idx \in Nat /\ s[1].idx <= NextIndex(T, c)
    BY <1>1, <2>1 DEF Appended
  <2>3. \A j \in 1..Len(s) : s[j].idx = Place(T, c, s[1].idx, j)
    BY <1>1 DEF Appended
  <2>4. \A j, l \in 1..Len(s) :
          Place(T, c, s[1].idx, j) = Place(T, c, s[1].idx, l) => j = l
    BY <1>1, <1>2, <2>2 DEF Place
  <2> QED BY <1>1, <2>3, <2>4
<1>4. ASSUME NEW m \in RowsAt(U, d, i)
      PROVE  \E j \in DOMAIN s : s[j].msg = m /\ s[j].idx = i
  <2>1. m \in Msg /\ U[m] # NoRow /\ U[m].conv = d /\ U[m].idx = i
    BY DEF RowsAt, RowsOf
  <2>2. U[m] # T[m]
    <3>1. CASE U[m] = T[m]
      <4>1. i \in Indexes(T, d)
        BY <2>1, <3>1 DEF Indexes, RowsOf
      <4>2. PICK n \in Nat : n = NextIndex(T, d) /\ Indexes(T, d) = 0..(n - 1)
        BY DEF Segment
      <4> QED BY <4>1, <4>2
    <3> QED BY <3>1
  <2>3. PICK j \in DOMAIN s : s[j].msg = m
    BY <2>1, <2>2 DEF Appended
  <2>4. U[m] = [conv |-> c, idx |-> s[j].idx, up |-> FALSE]
    BY <2>3 DEF Appended
  <2> QED BY <2>1, <2>3, <2>4
<1> QED BY <1>3, <1>4

(* The steps of which no row and no thread about to insert is a result.    *)
LEMMA SharedRowsKept ==
  ASSUME SharedRows,
         \A c \in Conv, i \in Nat : RowsAt(txn', c, i) \subseteq RowsAt(txn, c, i),
         \A u \in Thread : call'[u].pc = "insert" => call'[u] = call[u]
  PROVE  SharedRows'
<1>1. \A c \in Conv, i \in Nat : Inserting(c, i)' \subseteq Inserting(c, i)
  BY DEF Inserting
<1> QED BY <1>1, SharedKept DEF SharedRows

LEMMA OthersShare ==
  ASSUME AppendInv, SharedRows,
         \/ \E t \in Thread, c \in Conv : StartAdd(t, c)
         \/ \E t \in Thread : IndexDocument(t) \/ IndexRaises(t) \/ Commit(t) \/ QueueUpload(t)
                              \/ MarkUploaded(t) \/ CommitMarks(t) \/ LockTimeout(t)
         \/ Uploader \/ Crash \/ UNCHANGED vars
  PROVE  SharedRows'
<1>1. \A c \in Conv, i \in Nat : RowsAt(table, c, i) \subseteq RowsAt(txn, c, i)
  BY DEF RowsAt, RowsOf, AppendInv, TxnKeeps
<1>2. CASE \E t \in Thread : MarkUploaded(t)
  <2>1. PICK t \in Thread : MarkUploaded(t)
    BY <1>2
  <2>2. Visible(t) = txn /\ txn \in Rows
    BY <2>1, VisibleIs DEF MarkUploaded
  <2>3. PICK c, i : txn' = MarkedAt(txn, c, i)
    <3>1. txn' = MarkedAt(txn, call[t].conv, Head(call[t].sent).idx)
      BY <2>1, <2>2 DEF MarkUploaded, MarkedAt
    <3> QED BY <3>1, Zenon
  <2>4. ASSUME NEW m \in Msg, txn'[m] # NoRow
        PROVE  txn[m] # NoRow /\ txn'[m].conv = txn[m].conv /\ txn'[m].idx = txn[m].idx
    <3>1. txn'[m] = [txn[m] EXCEPT !.up = TRUE] \/ txn'[m] = txn[m]
      BY <2>3 DEF MarkedAt
    <3>2. CASE txn'[m] = txn[m]
      BY <2>4, <3>2
    <3>3. CASE txn'[m] # txn[m]
      <4>1. txn[m] \in Row /\ txn[m] # NoRow
        BY <2>2, <2>3, <3>3 DEF MarkedAt, RowsOf, Rows
      <4> QED BY <3>1, <3>3, <4>1 DEF Row
    <3> QED BY <3>2, <3>3
  <2>5. \A d \in Conv, j \in Nat : RowsAt(txn', d, j) \subseteq RowsAt(txn, d, j)
    BY <2>4 DEF RowsAt, RowsOf
  <2>6. \A u \in Thread : call'[u].pc = "insert" => call'[u] = call[u]
    <3>1. call[t] \in Calling
      BY <2>1, CallIs DEF MarkUploaded, AppendInv, StoreInv
    <3>2. call'[t].pc # "insert"
      BY <2>1, <3>1, StoreIs DEF MarkUploaded, Calling
    <3>3. \A u \in Thread \ {t} : call'[u] = call[u]
      BY <2>1, StoreIs DEF MarkUploaded
    <3> QED BY <3>2, <3>3
  <2> QED BY <2>5, <2>6, SharedRowsKept
<1>3. CASE ~ \E t \in Thread : MarkUploaded(t)
  <2>1. txn' = txn \/ txn' = table
    BY <1>3 DEF StartAdd, Begin, IndexDocument, IndexRaises, Commit, QueueUpload, CommitMarks,
       LockTimeout, Uploader, TakeTask, PostSucceeds, PostFails, Crash, vars
  <2>2. \A u \in Thread : call'[u].pc = "insert" => call'[u] = call[u]
    <3>1. ASSUME NEW t \in Thread, NEW new, call' = [call EXCEPT ![t] = new], new.pc # "insert"
          PROVE  <2>2
      BY <3>1, StoreIs
    <3>2. ASSUME NEW t \in Thread, NEW p, p # "insert", call[t].pc # "idle",
                 call' = [call EXCEPT ![t].pc = p]
          PROVE  <2>2
      <4>1. call[t] \in Calling
        BY <3>2, CallIs DEF AppendInv, StoreInv
      <4>2. call'[t].pc = p
        BY <3>2, <4>1, StoreIs DEF Calling
      <4> QED BY <3>1, <3>2, <4>2, StoreIs
    <3>3. CASE \E t \in Thread, c \in Conv : StartAdd(t, c)
      BY <3>1, <3>3 DEF StartAdd, Begin
    <3>4. ASSUME NEW t \in Thread, IndexDocument(t)
          PROVE  <2>2
      <4>1. call[t] \in Calling
        BY <3>4, CallIs DEF AppendInv, StoreInv, IndexDocument
      <4>2. call'[t].pc # "insert" /\ \A u \in Thread \ {t} : call'[u] = call[u]
        BY <3>4, <4>1, StoreIs DEF IndexDocument, Calling
      <4> QED BY <4>2
    <3>5. ASSUME NEW t \in Thread, IndexRaises(t) \/ LockTimeout(t) \/ CommitMarks(t)
          PROVE  <2>2
      BY <3>1, <3>5 DEF IndexRaises, LockTimeout, CommitMarks, Idle
    <3>6. ASSUME NEW t \in Thread, Commit(t)
          PROVE  <2>2
      <4>1. call[t] \in Calling
        BY <3>6, CallIs DEF AppendInv, StoreInv, Commit
      <4>2. [call[t] EXCEPT !.pc = "upload"].pc = "upload" /\ Idle.pc = "idle"
        BY <4>1 DEF Calling, Idle
      <4> QED BY <3>1, <3>6, <4>2 DEF Commit
    <3>7. ASSUME NEW t \in Thread, QueueUpload(t)
          PROVE  <2>2
      BY <3>2, <3>7 DEF QueueUpload
    <3>8. CASE PostSucceeds
      <4>1. posting.thread \in Thread /\ call[posting.thread].pc = "wait"
        BY <3>8, TasksAre DEF PostSucceeds, AppendInv, StoreInv, OneTask, TaskOf
      <4> QED BY <3>2, <3>8, <4>1 DEF PostSucceeds
    <3>9. CASE Crash
      BY <3>9 DEF Crash, Idle
    <3>10. CASE UNCHANGED vars \/ TakeTask \/ PostFails
      BY <3>10 DEF TakeTask, PostFails, vars
    <3> QED BY <1>3, <3>3, <3>4, <3>5, <3>6, <3>7, <3>8, <3>9, <3>10 DEF Uploader
  <2> QED BY <1>1, <2>1, <2>2, SharedRowsKept
<1> QED BY <1>2, <1>3

(* An INSERT turns a thread that is about to insert into a row.            *)
LEMMA InsertShares ==
  ASSUME AppendInv, SharedRows, NEW t \in Thread, Insert(t)
  PROVE  SharedRows'
<1>1. /\ call[t].pc = "insert" /\ call[t] \in Calling /\ call[t].todo # <<>>
      /\ call[t].conv \in Conv /\ call[t].idx \in Nat
      /\ Head(call[t].todo) \in Msg /\ Head(call[t].todo) = call[t].todo[1]
      /\ 1 \in DOMAIN call[t].todo
  <2>1. call[t].pc = "insert" /\ call[t].todo # <<>>
    BY DEF Insert, AppendInv, StoreInv, CallShape, Adding
  <2>2. /\ call[t] \in Calling /\ call[t].conv \in Conv /\ call[t].idx \in Nat
        /\ call[t].todo \in Seq(Msg)
    BY <2>1, CallIs DEF AppendInv, StoreInv
  <2> QED BY <2>1, <2>2, HeadAndTail
<1>2. PICK c \in Conv, i \in Nat, m \in Msg :
        c = call[t].conv /\ i = call[t].idx /\ m = Head(call[t].todo)
  BY <1>1
<1>3. txn[m] = NoRow
  BY <1>1, <1>2 DEF AppendInv, Unstored, Adding
<1>4. /\ txn' = WithRow(txn, c, m, i)
      /\ call'[t].pc = "index" /\ \A u \in Thread \ {t} : call'[u] = call[u]
  <2>1. call' = [call EXCEPT ![t] = [call[t] EXCEPT !.pc = "index"]]
    BY StoreIs DEF Insert
  <2>2. txn' = WithRow(txn, c, m, i)
    BY <1>2, VisibleIs DEF Insert, WithRow
  <2> QED BY <1>1, <2>1, <2>2, StoreIs DEF Calling
<1>5. /\ txn'[m] = [conv |-> c, idx |-> i, up |-> FALSE] /\ txn'[m] # NoRow
      /\ \A x \in Msg : x # m => txn'[x] = txn[x]
  BY <1>3, <1>4, StoreIs, AddedIndex
<1>6. \A d \in Conv, j \in Nat : Inserting(d, j)' \subseteq Inserting(d, j)
  BY <1>4 DEF Inserting
<1>7. ASSUME NEW d \in Conv, NEW j \in Nat, ~(d = c /\ j = i)
      PROVE  Shared(d, j)'
  <2>1. RowsAt(txn', d, j) \subseteq RowsAt(txn, d, j)
    BY <1>5, <1>7 DEF RowsAt, RowsOf
  <2> QED BY <1>6, <2>1, SharedKept DEF SharedRows
<1>8. Shared(c, i)'
  <2>1. Shared(c, i) /\ m \notin RowsAt(txn, c, i) /\ t \in Inserting(c, i)
    BY <1>1, <1>2, <1>3 DEF SharedRows, RowsAt, RowsOf, Inserting
  <2>2. PICK A, B : /\ A = RowsAt(txn, c, i) /\ IsFiniteSet(A) /\ m \notin A
                    /\ B = Inserting(c, i) /\ IsFiniteSet(B) /\ t \in B
                    /\ Cardinality(A) + Cardinality(B) <= Cardinality(Thread)
    BY <2>1, InsertingIs DEF Shared
  <2>3. RowsAt(txn', c, i) = A \cup {m} /\ Inserting(c, i)' = B \ {t}
    <3>1. RowsAt(txn', c, i) = A \cup {m}
      BY <1>5, <2>2 DEF RowsAt, RowsOf
    <3>2. t \notin Inserting(c, i)'
      BY <1>4 DEF Inserting
    <3>3. \A u \in Thread \ {t} : u \in Inserting(c, i)' <=> u \in Inserting(c, i)
      BY <1>4 DEF Inserting
    <3> QED BY <2>2, <3>1, <3>2, <3>3 DEF Inserting
  <2>4. /\ IsFiniteSet(A \cup {m}) /\ Cardinality(A \cup {m}) = Cardinality(A) + 1
        /\ Cardinality(B \ {t}) = Cardinality(B) - 1
        /\ Cardinality(A) \in Nat /\ Cardinality(B) \in Nat /\ Cardinality(Thread) \in Nat
    BY <2>2, FS_AddElement, FS_RemoveElement, FS_CardinalityType, ThreadsAssumption
  <2>5. Cardinality(A \cup {m}) + Cardinality(B \ {t}) <= Cardinality(Thread)
    BY <2>2, <2>4
  <2> QED BY <2>3, <2>4, <2>5 DEF Shared
<1> QED BY <1>7, <1>8 DEF SharedRows

(* A thread that reads MAX(memory_index) gets an index that no committed   *)
(* row has, and that at most one row of another's transaction has.         *)
LEMMA SelectMaxShares ==
  ASSUME AppendInv, OnLog, SharedRows, NEW t \in Thread, SelectMax(t)
  PROVE  SharedRows'
<1>1. call[t] \in Calling /\ call[t].conv \in Conv
  BY CallIs DEF AppendInv, StoreInv, SelectMax
<1>2. PICK c \in Conv, n \in Nat : c = call[t].conv /\ n = NextIndex(Visible(t), c)
  BY <1>1, VisibleIs DEF Segment
<1>3. PICK new : /\ call' = [call EXCEPT ![t] = new]
                 /\ new.pc = "insert" /\ new.idx = n /\ new.conv = c
  <2>1. call' = [call EXCEPT ![t] = [call[t] EXCEPT !.pc = "insert", !.idx = n]]
    BY <1>2, StoreIs DEF SelectMax
  <2>2. [call[t] EXCEPT !.pc = "insert", !.idx = n].pc = "insert"
    BY <1>1 DEF Calling
  <2>3. [call[t] EXCEPT !.pc = "insert", !.idx = n].idx = n
    BY <1>1 DEF Calling
  <2>4. [call[t] EXCEPT !.pc = "insert", !.idx = n].conv = c
    BY <1>1, <1>2 DEF Calling
  <2> QED BY <2>1, <2>2, <2>3, <2>4, Zenon
<1>4. UNCHANGED <<table, txn, writer>>
  BY DEF SelectMax
<1>5. call'[t] = new /\ \A u \in Thread \ {t} : call'[u] = call[u]
  BY <1>3, StoreIs
<1>6. \A d \in Conv, j \in Nat : ~(d = c /\ j = n) => Inserting(d, j)' \subseteq Inserting(d, j)
  BY <1>3, <1>5 DEF Inserting
<1>7. ASSUME NEW d \in Conv, NEW j \in Nat, ~(d = c /\ j = n)
      PROVE  Shared(d, j)'
  BY <1>4, <1>6, <1>7, SharedKept DEF SharedRows
<1>8. Shared(c, n)'
  <2>1. \A T \in Rows : Segment(T, c) => RowsAt(T, c, NextIndex(T, c)) = {}
    <3> SUFFICES ASSUME NEW T \in Rows, Segment(T, c), NEW m \in RowsAt(T, c, NextIndex(T, c))
                 PROVE  FALSE
      OBVIOUS
    <3>1. NextIndex(T, c) \in Indexes(T, c)
      BY DEF RowsAt, Indexes
    <3>2. PICK k \in Nat : k = NextIndex(T, c) /\ Indexes(T, c) = 0..(k - 1)
      BY DEF Segment
    <3> QED BY <3>1, <3>2
  <2>2. CASE RowsAt(txn, c, n) = {}
    <3>1. IsFiniteSet(RowsAt(txn', c, n)) /\ Cardinality(RowsAt(txn', c, n)) = 0
      BY <1>4, <2>2, FS_EmptySet
    <3>2. PICK k \in Nat : k = Cardinality(Inserting(c, n)') /\ k <= Cardinality(Thread)
      BY InsertingIs
    <3>3. 0 + Cardinality(Inserting(c, n)') <= Cardinality(Thread)
      BY <3>2
    <3> QED BY <3>1, <3>3 DEF Shared
  <2>3. CASE RowsAt(txn, c, n) # {}
    <3>1. writer # t /\ n = NextIndex(table, c) /\ RowsAt(table, c, n) = {}
      <4>1. writer # t
        BY <1>2, <2>1, <2>3, StoreIs DEF Visible
      <4> QED BY <1>2, <2>1, <4>1, StoreIs DEF Visible
    <3>2. PICK w \in Thread : w = writer /\ w # t
      <4>1. writer # NoOne
        BY <2>3, <3>1 DEF AppendInv, StoreInv, LockHeld
      <4> QED BY <3>1, <4>1 DEF AppendInv, StoreInv, TypeOK
    <3>3. CallOnLog(w) /\ call[w].pc # "idle"
      BY <3>2 DEF OnLog, CallOnLog
    <3>4. call[w] \in Calling /\ call[w].conv \in Conv /\ call[w].sent \in Seq(Given)
          /\ call[w].todo \in Seq(Msg) /\ call[w].idx \in Nat
      BY <3>3, CallIs DEF AppendInv, StoreInv, Given
    <3>5. CASE call[w].pc \in Adding \cup {"commit"}
      <4>1. Appended(table, txn, call[w].conv, Inserted(w))
        BY <3>2, <3>3, <3>5 DEF CallOnLog
      <4>2. Inserted(w) \in Seq(Given)
        <5>1. CASE call[w].pc = "index"
          <6>1. call[w].todo # <<>>
            BY <5>1 DEF AppendInv, StoreInv, CallShape, Adding
          <6>2. Head(call[w].todo) \in Msg
            BY <3>4, <6>1, HeadAndTail
          <6>3. [msg |-> Head(call[w].todo), idx |-> call[w].idx] \in Given
            BY <3>4, <6>2 DEF Given
          <6> QED BY <3>4, <5>1, <6>3, AppendAt DEF Inserted, Added
        <5>2. CASE call[w].pc # "index"
          BY <3>4, <5>2 DEF Inserted
        <5> QED BY <5>1, <5>2
      <4>3. PICK m : RowsAt(txn, c, n) = {m}
        <5>1. PICK d \in Conv, s \in Seq(Given) : d = call[w].conv /\ s = Inserted(w)
          BY <3>4, <4>2
        <5>2. Appended(table, txn, d, s)
          BY <4>1, <5>1
        <5>3. /\ table \in Rows /\ txn \in Rows /\ Segment(table, d) /\ Segment(txn, d)
              /\ Segment(table, c)
          BY StoreIs
        <5>4. \A m, k \in RowsAt(txn, c, n) : m = k
          <6>1. PICK T \in Rows, U \in Rows : T = table /\ U = txn
            BY <5>3
          <6>2. /\ Appended(T, U, d, s) /\ Segment(T, d) /\ Segment(U, d) /\ Segment(T, c)
                /\ n = NextIndex(T, c)
            BY <3>1, <5>2, <5>3, <6>1
          <6>3. \A m, k \in RowsAt(U, c, n) : m = k
            BY <6>2, OneOfBatch
          <6> QED BY <6>1, <6>3
        <5>5. PICK m : m \in RowsAt(txn, c, n)
          BY <2>3
        <5>6. RowsAt(txn, c, n) = {m}
          BY <5>4, <5>5
        <5> QED BY <5>6
      <4>4. IsFiniteSet(RowsAt(txn', c, n)) /\ Cardinality(RowsAt(txn', c, n)) = 1
        BY <1>4, <4>3, FS_Singleton
      <4>5. w \notin Inserting(c, n)'
        <5>1. call'[w] = call[w]
          BY <1>5, <3>2
        <5>2. SUFFICES ASSUME call[w].pc = "insert", call[w].conv = c, call[w].idx = n
                       PROVE  FALSE
          BY <5>1 DEF Inserting
        <5>3. n = NextIndex(txn, c)
          BY <3>2, <3>3, <5>2 DEF CallOnLog
        <5> QED BY <2>1, <2>3, <5>3, StoreIs
      <4>6. Inserting(c, n)' \in SUBSET (Thread \ {w})
        BY <4>5 DEF Inserting
      <4>7. /\ IsFiniteSet(Thread \ {w})
            /\ Cardinality(Thread \ {w}) = Cardinality(Thread) - 1
        BY ThreadsAssumption, FS_RemoveElement
      <4>8. Cardinality(Inserting(c, n)') <= Cardinality(Thread) - 1
        BY <4>6, <4>7, FS_Subset
      <4>9. 1 + Cardinality(Inserting(c, n)') <= Cardinality(Thread)
        BY <4>8, InsertingIs
      <4> QED BY <4>4, <4>9 DEF Shared
    <3>6. CASE call[w].pc \in Uploading \cup {"close"}
      <4>1. PICK I : txn = Marked(table, call[w].conv, I)
        BY <3>2, <3>3, <3>6 DEF CallOnLog
      <4>2. \A m \in Msg : txn[m] # NoRow => /\ table[m] # NoRow
                                            /\ txn[m].conv = table[m].conv
                                            /\ txn[m].idx = table[m].idx
        <5>1. ASSUME NEW m \in Msg, txn[m] # NoRow
              PROVE  /\ table[m] # NoRow
                     /\ txn[m].conv = table[m].conv
                     /\ txn[m].idx = table[m].idx
          <6>1. table[m] # NoRow
            BY <4>1, <5>1 DEF Marked
          <6>2. table[m] \in Row
            BY <6>1, StoreIs DEF Rows
          <6> QED BY <4>1, <6>1, <6>2 DEF Marked, Row
        <5> QED BY <5>1
      <4> QED BY <2>3, <3>1, <4>2 DEF RowsAt, RowsOf
    <3> QED BY <3>3, <3>4, <3>5, <3>6 DEF Calling, Adding, Uploading
  <2> QED BY <2>2, <2>3
<1> QED BY <1>7, <1>8 DEF SharedRows

(* Adders may read the same MAX(memory_index), so that an index can have   *)
(* several rows, but never more than there are threads                     *)
(* (sqlite_memory.py:76-95).                                               *)
THEOREM IndexesAreShared == AppendSpec => []SharedIndexBound
<1>1. Init => OnLog /\ SharedRows
  <2> SUFFICES ASSUME Init
               PROVE  OnLog /\ SharedRows
    OBVIOUS
  <2>1. \A t \in Thread : call[t].pc = "idle" /\ writer # t
    BY StoreAssumption DEF Init, Idle
  <2>2. OnLog
    BY <2>1 DEF OnLog, CallOnLog, Adding
  <2>3. \A c, i : RowsAt(txn, c, i) = {}
    BY DEF Init, RowsAt, RowsOf
  <2>4. SharedRows
    BY <2>3, FS_EmptySet, InsertingIs DEF SharedRows, Shared
  <2> QED BY <2>2, <2>4
<1>2. ASSUME AppendInv, OnLog, SharedRows, [AppendNext]_vars
      PROVE  OnLog' /\ SharedRows'
  <2>1. OnLog'
    BY <1>2, StepOnLog
  <2>2. SharedRows'
    BY <1>2, OthersShare, InsertShares, SelectMaxShares DEF AppendNext, AddStep
  <2> QED BY <2>1, <2>2
<1>3. ASSUME AppendInv, SharedRows
      PROVE  SharedIndexBound
  <2> SUFFICES ASSUME NEW c \in Conv, NEW i \in Indexes(table, c)
               PROVE  Cardinality(RowsAt(table, c, i)) <= Cardinality(Thread)
    BY DEF SharedIndexBound, RowsAt
  <2>1. i \in Nat
    BY <1>3, StoreIs, IndexesAre
  <2>2. Shared(c, i) /\ RowsAt(table, c, i) \subseteq RowsAt(txn, c, i)
    BY <1>3, <2>1 DEF SharedRows, RowsAt, RowsOf, AppendInv, TxnKeeps
  <2>3. /\ Cardinality(RowsAt(table, c, i)) <= Cardinality(RowsAt(txn, c, i))
        /\ Cardinality(RowsAt(table, c, i)) \in Nat /\ Cardinality(RowsAt(txn, c, i)) \in Nat
    BY <2>2, FS_Subset, FS_CardinalityType DEF Shared
  <2> QED BY <2>2, <2>3, InsertingIs DEF Shared
<1>4. AppendInv /\ OnLog /\ SharedRows /\ [AppendNext]_vars => OnLog' /\ SharedRows'
  BY <1>2
<1>5. AppendInv /\ SharedRows => SharedIndexBound
  BY <1>3
<1>6. AppendSpec => []AppendInv
  BY AppendInvHolds
<1> QED BY <1>1, <1>4, <1>5, <1>6, PTL DEF AppendSpec
=============================================================================
