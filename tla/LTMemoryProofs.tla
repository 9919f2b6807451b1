--------------------------- MODULE LTMemoryProofs ---------------------------
(***************************************************************************)
(* Proofs about LTMemory: what the deletes, clears and reloads of any run  *)
(* keep of a conversation, and what the thread of the only instance of a   *)
(* process that is not restarted summarizes and folds.                     *)
(***************************************************************************)
EXTENDS LTMemory, FiniteSetTheorems, SequenceTheorems, WellFoundedInduction, TLAPS

-----------------------------------------------------------------------------
(* Induction over the natural numbers, and functions defined along them.   *)

(* A set of natural numbers has a least element. *)
LEMMA LeastNat ==
  ASSUME NEW T, T \subseteq Nat, T # {}
  PROVE  \E m \in T : \A k \in T : m <= k
<1>1. IsWellFoundedOn({ss \in Nat \X Nat : ss[1] < ss[2]}, Nat)
  BY NatLessThanWellFounded DEF OpToRel
<1>2. PICK m \in T : \A y \in T : ~ (<<y, m>> \in {ss \in Nat \X Nat : ss[1] < ss[2]})
  BY <1>1, WFMin
<1>3. ASSUME NEW y \in T
      PROVE  m <= y
  <2>1. y \in Nat /\ m \in Nat
    OBVIOUS
  <2>2. ~(y < m)
    BY <1>2, <2>1
  <2> QED BY <2>1, <2>2
<1> QED BY <1>3

(* Induction up to a bound, over a set. *)
LEMMA Steps ==
  ASSUME NEW N \in Nat, NEW T, 0 \in T, \A k \in 0..N : k \in T /\ k < N => k + 1 \in T
  PROVE  0..N \subseteq T
<1> DEFINE Out == {k \in 0..N : k \notin T}
<1> SUFFICES ASSUME Out # {}
             PROVE  FALSE
  OBVIOUS
<1>1. Out \subseteq Nat
  OBVIOUS
<1>2. PICK m \in Out : \A k \in Out : m <= k
  BY <1>1, LeastNat
<1>3. m \in 0..N /\ m # 0 /\ m \notin T
  OBVIOUS
<1>4. m - 1 \in 0..N /\ m - 1 < m /\ (m - 1) + 1 = m /\ m - 1 < N
  BY <1>3
<1>5. m - 1 \in T
  BY <1>2, <1>4
<1> QED BY <1>3, <1>4, <1>5

-----------------------------------------------------------------------------
(* Tables. B has the bodies.                                               *)

TableRows(B) == [id : Nat, idx : Nat, tie : BOOLEAN, body : B]

(* Indexes grow, no id stands twice, the first row opens a second.         *)
Table(s, B) ==
  /\ s \in Seq(TableRows(B))
  /\ \A i, j \in DOMAIN s : i < j => s[i].idx < s[j].idx /\ s[i].id # s[j].id
  /\ Opens(s)

(* The n-th of a set of numbers is the one with n of them up to it.        *)
LEMMA Ranks ==
  ASSUME NEW n \in Nat, NEW K \in SUBSET (1..n)
  PROVE  /\ Cardinality(K) \in Nat
         /\ \E p \in [1..Cardinality(K) -> K] :
              /\ \A m \in 1..Cardinality(K) :
                   p[m] = CHOOSE i \in K : Cardinality({j \in K : j <= i}) = m
              /\ \A a, b \in 1..Cardinality(K) : a < b => p[a] < p[b]
              /\ \A i \in K : \E m \in 1..Cardinality(K) : p[m] = i
<1> DEFINE Upto(i) == {j \in K : j <= i}
           rank == [i \in K |-> Cardinality(Upto(i))]
<1>1. IsFiniteSet(1..n)
  BY FS_Interval
<1>2. IsFiniteSet(K) /\ Cardinality(K) \in Nat
  BY <1>1, FS_Subset, FS_CardinalityType
<1>3. PICK c \in Nat : c = Cardinality(K)
  BY <1>2
<1>4. IsFiniteSet(1..c) /\ Cardinality(1..c) = c
  BY FS_Interval
<1>5. ASSUME NEW i \in K
      PROVE  /\ IsFiniteSet(Upto(i)) /\ Cardinality(Upto(i)) \in 1..c
  <2>1. Upto(i) \in SUBSET K /\ i \in Upto(i)
    OBVIOUS
  <2>2. IsFiniteSet(Upto(i)) /\ Cardinality(Upto(i)) \in Nat /\ Cardinality(Upto(i)) <= Cardinality(K)
    BY <1>2, <2>1, FS_Subset, FS_CardinalityType
  <2>3. Cardinality(Upto(i)) # 0
    BY <2>1, <2>2, FS_EmptySet
  <2> QED BY <1>3, <2>2, <2>3
<1>6. ASSUME NEW i \in K, NEW k \in K, i < k
      PROVE  Cardinality(Upto(i)) < Cardinality(Upto(k))
  <2>1. Upto(i) \in SUBSET Upto(k) /\ Upto(i) # Upto(k)
    <3>1. i \in Nat /\ k \in Nat /\ ~(k <= i) /\ k <= k /\ \A j \in K : j <= i => j <= k
      BY <1>6
    <3>2. k \in Upto(k) /\ k \notin Upto(i) /\ Upto(i) \in SUBSET Upto(k)
      BY <3>1
    <3> QED BY <3>2
  <2>2. Cardinality(Upto(i)) <= Cardinality(Upto(k)) /\ Cardinality(Upto(i)) # Cardinality(Upto(k))
    BY <1>5, <2>1, FS_Subset
  <2>3. PICK a \in 1..c, b \in 1..c : a = Cardinality(Upto(i)) /\ b = Cardinality(Upto(k))
    BY <1>5
  <2> QED BY <2>2, <2>3
<1>7. /\ rank \in [K -> 1..c]
      /\ \A i \in K : rank[i] = Cardinality(Upto(i))
      /\ \A i, k \in K : i < k => rank[i] < rank[k]
  BY <1>5, <1>6
<1> HIDE DEF rank
<1>8. \A i, k \in K : rank[i] = rank[k] => i = k
  <2>1. SUFFICES ASSUME NEW i \in K, NEW k \in K, i # k
                 PROVE  rank[i] # rank[k]
    OBVIOUS
  <2>2. i < k \/ k < i
    BY <2>1
  <2>3. rank[i] < rank[k] \/ rank[k] < rank[i]
    BY <1>7, <2>2
  <2> QED BY <1>7, <2>3
<1>9. rank \in Injection(K, 1..c)
  BY <1>7, <1>8 DEF Injection, IsInjective
<1>10. rank \in Surjection(K, 1..c)
  BY <1>3, <1>4, <1>9, FS_Injection
<1>11. \A m \in 1..c : \E i \in K : rank[i] = m
  BY <1>10 DEF Surjection
<1>12. PICK p : p = [m \in 1..c |-> CHOOSE i \in K : Cardinality(Upto(i)) = m]
  OBVIOUS
<1>13. \A m \in 1..c : /\ p[m] = CHOOSE i \in K : Cardinality(Upto(i)) = m
                       /\ p[m] \in K /\ rank[p[m]] = m
  <2>1. SUFFICES ASSUME NEW m \in 1..c
                 PROVE  /\ p[m] = CHOOSE i \in K : Cardinality(Upto(i)) = m
                        /\ p[m] \in K /\ rank[p[m]] = m
    OBVIOUS
  <2>2. p[m] = CHOOSE i \in K : Cardinality(Upto(i)) = m
    BY <1>12
  <2>3. \E i \in K : Cardinality(Upto(i)) = m
    BY <1>7, <1>11
  <2> HIDE DEF Upto
  <2>4. p[m] \in K /\ Cardinality(Upto(p[m])) = m
    BY <2>2, <2>3
  <2> QED BY <1>7, <2>2, <2>4
<1>14. p \in [1..c -> K]
  BY <1>12, <1>13
<1>15. ASSUME NEW a \in 1..c, NEW b \in 1..c, a < b
       PROVE  p[a] < p[b]
  <2>1. p[a] \in K /\ p[b] \in K /\ rank[p[a]] = a /\ rank[p[b]] = b
    BY <1>13
  <2>2. PICK u \in K, v \in K : u = p[a] /\ v = p[b] /\ rank[u] = a /\ rank[v] = b
    BY <2>1
  <2>3. ~(v < u) /\ u # v
    BY <1>7, <1>15, <2>2
  <2>4. u \in Nat /\ v \in Nat
    OBVIOUS
  <2> QED BY <2>2, <2>3, <2>4
<1>16. ASSUME NEW i \in K
       PROVE  \E m \in 1..c : p[m] = i
  <2>1. rank[i] \in 1..c
    BY <1>7
  <2>2. p[rank[i]] \in K /\ rank[p[rank[i]]] = rank[i]
    BY <1>13, <2>1
  <2>3. p[rank[i]] = i
    BY <1>8, <2>2
  <2> QED BY <2>1, <2>3
<1> QED BY <1>2, <1>3, <1>13, <1>14, <1>15, <1>16

(* r has the rows of s that are not gone, in their order; p says where.    *)
Left(r, s, gone, p) ==
  /\ p \in [DOMAIN r -> DOMAIN s]
  /\ \A a, b \in DOMAIN r : a < b => p[a] < p[b]
  /\ \A n \in DOMAIN r : /\ p[n] \notin gone
                         /\ r[n].id = s[p[n]].id /\ r[n].idx = s[p[n]].idx
                         /\ r[n].body = s[p[n]].body
  /\ \A i \in DOMAIN s : i \notin gone => \E n \in DOMAIN r : p[n] = i

(* What removing rows leaves is a table.                                   *)
LEMMA RemainingIs ==
  ASSUME NEW B, NEW s, Table(s, B), NEW gone
  PROVE  /\ Table(Remaining(s, gone), B)
         /\ \E p : Left(Remaining(s, gone), s, gone, p)
<1> DEFINE kept == {i \in DOMAIN s : i \notin gone}
           opens(i) == \E j \in 1..i : /\ ~s[j].tie
                                       /\ \A h \in j..(i - 1) : h \in gone
                                       /\ \A h \in (j + 1)..i : s[h].tie
           t == [i \in DOMAIN s |-> [s[i] EXCEPT !.tie = ~opens(i)]]
<1>1. PICK N \in Nat : N = Len(s) /\ DOMAIN s = 1..N
  BY DEF Table
<1>2. kept \in SUBSET (1..N)
  BY <1>1
<1>3. PICK c \in Nat : c = Cardinality(kept)
  BY <1>1, <1>2, Ranks
<1>4. PICK p \in [1..c -> kept] :
        /\ \A m \in 1..c :
             p[m] = CHOOSE i \in kept : Cardinality({j \in kept : j <= i}) = m
        /\ \A a, b \in 1..c : a < b => p[a] < p[b]
        /\ \A i \in kept : \E m \in 1..c : p[m] = i
  <2> HIDE DEF kept
  <2>1. \E p \in [1..Cardinality(kept) -> kept] :
          /\ \A m \in 1..Cardinality(kept) :
               p[m] = CHOOSE i \in kept : Cardinality({j \in kept : j <= i}) = m
          /\ \A a, b \in 1..Cardinality(kept) : a < b => p[a] < p[b]
          /\ \A i \in kept : \E m \in 1..Cardinality(kept) : p[m] = i
    BY <1>2, Ranks
  <2> QED BY <1>3, <2>1
<1>5. PICK r : r = Remaining(s, gone)
  OBVIOUS
<1>6. r = [n \in 1..c |-> t[CHOOSE i \in kept : Cardinality({j \in kept : j <= i}) = n]]
  BY <1>3, <1>5 DEF Remaining
<1>7. ASSUME NEW n \in 1..c
      PROVE  r[n] = t[p[n]]
  BY <1>4, <1>6
<1>8. \A i \in 1..N : s[i] \in TableRows(B)
  BY <1>1 DEF Table
<1>9. ASSUME NEW i \in 1..N
      PROVE  /\ t[i] \in TableRows(B) /\ t[i].id = s[i].id /\ t[i].idx = s[i].idx
             /\ t[i].body = s[i].body /\ t[i].tie = ~opens(i)
  <2>1. t[i] = [s[i] EXCEPT !.tie = ~opens(i)]
    BY <1>1
  <2>2. PICK o \in BOOLEAN : o = ~opens(i)
    OBVIOUS
  <2> HIDE DEF opens, t
  <2> QED BY <1>8, <2>1, <2>2 DEF TableRows
<1>10. PICK q : q = t
  OBVIOUS
<1>11. ASSUME NEW i \in 1..N
       PROVE  /\ q[i] \in TableRows(B) /\ q[i].id = s[i].id /\ q[i].idx = s[i].idx
              /\ q[i].body = s[i].body /\ q[i].tie = ~opens(i)
  BY <1>9, <1>10
<1>12. \A n \in 1..c : p[n] \in 1..N /\ p[n] \notin gone /\ r[n] = q[p[n]]
  BY <1>1, <1>4, <1>7, <1>10
<1>13. r = [n \in 1..c |-> r[n]]
  BY <1>6
<1> HIDE DEF t
<1>14. r \in Seq(TableRows(B)) /\ Len(r) = c /\ DOMAIN r = 1..c
  <2>1. \A n \in 1..c : r[n] \in TableRows(B)
    BY <1>11, <1>12
  <2> QED BY <1>13, <2>1
<1>15. ASSUME NEW n \in 1..c
       PROVE  /\ r[n].id = s[p[n]].id /\ r[n].idx = s[p[n]].idx /\ r[n].body = s[p[n]].body
  BY <1>11, <1>12
<1>16. Left(r, s, gone, p)
  BY <1>1, <1>4, <1>12, <1>14, <1>15 DEF Left
<1>17. \A i, j \in DOMAIN r : i < j => r[i].idx < r[j].idx /\ r[i].id # r[j].id
  <2>1. SUFFICES ASSUME NEW i \in 1..c, NEW j \in 1..c, i < j
                 PROVE  r[i].idx < r[j].idx /\ r[i].id # r[j].id
    BY <1>14
  <2>2. p[i] \in DOMAIN s /\ p[j] \in DOMAIN s /\ p[i] < p[j]
    BY <1>1, <1>4, <1>12, <2>1
  <2>3. s[p[i]].idx < s[p[j]].idx /\ s[p[i]].id # s[p[j]].id
    BY <2>2 DEF Table
  <2> QED BY <1>15, <2>3
<1>18. Opens(r)
  <2>1. SUFFICES ASSUME r # <<>>
                 PROVE  ~r[1].tie
    BY DEF Opens
  <2>2. 1 \in 1..c /\ \A n \in 1..c : 1 <= n
    <3>1. c # 0
      BY <1>14, <2>1
    <3> QED BY <3>1
  <2>3. PICK i \in 1..N : i = p[1]
    BY <1>12, <2>2
  <2>4. \A h \in 1..N : h < i => h \in gone
    <3>1. SUFFICES ASSUME NEW h \in 1..N, h < i, h \notin gone
                   PROVE  FALSE
      OBVIOUS
    <3>2. h \in kept
      BY <1>1, <3>1
    <3>3. PICK m \in 1..c : p[m] = h
      BY <1>4, <3>2
    <3>4. m = 1 \/ 1 < m
      BY <2>2
    <3>5. p[1] <= p[m]
      BY <1>4, <1>12, <2>2, <3>4
    <3> QED BY <1>12, <2>2, <2>3, <3>1, <3>3, <3>5
  <2>5. s # <<>> /\ ~s[1].tie
    <3>1. s # <<>>
      BY <1>1, <2>3
    <3> QED BY <3>1 DEF Table, Opens
  <2>6. \E j \in 1..i : ~s[j].tie /\ \A h \in (j + 1)..i : s[h].tie
    <3> DEFINE T == {d \in Nat : d < i /\ ~s[i - d].tie}
    <3>1. T \subseteq Nat /\ i - 1 \in T
      BY <2>5
    <3>2. PICK d \in T : \A k \in T : d <= k
      BY <3>1, LeastNat
    <3>3. d \in Nat /\ d < i /\ ~s[i - d].tie
      OBVIOUS
    <3>4. ASSUME NEW h \in (i - d + 1)..i
          PROVE  s[h].tie
      <4>1. i - h \in Nat /\ i - h < d /\ i - h < i /\ i - (i - h) = h
        BY <3>3
      <4>2. i - h \notin T
        <5>1. i - h \in T => d <= i - h
          BY <3>2
        <5> QED BY <3>3, <4>1, <5>1
      <4>3. s[i - (i - h)].tie
        BY <4>1, <4>2
      <4> QED BY <4>1, <4>3
    <3>5. i - d \in 1..i
      BY <3>3
    <3> QED BY <3>3, <3>4, <3>5
  <2>7. opens(i)
    <3>1. PICK j \in 1..i : ~s[j].tie /\ \A h \in (j + 1)..i : s[h].tie
      BY <2>6
    <3>2. \A h \in j..(i - 1) : h \in gone
      BY <2>4
    <3> QED BY <3>1, <3>2
  <2>8. r[1] = q[i] /\ q[i].tie = ~opens(i)
    BY <1>11, <1>12, <2>2, <2>3
  <2> HIDE DEF opens
  <2> QED BY <2>7, <2>8
<1>19. Table(r, B)
  BY <1>14, <1>17, <1>18 DEF Table
<1> QED BY <1>5, <1>16, <1>19

(* The index an add gives is above all there are.                          *)
LEMMA NextIndexIs ==
  ASSUME NEW B, NEW s, Table(s, B)
  PROVE  /\ NextIndex(s) \in Nat
         /\ \A i \in DOMAIN s : s[i].idx < NextIndex(s)
         /\ (\A i \in DOMAIN s : s[i].idx = i - 1) => NextIndex(s) = Len(s)
<1>1. PICK N \in Nat : N = Len(s) /\ DOMAIN s = 1..N
  BY DEF Table
<1>2. \A i \in 1..N : s[i].idx \in Nat
  <2>1. \A i \in 1..N : s[i] \in TableRows(B)
    BY <1>1 DEF Table
  <2> QED BY <2>1 DEF TableRows
<1> DEFINE Candidates == {0} \cup {s[i].idx + 1 : i \in DOMAIN s}
           Above(n) == \A i \in DOMAIN s : s[i].idx < n
<1>3. \E n \in Candidates : Above(n)
  <2>1. CASE N = 0
    <3>1. Above(0) /\ 0 \in Candidates
      BY <1>1, <2>1
    <3> QED BY <3>1
  <2>2. CASE N # 0
    <3>1. N \in DOMAIN s
      BY <1>1, <2>2
    <3>2. \A i \in 1..N : i < N => s[i].idx < s[N].idx
      BY <1>1, <3>1 DEF Table
    <3>3. \A i \in 1..N : s[i].idx < s[N].idx + 1
      BY <1>1, <1>2, <3>1, <3>2
    <3>4. Above(s[N].idx + 1)
      BY <1>1, <3>3
    <3> QED BY <3>1, <3>4
  <2> QED BY <2>1, <2>2
<1>4. NextIndex(s) \in Candidates /\ Above(NextIndex(s))
  <2>1. NextIndex(s) = CHOOSE n \in Candidates : Above(n)
    BY DEF NextIndex
  <2> HIDE DEF Candidates, Above
  <2> QED BY <1>3, <2>1
<1>5. PICK n : n = NextIndex(s)
  OBVIOUS
<1>6. n \in Candidates /\ Above(n)
  BY <1>4, <1>5
<1>7. n \in Nat
  BY <1>1, <1>2, <1>6
<1>8. ASSUME \A i \in DOMAIN s : s[i].idx = i - 1
      PROVE  n = N
  <2>1. n = 0 \/ \E i \in 1..N : n = i
    BY <1>1, <1>6, <1>8
  <2>2. N # 0 => N - 1 < n
    BY <1>1, <1>6, <1>8
  <2> QED BY <2>1, <2>2
<1> QED BY <1>1, <1>5, <1>6, <1>7, <1>8

(* r is what an add makes of s: the rows of other messages, then one of    *)
(* the message.                                                            *)
Grown(r, s, id, body, m, p) ==
  /\ Len(r) = m + 1
  /\ p \in [1..m -> DOMAIN s]
  /\ \A a, b \in 1..m : a < b => p[a] < p[b]
  /\ \A n \in 1..m : r[n].id = s[p[n]].id /\ r[n].body = s[p[n]].body /\ r[n].id # id
  /\ r[m + 1].id = id /\ r[m + 1].body = body

LEMMA AddedIs ==
  ASSUME NEW B, NEW s, Table(s, B), NEW id \in Nat, NEW body \in B, NEW tie \in BOOLEAN
  PROVE  /\ Table(Added(s, id, body, tie), B)
         /\ \E m \in Nat : \E p : Grown(Added(s, id, body, tie), s, id, body, m, p)
<1> DEFINE gone == {i \in DOMAIN s : s[i].id = id}
<1>1. PICK rest : rest = Remaining(s, gone)
  OBVIOUS
<1>2. Table(rest, B) /\ \E p : Left(rest, s, gone, p)
  <2> HIDE DEF gone
  <2> QED BY <1>1, RemainingIs
<1>3. PICK p : Left(rest, s, gone, p)
  BY <1>2
<1>4. PICK k \in Nat : k = NextIndex(s) /\ \A i \in DOMAIN s : s[i].idx < k
  BY NextIndexIs
<1>5. PICK m \in Nat : m = Len(rest) /\ DOMAIN rest = 1..m
  BY <1>2 DEF Table
<1>6. PICK tied \in BOOLEAN : tied = (tie /\ rest # <<>>)
  OBVIOUS
<1>7. PICK e : e = [id |-> id, idx |-> k, tie |-> tied, body |-> body]
  OBVIOUS
<1>8. e \in TableRows(B) /\ e.id = id /\ e.idx = k /\ e.tie = tied /\ e.body = body
  BY <1>7 DEF TableRows
<1>9. PICK r : r = Added(s, id, body, tie)
  OBVIOUS
<1>10. r = Append(rest, e)
  BY <1>1, <1>4, <1>6, <1>7, <1>9 DEF Added
<1>11. /\ r \in Seq(TableRows(B)) /\ Len(r) = m + 1 /\ DOMAIN r = 1..(m + 1)
       /\ r[m + 1] = e /\ \A n \in 1..m : r[n] = rest[n]
  <2>1. rest \in Seq(TableRows(B))
    BY <1>2 DEF Table
  <2> HIDE DEF gone
  <2> QED BY <1>5, <1>8, <1>10, <2>1
<1>12. \A n \in 1..m : /\ p[n] \in DOMAIN s /\ s[p[n]].id # id
                       /\ r[n].id = s[p[n]].id /\ r[n].idx = s[p[n]].idx
                       /\ r[n].body = s[p[n]].body
  BY <1>3, <1>5, <1>11 DEF Left
<1>13. /\ p \in [1..m -> DOMAIN s] /\ \A a, b \in 1..m : a < b => p[a] < p[b]
  BY <1>3, <1>5 DEF Left
<1> HIDE DEF gone
<1>14. Grown(r, s, id, body, m, p)
  BY <1>8, <1>11, <1>12, <1>13 DEF Grown
<1>15. \A i, j \in DOMAIN r : i < j => r[i].idx < r[j].idx /\ r[i].id # r[j].id
  <2>1. SUFFICES ASSUME NEW i \in 1..(m + 1), NEW j \in 1..(m + 1), i < j
                 PROVE  r[i].idx < r[j].idx /\ r[i].id # r[j].id
    BY <1>11
  <2>2. i \in 1..m /\ (j \in 1..m \/ j = m + 1)
    BY <2>1
  <2>3. CASE j \in 1..m
    <3>1. rest[i].idx < rest[j].idx /\ rest[i].id # rest[j].id
      BY <1>2, <1>5, <2>1, <2>2, <2>3 DEF Table
    <3> QED BY <1>11, <2>2, <2>3, <3>1
  <2>4. CASE j = m + 1
    <3>1. r[i].idx < k /\ r[i].id # id
      BY <1>4, <1>12, <2>2
    <3> QED BY <1>8, <1>11, <2>4, <3>1
  <2> QED BY <2>2, <2>3, <2>4
<1>16. Opens(r)
  <2>1. CASE m = 0
    <3>1. rest = <<>>
      BY <1>2, <1>5, <2>1 DEF Table
    <3>2. ~tied
      BY <1>6, <3>1, Zenon
    <3>3. r[1] = e /\ e.tie = tied
      BY <1>8, <1>11, <2>1
    <3>4. ~r[1].tie
      BY <3>2, <3>3, Zenon
    <3> QED BY <3>4 DEF Opens
  <2>2. CASE m # 0
    <3>1. 1 \in 1..m /\ rest # <<>>
      BY <1>2, <1>5, <2>2 DEF Table
    <3>2. ~rest[1].tie
      BY <1>2, <3>1 DEF Table, Opens
    <3> QED BY <1>11, <3>1, <3>2 DEF Opens
  <2> QED BY <2>1, <2>2
<1>17. Table(r, B)
  BY <1>11, <1>15, <1>16 DEF Table
<1> QED BY <1>9, <1>14, <1>17

(* A loop over 1..N that stays in a set has a result.                      *)
LEMMA Recursion ==
  ASSUME NEW S, NEW base \in S, NEW N \in Nat, NEW step \in [1..N -> [S -> S]]
  PROVE  \E acc \in [0..N -> S] :
           \A n \in 0..N : acc[n] = IF n = 0 THEN base ELSE step[n][acc[n - 1]]
<1> DEFINE Run(acc, k) ==
             \A n \in 0..k : acc[n] = IF n = 0 THEN base ELSE step[n][acc[n - 1]]
           T == {k \in 0..N : \E acc \in [0..k -> S] : Run(acc, k)}
<1>1. 0 \in T
  <2>1. PICK acc : acc = [n \in 0..0 |-> base]
    OBVIOUS
  <2>2. acc \in [0..0 -> S] /\ Run(acc, 0)
    BY <2>1
  <2> QED BY <2>2
<1>2. ASSUME NEW k \in 0..N, k \in T, k < N
      PROVE  k + 1 \in T
  <2>1. PICK acc \in [0..k -> S] : Run(acc, k)
    BY <1>2
  <2>2. PICK next \in S : next = step[k + 1][acc[k]]
    BY <1>2
  <2>3. PICK more : more = [n \in 0..(k + 1) |-> IF n = k + 1 THEN next ELSE acc[n]]
    OBVIOUS
  <2>4. more[k + 1] = next /\ \A n \in 0..k : more[n] = acc[n]
    BY <2>3
  <2>5. more \in [0..(k + 1) -> S]
    BY <2>3
  <2>6. ASSUME NEW n \in 0..(k + 1)
        PROVE  more[n] = IF n = 0 THEN base ELSE step[n][more[n - 1]]
    <3>1. CASE n = k + 1
      <4>1. n # 0 /\ n - 1 = k /\ k \in 0..k
        BY <3>1
      <4> QED BY <2>2, <2>4, <3>1, <4>1
    <3>2. CASE n # k + 1
      <4>1. n \in 0..k /\ (n # 0 => n - 1 \in 0..k)
        BY <3>2
      <4> QED BY <2>1, <2>4, <4>1
    <3> QED BY <3>1, <3>2
  <2>7. Run(more, k + 1)
    BY <2>6
  <2> QED BY <1>2, <2>5, <2>7
<1>3. N \in T
  <2> HIDE DEF T
  <2>1. 0..N \subseteq T
    BY <1>1, <1>2, Steps
  <2> QED BY <2>1
<1> QED BY <1>3

-----------------------------------------------------------------------------
(* The reload.                                                             *)

IdsUpto(s, last) == \A i \in DOMAIN s : s[i].id \in 1..last

HubOf(files, last, B) == files \subseteq [id : 1..last, idx : Nat, body : B]

(* A row that the hub has comes before every row of a later message.       *)
InOrder(s, files) ==
  \A i, j \in DOMAIN s : i < j /\ s[i].id \in Listed(files) => s[i].id < s[j].id

(* The same of the messages up to the n-th.                                *)
InOrderUpto(s, files, n) ==
  \A i, j \in DOMAIN s : i < j /\ s[i].id \in Listed(files) /\ s[i].id <= n => s[i].id < s[j].id

ReloadStep(files, fast, n, r) ==
  IF n \in Listed(files)
  THEN Added(r, n, FileOf(files, n).body, fast /\ \E m \in Listed(files) : m < n)
  ELSE r

LEMMA ListedFile ==
  ASSUME NEW B, NEW last \in Nat, NEW files, HubOf(files, last, B), NEW n \in Listed(files)
  PROVE  n \in 1..last /\ FileOf(files, n).body \in B
<1>1. \E f \in files : f.id = n
  BY DEF Listed
<1>2. FileOf(files, n) \in files /\ FileOf(files, n).id = n
  BY <1>1 DEF FileOf
<1> QED BY <1>2 DEF HubOf

(* One file added again.                                                   *)
LEMMA ReloadStepKeeps ==
  ASSUME NEW B, NEW last \in Nat, NEW files, HubOf(files, last, B), NEW fast \in BOOLEAN,
         NEW n \in 1..last, NEW s, Table(s, B)
  PROVE  /\ Table(ReloadStep(files, fast, n, s), B)
         /\ IdsUpto(s, last) => IdsUpto(ReloadStep(files, fast, n, s), last)
         /\ InOrderUpto(s, files, n - 1) => InOrderUpto(ReloadStep(files, fast, n, s), files, n)
<1>1. \A i \in DOMAIN s : s[i].id \in Nat
  <2>1. \A i \in DOMAIN s : s[i] \in TableRows(B)
    BY DEF Table
  <2> QED BY <2>1 DEF TableRows
<1>2. CASE n \notin Listed(files)
  <2>1. ReloadStep(files, fast, n, s) = s
    BY <1>2 DEF ReloadStep
  <2>2. InOrderUpto(s, files, n - 1) => InOrderUpto(s, files, n)
    <3>1. ASSUME NEW i \in DOMAIN s, s[i].id \in Listed(files), s[i].id <= n
          PROVE  s[i].id <= n - 1
      <4>1. s[i].id # n /\ s[i].id \in Nat
        BY <1>1, <1>2, <3>1
      <4> QED BY <3>1, <4>1
    <3> QED BY <3>1 DEF InOrderUpto
  <2> QED BY <2>1, <2>2
<1>3. CASE n \in Listed(files)
  <2>1. PICK tie \in BOOLEAN : tie = (fast /\ \E m \in Listed(files) : m < n)
    OBVIOUS
  <2>2. PICK body \in B : body = FileOf(files, n).body
    BY <1>3, ListedFile
  <2>3. PICK r : r = Added(s, n, body, tie)
    OBVIOUS
  <2>4. ReloadStep(files, fast, n, s) = r
    BY <1>3, <2>1, <2>2, <2>3 DEF ReloadStep
  <2>5. Table(r, B) /\ \E m \in Nat : \E p : Grown(r, s, n, body, m, p)
    <3>1. n \in Nat
      OBVIOUS
    <3> QED BY <2>3, <3>1, AddedIs
  <2>6a. PICK m \in Nat : \E p : Grown(r, s, n, body, m, p)
    BY <2>5
  <2>6. PICK p : Grown(r, s, n, body, m, p)
    BY <2>6a
  <2>7. DOMAIN r = 1..(m + 1) /\ r[m + 1].id = n
    BY <2>5, <2>6 DEF Table, Grown
  <2>8. ASSUME NEW i \in 1..m
        PROVE  p[i] \in DOMAIN s /\ r[i].id = s[p[i]].id /\ r[i].id # n /\ r[i].id \in Nat
    BY <1>1, <2>6 DEF Grown
  <2>9. ASSUME IdsUpto(s, last)
        PROVE  IdsUpto(r, last)
    <3>1. \A i \in 1..(m + 1) : i \in 1..m \/ i = m + 1
      OBVIOUS
    <3> QED BY <2>7, <2>8, <2>9, <3>1 DEF IdsUpto
  <2>10. ASSUME InOrderUpto(s, files, n - 1)
         PROVE  InOrderUpto(r, files, n)
    <3>1. SUFFICES ASSUME NEW i \in 1..(m + 1), NEW j \in 1..(m + 1), i < j,
                          r[i].id \in Listed(files), r[i].id <= n
                   PROVE  r[i].id < r[j].id
      BY <2>7 DEF InOrderUpto
    <3>2. i \in 1..m /\ (j \in 1..m \/ j = m + 1)
      BY <3>1
    <3>3. r[i].id <= n - 1 /\ r[i].id < n
      BY <2>8, <3>1, <3>2
    <3>4. CASE j \in 1..m
      <4>1. p[i] \in DOMAIN s /\ p[j] \in DOMAIN s /\ p[i] < p[j]
        BY <2>6, <2>8, <3>1, <3>2, <3>4 DEF Grown
      <4>2. s[p[i]].id < s[p[j]].id
        BY <2>8, <2>10, <3>1, <3>2, <3>3, <4>1 DEF InOrderUpto
      <4> QED BY <2>8, <3>2, <3>4, <4>2
    <3>5. CASE j = m + 1
      BY <2>7, <3>3, <3>5
    <3> QED BY <3>2, <3>4, <3>5
  <2> QED BY <2>4, <2>5, <2>9, <2>10
<1> QED BY <1>2, <1>3

(* The reload has a result, made step by step.                             *)
LEMMA ReloadedSteps ==
  ASSUME NEW B, NEW last \in Nat, NEW files, HubOf(files, last, B), NEW fast \in BOOLEAN,
         NEW s, Table(s, B)
  PROVE  \E rows : /\ rows[0] = s /\ Reloaded(s, files, last, fast) = rows[last]
                   /\ \A n \in 1..last : rows[n] = ReloadStep(files, fast, n, rows[n - 1])
<1> DEFINE S == {t \in Seq(TableRows(B)) : Table(t, B)}
           Made(f) == f = [n \in 0..last |->
                             IF n = 0 THEN s
                             ELSE IF n \in Listed(files)
                             THEN Added(f[n - 1], n, FileOf(files, n).body,
                                        fast /\ \E m \in Listed(files) : m < n)
                             ELSE f[n - 1]]
<1>1. s \in S
  BY DEF Table
<1>2. PICK step : step = [n \in 1..last |-> [t \in S |-> ReloadStep(files, fast, n, t)]]
  OBVIOUS
<1>3. step \in [1..last -> [S -> S]]
  <2>1. ASSUME NEW n \in 1..last, NEW t \in S
        PROVE  ReloadStep(files, fast, n, t) \in S
    <3>1. Table(ReloadStep(files, fast, n, t), B)
      BY ReloadStepKeeps
    <3> QED BY <3>1 DEF Table
  <2> QED BY <1>2, <2>1
<1> HIDE DEF S
<1>4. PICK acc \in [0..last -> S] :
        \A n \in 0..last : acc[n] = IF n = 0 THEN s ELSE step[n][acc[n - 1]]
  BY <1>1, <1>3, Recursion
<1>5. ASSUME NEW n \in 1..last
      PROVE  acc[n] = ReloadStep(files, fast, n, acc[n - 1])
  <2>1. n \in 0..last /\ n # 0 /\ n - 1 \in 0..last
    OBVIOUS
  <2>2. acc[n] = step[n][acc[n - 1]] /\ acc[n - 1] \in S
    BY <1>4, <2>1
  <2> QED BY <1>2, <2>2
<1>6. \E f : Made(f)
  <2>1. PICK g : g = [n \in 0..last |->
                        IF n = 0 THEN s
                        ELSE IF n \in Listed(files)
                        THEN Added(acc[n - 1], n, FileOf(files, n).body,
                                   fast /\ \E m \in Listed(files) : m < n)
                        ELSE acc[n - 1]]
    OBVIOUS
  <2>2. ASSUME NEW n \in 0..last
        PROVE  g[n] = acc[n]
    <3>1. CASE n = 0
      BY <1>4, <2>1, <3>1
    <3>2. CASE n # 0
      <4>1. n \in 1..last
        BY <3>2
      <4>2. acc[n] = ReloadStep(files, fast, n, acc[n - 1])
        BY <1>5, <4>1
      <4> QED BY <2>1, <3>2, <4>2 DEF ReloadStep
    <3> QED BY <3>1, <3>2
  <2>3. g = acc
    BY <1>4, <2>1, <2>2
  <2>4. Made(g)
    BY <2>1, <2>3
  <2> QED BY <2>4
<1>7. PICK rows : rows = CHOOSE f : Made(f)
  OBVIOUS
<1>8. Made(rows)
  <2> HIDE DEF Made
  <2> QED BY <1>6, <1>7
<1>9. Reloaded(s, files, last, fast) = rows[last]
  BY <1>7 DEF Reloaded
<1>10. rows[0] = s
  BY <1>8
<1>11. ASSUME NEW n \in 1..last
       PROVE  rows[n] = ReloadStep(files, fast, n, rows[n - 1])
  <2>1. n \in 0..last /\ n # 0
    OBVIOUS
  <2>2. rows[n] = IF n \in Listed(files)
                  THEN Added(rows[n - 1], n, FileOf(files, n).body,
                             fast /\ \E m \in Listed(files) : m < n)
                  ELSE rows[n - 1]
    BY <1>8, <2>1
  <2> HIDE DEF Made
  <2> QED BY <2>2 DEF ReloadStep
<1> QED BY <1>9, <1>10, <1>11

(* A reload leaves a table in which the messages the hub has are in order, *)
(* whatever order the rows had.                                            *)
LEMMA ReloadedIs ==
  ASSUME NEW B, NEW last \in Nat, NEW files, HubOf(files, last, B), NEW fast \in BOOLEAN,
         NEW s, Table(s, B), IdsUpto(s, last)
  PROVE  /\ Table(Reloaded(s, files, last, fast), B)
         /\ IdsUpto(Reloaded(s, files, last, fast), last)
         /\ InOrder(Reloaded(s, files, last, fast), files)
<1>1. PICK rows : /\ rows[0] = s /\ Reloaded(s, files, last, fast) = rows[last]
                  /\ \A n \in 1..last : rows[n] = ReloadStep(files, fast, n, rows[n - 1])
  BY ReloadedSteps
<1> DEFINE T == {n \in 0..last : /\ Table(rows[n], B) /\ IdsUpto(rows[n], last)
                                 /\ InOrderUpto(rows[n], files, n)}
<1>2. 0 \in T
  <2>1. InOrderUpto(s, files, 0)
    <3>1. \A k \in Listed(files) : k \in 1..last
      BY ListedFile
    <3>2. ASSUME NEW i \in DOMAIN s, s[i].id \in Listed(files)
          PROVE  ~(s[i].id <= 0)
      BY <3>1, <3>2
    <3> QED BY <3>2 DEF InOrderUpto
  <2> QED BY <1>1, <2>1
<1>3. ASSUME NEW n \in 0..last, n \in T, n < last
      PROVE  n + 1 \in T
  <2>1. n + 1 \in 1..last /\ (n + 1) - 1 = n
    BY <1>3
  <2>2. PICK k \in 1..last : k = n + 1
    BY <2>1
  <2>3. PICK t : t = rows[n]
    OBVIOUS
  <2>4. rows[k] = ReloadStep(files, fast, k, t) /\ k - 1 = n
    BY <1>1, <2>1, <2>2, <2>3
  <2>5. Table(t, B) /\ IdsUpto(t, last) /\ InOrderUpto(t, files, k - 1)
    BY <1>3, <2>3, <2>4
  <2>6. Table(rows[k], B) /\ IdsUpto(rows[k], last) /\ InOrderUpto(rows[k], files, k)
    BY <2>4, <2>5, ReloadStepKeeps
  <2> QED BY <2>2, <2>6
<1>4. last \in T
  <2> HIDE DEF T
  <2>1. 0..last \subseteq T
    BY <1>2, <1>3, Steps
  <2> QED BY <2>1
<1>5. /\ Table(rows[last], B) /\ IdsUpto(rows[last], last)
      /\ InOrderUpto(rows[last], files, last)
  BY <1>4
<1> HIDE DEF T
<1>6. InOrder(rows[last], files)
  <2>1. \A i \in DOMAIN rows[last] : rows[last][i].id <= last
    BY <1>5 DEF IdsUpto
  <2> QED BY <1>5, <2>1 DEF InOrder, InOrderUpto
<1> QED BY <1>1, <1>5, <1>6

-----------------------------------------------------------------------------
(* The newest row.                                                         *)

LEMMA SecondsAre ==
  ASSUME NEW s, NEW n \in Nat, NEW i \in 1..n
  PROVE  /\ SecondOf(s, i) \in 0..n
         /\ (\A j \in 1..n : ~s[j].tie) => SecondOf(s, i) = i
<1> DEFINE open == {j \in 1..i : ~s[j].tie}
<1>1. IsFiniteSet(1..i) /\ Cardinality(1..i) = i
  BY FS_Interval
<1>2. open \in SUBSET (1..i)
  OBVIOUS
<1>3. /\ IsFiniteSet(open) /\ Cardinality(open) \in Nat /\ Cardinality(open) <= i
  BY <1>1, <1>2, FS_Subset, FS_CardinalityType
<1>4. SecondOf(s, i) = Cardinality(open)
  BY DEF SecondOf
<1>5. ASSUME \A j \in 1..n : ~s[j].tie
      PROVE  open = 1..i
  BY <1>5
<1>6. PICK k \in Nat : k = Cardinality(open)
  BY <1>3
<1> HIDE DEF open
<1> QED BY <1>1, <1>3, <1>4, <1>5, <1>6

(* No row precedes the newest one; without ties it is the last.            *)
LEMMA NewestIs ==
  ASSUME NEW S, NEW s \in Seq(S), s # <<>>
  PROVE  /\ \E i \in DOMAIN s : Newest(s) = s[i]
         /\ (\A j \in DOMAIN s : ~s[j].tie) => Newest(s) = s[Len(s)]
<1>1. PICK N \in Nat : N = Len(s) /\ DOMAIN s = 1..N /\ N # 0
  BY EmptySeq
<1>2. \A i \in 1..N : SecondOf(s, i) \in 0..N
  BY SecondsAre
<1> DEFINE before(i) == {j \in DOMAIN s : Precedes(s, j, i)}
<1>3. \A i \in DOMAIN s : Cardinality(before(i)) < 1 <=> before(i) = {}
  <2>1. SUFFICES ASSUME NEW i \in DOMAIN s
                 PROVE  Cardinality(before(i)) < 1 <=> before(i) = {}
    OBVIOUS
  <2>2. IsFiniteSet(1..N) /\ before(i) \in SUBSET (1..N)
    BY <1>1, FS_Interval
  <2> HIDE DEF before
  <2>3. IsFiniteSet(before(i)) /\ Cardinality(before(i)) \in Nat
    BY <2>2, FS_Subset, FS_CardinalityType
  <2>4. Cardinality(before(i)) = 0 <=> before(i) = {}
    BY <2>3, FS_EmptySet
  <2>5. PICK k \in Nat : k = Cardinality(before(i))
    BY <2>3
  <2> QED BY <2>4, <2>5
<1>4. \E i \in DOMAIN s : before(i) = {}
  <2> DEFINE A == {d \in Nat : \E i \in 1..N : d = N - SecondOf(s, i)}
  <2>1. A \subseteq Nat /\ A # {}
    <3>1. 1 \in 1..N
      BY <1>1
    <3>2. PICK k \in 0..N : k = SecondOf(s, 1)
      BY <1>2, <3>1
    <3>3. N - k \in Nat /\ N - k = N - SecondOf(s, 1)
      BY <3>2
    <3> QED BY <3>1, <3>3
  <2>2. PICK d \in A : \A k \in A : d <= k
    BY <2>1, LeastNat
  <2>3. d \in Nat /\ \E i \in 1..N : d = N - SecondOf(s, i)
    OBVIOUS
  <2>4. ASSUME NEW j \in 1..N
        PROVE  SecondOf(s, j) <= N - d
    <3>1. PICK k \in 0..N : k = SecondOf(s, j)
      BY <1>2
    <3>2. N - k \in A
      BY <3>1
    <3>3. d <= N - k
      BY <2>2, <3>2
    <3> QED BY <2>3, <3>1, <3>3
  <2> DEFINE M == {i \in 1..N : SecondOf(s, i) = N - d}
  <2>5. M \subseteq Nat /\ M # {}
    <3>1. PICK i \in 1..N : d = N - SecondOf(s, i)
      BY <2>3
    <3>2. PICK k \in 0..N : k = SecondOf(s, i)
      BY <1>2
    <3>3. k = N - d
      BY <2>3, <3>1, <3>2
    <3>4. i \in M
      BY <3>2, <3>3
    <3> QED BY <3>4
  <2>6. PICK i \in M : \A k \in M : i <= k
    BY <2>5, LeastNat
  <2>7. i \in 1..N /\ SecondOf(s, i) = N - d
    OBVIOUS
  <2>8. ASSUME NEW j \in 1..N, Precedes(s, j, i)
        PROVE  FALSE
    <3>1. PICK k \in 0..N : k = SecondOf(s, j)
      BY <1>2
    <3>2. k <= N - d /\ (k > N - d \/ (k = N - d /\ j < i))
      BY <2>4, <2>7, <2>8, <3>1 DEF Precedes
    <3>3. k = N - d /\ j < i
      BY <2>3, <3>1, <3>2
    <3>4. j \in M
      BY <3>1, <3>3
    <3>5. i <= j
      BY <2>6, <3>4
    <3> QED BY <2>7, <3>3, <3>5
  <2>9. before(i) = {}
    BY <1>1, <2>8
  <2> QED BY <1>1, <2>7, <2>9
<1>5. PICK top : top = CHOOSE i \in Recent(s, 1) : TRUE
  OBVIOUS
<1>6. Recent(s, 1) = {i \in DOMAIN s : before(i) = {}}
  <2>1. Recent(s, 1) = {i \in DOMAIN s : Cardinality(before(i)) < 1}
    BY DEF Recent
  <2> HIDE DEF before
  <2> QED BY <1>3, <2>1
<1>7. top \in DOMAIN s /\ before(top) = {} /\ Newest(s) = s[top]
  <2>1. top \in Recent(s, 1)
    <3> HIDE DEF before
    <3> QED BY <1>4, <1>5, <1>6
  <2> QED BY <1>5, <1>6, <2>1 DEF Newest
<1>8. ASSUME \A j \in DOMAIN s : ~s[j].tie
      PROVE  top = N
  <2>1. SecondOf(s, top) = top /\ SecondOf(s, N) = N
    <3>1. top \in 1..N /\ N \in 1..N /\ \A j \in 1..N : ~s[j].tie
      BY <1>1, <1>7, <1>8
    <3> HIDE DEF before
    <3> QED BY <3>1, SecondsAre
  <2>2. ~Precedes(s, N, top)
    BY <1>1, <1>7
  <2> QED BY <1>1, <1>7, <2>1, <2>2 DEF Precedes
<1> QED BY <1>1, <1>7, <1>8

-----------------------------------------------------------------------------
(* A conversation of the store with its files and the ids drawn for it.    *)
Conversation(s, files, last, B) ==
  /\ last \in Nat
  /\ Table(s, B) /\ IdsUpto(s, last)
  /\ HubOf(files, last, B)

(* An added row is the last one, of the latest message.                    *)
LEMMA AddedStays ==
  ASSUME NEW B, NEW s, NEW files, NEW last, Conversation(s, files, last, B),
         NEW body \in B, NEW tie \in BOOLEAN
  PROVE  LET r == Added(s, last + 1, body, tie)
             f == Uploaded(files, last + 1, NextIndex(s), body)
         IN  /\ Conversation(r, f, last + 1, B)
             /\ InOrder(s, files) => InOrder(r, f)
<1>1. last \in Nat /\ last + 1 \in Nat
  BY DEF Conversation
<1>2. PICK n \in Nat : n = last + 1
  BY <1>1
<1>3. PICK r : r = Added(s, n, body, tie)
  OBVIOUS
<1>4. Table(r, B) /\ \E m \in Nat : \E p : Grown(r, s, n, body, m, p)
  BY <1>3, AddedIs DEF Conversation
<1>5a. PICK m \in Nat : \E p : Grown(r, s, n, body, m, p)
  BY <1>4
<1>5. PICK p : Grown(r, s, n, body, m, p)
  BY <1>5a
<1>6. DOMAIN r = 1..(m + 1) /\ r[m + 1].id = n
  BY <1>4, <1>5 DEF Table, Grown
<1>7. ASSUME NEW i \in 1..m
      PROVE  p[i] \in DOMAIN s /\ r[i].id = s[p[i]].id /\ r[i].id \in 1..last
  BY <1>5 DEF Grown, Conversation, IdsUpto
<1>8. IdsUpto(r, n)
  <2>1. \A i \in 1..(m + 1) : i \in 1..m \/ i = m + 1
    OBVIOUS
  <2>2. \A k \in 1..last : k \in 1..n
    BY <1>1, <1>2
  <2>3. n \in 1..n
    BY <1>1, <1>2
  <2> QED BY <1>6, <1>7, <2>1, <2>2, <2>3 DEF IdsUpto
<1>9. PICK k \in Nat : k = NextIndex(s)
  BY NextIndexIs DEF Conversation
<1>10. PICK f : f = Uploaded(files, n, k, body)
  OBVIOUS
<1>11. HubOf(f, n, B) /\ \A i \in 1..last : i \in Listed(f) => i \in Listed(files)
  <2>1. PICK new : new = [id |-> n, idx |-> k, body |-> body]
    OBVIOUS
  <2>2. new \in [id : 1..n, idx : Nat, body : B] /\ new.id = n
    BY <1>1, <1>2, <2>1
  <2>3. f \subseteq files \cup {new}
    BY <1>10, <2>1 DEF Uploaded
  <2>4. files \subseteq [id : 1..n, idx : Nat, body : B]
    <3>1. files \subseteq [id : 1..last, idx : Nat, body : B]
      BY DEF Conversation, HubOf
    <3>2. 1..last \subseteq 1..n
      BY <1>1, <1>2
    <3> QED BY <3>1, <3>2
  <2>5. \A i \in 1..last : i # n
    BY <1>1, <1>2
  <2> QED BY <2>2, <2>3, <2>4, <2>5 DEF HubOf, Listed
<1>12. ASSUME InOrder(s, files)
       PROVE  InOrder(r, f)
  <2>1. SUFFICES ASSUME NEW i \in 1..(m + 1), NEW j \in 1..(m + 1), i < j, r[i].id \in Listed(f)
                 PROVE  r[i].id < r[j].id
    BY <1>6 DEF InOrder
  <2>2. i \in 1..m /\ (j \in 1..m \/ j = m + 1)
    BY <2>1
  <2>3. r[i].id \in 1..last /\ r[i].id \in Listed(files)
    BY <1>7, <1>11, <2>1, <2>2
  <2>4. CASE j \in 1..m
    <3>1. p[i] \in DOMAIN s /\ p[j] \in DOMAIN s /\ p[i] < p[j]
      BY <1>5, <1>7, <2>1, <2>2, <2>4 DEF Grown
    <3> QED BY <1>7, <1>12, <2>2, <2>3, <2>4, <3>1 DEF InOrder
  <2>5. CASE j = m + 1
    BY <1>1, <1>2, <1>6, <2>3, <2>5
  <2> QED BY <2>2, <2>4, <2>5
<1>13. Conversation(r, f, n, B)
  BY <1>4, <1>8, <1>11 DEF Conversation
<1> QED BY <1>2, <1>3, <1>9, <1>10, <1>12, <1>13

(* Removed rows leave the others in their order.                           *)
LEMMA RemainingStays ==
  ASSUME NEW B, NEW s, NEW files, NEW last, Conversation(s, files, last, B), NEW gone
  PROVE  /\ Conversation(Remaining(s, gone), files, last, B)
         /\ InOrder(s, files) => InOrder(Remaining(s, gone), files)
<1>1. PICK r : r = Remaining(s, gone)
  OBVIOUS
<1>2. Table(r, B) /\ \E p : Left(r, s, gone, p)
  BY <1>1, RemainingIs DEF Conversation
<1>3. PICK p : Left(r, s, gone, p)
  BY <1>2
<1>4. \A n \in DOMAIN r : p[n] \in DOMAIN s /\ r[n].id = s[p[n]].id
  BY <1>3 DEF Left
<1>5. IdsUpto(r, last)
  BY <1>4 DEF Conversation, IdsUpto
<1>6. InOrder(s, files) => InOrder(r, files)
  BY <1>3, <1>4 DEF InOrder, Left
<1> QED BY <1>1, <1>2, <1>5, <1>6 DEF Conversation

LEMMA NoRows ==
  ASSUME NEW B, NEW files, NEW last \in Nat, HubOf(files, last, B)
  PROVE  Conversation(<<>>, files, last, B) /\ InOrder(<<>>, files)
<1>1. PICK e : e = <<>> /\ e \in Seq(TableRows(B)) /\ DOMAIN e = {}
  <2>1. <<>> = <<>> /\ <<>> \in Seq(TableRows(B)) /\ DOMAIN <<>> = {}
    BY EmptySeq
  <2> QED BY <2>1
<1>2. Conversation(e, files, last, B) /\ InOrder(e, files)
  BY <1>1 DEF Conversation, Table, IdsUpto, InOrder, Opens
<1> QED BY <1>1, <1>2

LEMMA ReloadedStays ==
  ASSUME NEW B, NEW s, NEW files, NEW last, Conversation(s, files, last, B),
         NEW fast \in BOOLEAN
  PROVE  /\ Conversation(Reloaded(s, files, last, fast), files, last, B)
         /\ InOrder(Reloaded(s, files, last, fast), files)
BY ReloadedIs DEF Conversation

-----------------------------------------------------------------------------
(* The invariant of every run: each table is one, its rows and its files   *)
(* are of messages drawn, and a worker holds what its place needs.         *)

Bodies == SUBSET Ids
ProfileBodies == Seq(FoldedBatch)

StoreInv ==
  /\ DOMAIN stm = Conv /\ DOMAIN ltm = Conv /\ DOMAIN hub = Store
  /\ drawn \in [Store -> Nat]
  /\ \A c \in Conv : /\ Conversation(stm[c], hub[Stm(c)], drawn[Stm(c)], Bodies)
                     /\ InOrder(stm[c], hub[Stm(c)])
                     /\ drawn[Stm(c)] <= MaxStm
  /\ \A c \in Conv : Conversation(ltm[c], hub[Ltm(c)], drawn[Ltm(c)], Bodies)
  /\ Conversation(profile, hub[Profile], drawn[Profile], ProfileBodies)

Scanning == [pc : {"scan", "wait"}, known : SUBSET Conv, todo : SUBSET Conv]
Asking == [pc : {"ltm"}, known : SUBSET Conv, todo : SUBSET Conv, conv : Conv, batch : Bodies]
Folding == [pc : {"profile"}, known : SUBSET Conv, todo : SUBSET Conv, conv : Conv,
            batch : Bodies, prev : ProfileBodies]
Dead == [pc : {"dead"}, known : SUBSET Conv]

WorkerOK(r) ==
  \/ r = Off
  \/ r \in Scanning /\ r.todo \subseteq r.known
  \/ r \in Asking /\ r.todo \subseteq r.known /\ r.conv \in r.known
  \/ r \in Folding /\ r.todo \subseteq r.known /\ r.conv \in r.known
  \/ r \in Dead

WorkersOK == DOMAIN worker = Worker /\ \A w \in Worker : WorkerOK(worker[w])

MemoryInv == StoreInv /\ WorkersOK

(* The conversation ids of the store are distinct.                         *)
LEMMA StoreIds ==
  /\ Profile \in Store
  /\ \A c \in Conv : Stm(c) \in Store /\ Ltm(c) \in Store
  /\ \A c, d \in Conv : /\ Stm(c) = Stm(d) => c = d
                        /\ Ltm(c) = Ltm(d) => c = d
                        /\ Stm(c) # Ltm(d) /\ Stm(c) # Profile /\ Ltm(c) # Profile
<1>1. \A c, d \in Conv : /\ <<"stm", c>> = <<"stm", d>> => c = d
                         /\ <<"ltm", c>> = <<"ltm", d>> => c = d
                         /\ <<"stm", c>> # <<"ltm", d>>
  OBVIOUS
<1>2. \A c \in Conv : <<"stm", c>> # <<"profile">> /\ <<"ltm", c>> # <<"profile">>
  OBVIOUS
<1> QED BY <1>1, <1>2 DEF Stm, Ltm, Profile, Store

LEMMA DrawIs ==
  ASSUME DOMAIN hub = Store, drawn \in [Store -> Nat], NEW x \in Store, NEW rows, NEW body,
         Draw(x, rows, body)
  PROVE  /\ drawn' \in [Store -> Nat] /\ DOMAIN hub' = Store
         /\ drawn'[x] = drawn[x] + 1
         /\ hub'[x] = Uploaded(hub[x], drawn[x] + 1, NextIndex(rows), body)
         /\ \A y \in Store : y # x => drawn'[y] = drawn[y] /\ hub'[y] = hub[y]
BY DEF Draw

LEMMA StoreInit == Init => StoreInv
<1> SUFFICES ASSUME Init PROVE StoreInv
  OBVIOUS
<1>1. \A x \in Store : hub[x] = {} /\ drawn[x] = 0
  BY DEF Init
<1>2. \A B : HubOf({}, 0, B)
  BY DEF HubOf
<1>3. \A B : Conversation(<<>>, {}, 0, B) /\ InOrder(<<>>, {})
  BY <1>2, NoRows
<1>4. DOMAIN stm = Conv /\ DOMAIN ltm = Conv /\ DOMAIN hub = Store /\ drawn \in [Store -> Nat]
  BY DEF Init
<1>5. profile = <<>> /\ \A c \in Conv : stm[c] = <<>> /\ ltm[c] = <<>>
  BY DEF Init
<1>6. 0 <= MaxStm
  BY LTMemoryAssumption
<1>7. ASSUME NEW c \in Conv
      PROVE  /\ Conversation(stm[c], hub[Stm(c)], drawn[Stm(c)], Bodies)
             /\ InOrder(stm[c], hub[Stm(c)]) /\ drawn[Stm(c)] <= MaxStm
             /\ Conversation(ltm[c], hub[Ltm(c)], drawn[Ltm(c)], Bodies)
  <2>1. /\ hub[Stm(c)] = {} /\ drawn[Stm(c)] = 0 /\ hub[Ltm(c)] = {} /\ drawn[Ltm(c)] = 0
        /\ stm[c] = <<>> /\ ltm[c] = <<>>
    BY <1>1, <1>5, StoreIds
  <2> QED BY <1>3, <1>6, <2>1
<1>8. Conversation(profile, hub[Profile], drawn[Profile], ProfileBodies)
  <2>1. hub[Profile] = {} /\ drawn[Profile] = 0
    BY <1>1, StoreIds
  <2> QED BY <1>3, <1>5, <2>1
<1> QED BY <1>4, <1>7, <1>8 DEF StoreInv

LEMMA CreateStore == ASSUME StoreInv, NEW w \in Worker, Create(w) PROVE StoreInv'
<1>1. PICK fast \in BOOLEAN :
        /\ stm' = IF Preload THEN [c \in Conv |-> AllReloaded(stm[c], Stm(c), fast)] ELSE stm
        /\ ltm' = IF Preload THEN [c \in Conv |-> AllReloaded(ltm[c], Ltm(c), fast)] ELSE ltm
        /\ profile' = AllReloaded(profile, Profile, fast)
  BY DEF Create
<1>2. hub' = hub /\ drawn' = drawn
  BY DEF Create
<1>3. ASSUME NEW c \in Conv
      PROVE  /\ Conversation(stm'[c], hub[Stm(c)], drawn[Stm(c)], Bodies)
             /\ InOrder(stm'[c], hub[Stm(c)])
             /\ Conversation(ltm'[c], hub[Ltm(c)], drawn[Ltm(c)], Bodies)
  <2>1. /\ Conversation(stm[c], hub[Stm(c)], drawn[Stm(c)], Bodies)
        /\ InOrder(stm[c], hub[Stm(c)])
        /\ Conversation(ltm[c], hub[Ltm(c)], drawn[Ltm(c)], Bodies)
    BY DEF StoreInv
  <2>2. CASE ~Preload
    BY <1>1, <2>1, <2>2
  <2>3. CASE Preload
    <3>1. /\ stm'[c] = Reloaded(stm[c], hub[Stm(c)], drawn[Stm(c)], fast)
          /\ ltm'[c] = Reloaded(ltm[c], hub[Ltm(c)], drawn[Ltm(c)], fast)
      BY <1>1, <2>3 DEF AllReloaded
    <3> QED BY <2>1, <3>1, ReloadedStays
  <2> QED BY <2>2, <2>3
<1>4. Conversation(profile', hub[Profile], drawn[Profile], ProfileBodies)
  BY <1>1, ReloadedStays DEF StoreInv, AllReloaded
<1>5. DOMAIN stm' = Conv /\ DOMAIN ltm' = Conv
  BY <1>1 DEF StoreInv
<1>6. DOMAIN hub = Store /\ drawn \in [Store -> Nat] /\ \A c \in Conv : drawn[Stm(c)] <= MaxStm
  BY DEF StoreInv
<1> QED BY <1>2, <1>3, <1>4, <1>5, <1>6 DEF StoreInv

LEMMA ChatStore ==
  ASSUME StoreInv, NEW w \in Worker, NEW c \in Conv, Chat(w, c)
  PROVE  StoreInv'
<1>1. PICK tie \in BOOLEAN : stm' = [stm EXCEPT ![c] = Added(@, drawn[Stm(c)] + 1, {}, tie)]
  BY DEF Chat
<1>2. /\ Draw(Stm(c), stm[c], {}) /\ ltm' = ltm /\ profile' = profile
      /\ drawn[Stm(c)] < MaxStm
  BY DEF Chat
<1>3. Stm(c) \in Store /\ DOMAIN hub = Store /\ drawn \in [Store -> Nat]
  BY StoreIds DEF StoreInv
<1>4. /\ drawn' \in [Store -> Nat] /\ DOMAIN hub' = Store
      /\ drawn'[Stm(c)] = drawn[Stm(c)] + 1
      /\ hub'[Stm(c)] = Uploaded(hub[Stm(c)], drawn[Stm(c)] + 1, NextIndex(stm[c]), {})
      /\ \A y \in Store : y # Stm(c) => drawn'[y] = drawn[y] /\ hub'[y] = hub[y]
  BY <1>2, <1>3, DrawIs
<1>5. /\ DOMAIN stm' = Conv /\ stm'[c] = Added(stm[c], drawn[Stm(c)] + 1, {}, tie)
      /\ \A d \in Conv : d # c => stm'[d] = stm[d]
  BY <1>1 DEF StoreInv
<1>6. /\ Conversation(stm'[c], hub'[Stm(c)], drawn'[Stm(c)], Bodies)
      /\ InOrder(stm'[c], hub'[Stm(c)])
  <2>1. /\ Conversation(stm[c], hub[Stm(c)], drawn[Stm(c)], Bodies)
        /\ InOrder(stm[c], hub[Stm(c)]) /\ {} \in Bodies
    BY DEF StoreInv, Bodies
  <2>2. /\ Conversation(Added(stm[c], drawn[Stm(c)] + 1, {}, tie),
                        Uploaded(hub[Stm(c)], drawn[Stm(c)] + 1, NextIndex(stm[c]), {}),
                        drawn[Stm(c)] + 1, Bodies)
        /\ InOrder(Added(stm[c], drawn[Stm(c)] + 1, {}, tie),
                   Uploaded(hub[Stm(c)], drawn[Stm(c)] + 1, NextIndex(stm[c]), {}))
    BY <2>1, AddedStays
  <2> QED BY <1>4, <1>5, <2>2
<1>7. drawn'[Stm(c)] <= MaxStm
  BY <1>2, <1>3, <1>4, LTMemoryAssumption
<1>8. ASSUME NEW d \in Conv
      PROVE  /\ Conversation(stm'[d], hub'[Stm(d)], drawn'[Stm(d)], Bodies)
             /\ InOrder(stm'[d], hub'[Stm(d)])
             /\ drawn'[Stm(d)] <= MaxStm
             /\ Conversation(ltm[d], hub'[Ltm(d)], drawn'[Ltm(d)], Bodies)
  <2>1. /\ Ltm(d) \in Store /\ Ltm(d) # Stm(c) /\ Stm(d) \in Store
        /\ d # c => Stm(d) # Stm(c)
    BY StoreIds
  <2>2. Conversation(ltm[d], hub'[Ltm(d)], drawn'[Ltm(d)], Bodies)
    BY <1>4, <2>1 DEF StoreInv
  <2>3. CASE d = c
    BY <1>6, <1>7, <2>2, <2>3
  <2>4. CASE d # c
    BY <1>4, <1>5, <2>1, <2>2, <2>4 DEF StoreInv
  <2> QED BY <2>3, <2>4
<1>9. Conversation(profile, hub'[Profile], drawn'[Profile], ProfileBodies)
  <2>1. Profile \in Store /\ Profile # Stm(c)
    BY StoreIds
  <2> QED BY <1>4, <2>1 DEF StoreInv
<1>10. DOMAIN ltm = Conv
  BY DEF StoreInv
<1> QED BY <1>2, <1>4, <1>5, <1>8, <1>9, <1>10 DEF StoreInv

LEMMA LtmStore ==
  ASSUME StoreInv, NEW w \in Worker, WorkerOK(worker[w]), LtmAnswered(w)
  PROVE  StoreInv'
<1>1. PICK c \in Conv, batch \in Bodies : c = worker[w].conv /\ batch = worker[w].batch
  <2>1. worker[w] \in Asking
    <3>1. worker[w].pc = "ltm"
      BY DEF LtmAnswered
    <3> QED BY <3>1 DEF WorkerOK, Off, Scanning, Folding, Dead
  <2> QED BY <2>1 DEF Asking
<1>2. /\ ltm' = [ltm EXCEPT ![c] = Added(@, drawn[Ltm(c)] + 1, batch, FALSE)]
      /\ Draw(Ltm(c), ltm[c], batch)
      /\ stm' = stm /\ profile' = profile
  BY <1>1 DEF LtmAnswered
<1>3. Ltm(c) \in Store /\ DOMAIN hub = Store /\ drawn \in [Store -> Nat]
  BY StoreIds DEF StoreInv
<1>4. /\ drawn' \in [Store -> Nat] /\ DOMAIN hub' = Store
      /\ drawn'[Ltm(c)] = drawn[Ltm(c)] + 1
      /\ hub'[Ltm(c)] = Uploaded(hub[Ltm(c)], drawn[Ltm(c)] + 1, NextIndex(ltm[c]), batch)
      /\ \A y \in Store : y # Ltm(c) => drawn'[y] = drawn[y] /\ hub'[y] = hub[y]
  BY <1>2, <1>3, DrawIs
<1>5. /\ DOMAIN ltm' = Conv /\ ltm'[c] = Added(ltm[c], drawn[Ltm(c)] + 1, batch, FALSE)
      /\ \A d \in Conv : d # c => ltm'[d] = ltm[d]
  BY <1>2 DEF StoreInv
<1>6. Conversation(ltm'[c], hub'[Ltm(c)], drawn'[Ltm(c)], Bodies)
  <2>1. Conversation(ltm[c], hub[Ltm(c)], drawn[Ltm(c)], Bodies)
    BY DEF StoreInv
  <2>2. Conversation(Added(ltm[c], drawn[Ltm(c)] + 1, batch, FALSE),
                     Uploaded(hub[Ltm(c)], drawn[Ltm(c)] + 1, NextIndex(ltm[c]), batch),
                     drawn[Ltm(c)] + 1, Bodies)
    BY <2>1, AddedStays
  <2> QED BY <1>4, <1>5, <2>2
<1>7. ASSUME NEW d \in Conv
      PROVE  /\ Conversation(stm[d], hub'[Stm(d)], drawn'[Stm(d)], Bodies)
             /\ InOrder(stm[d], hub'[Stm(d)])
             /\ drawn'[Stm(d)] <= MaxStm
             /\ Conversation(ltm'[d], hub'[Ltm(d)], drawn'[Ltm(d)], Bodies)
  <2>1. /\ Ltm(d) \in Store /\ Stm(d) # Ltm(c) /\ Stm(d) \in Store
        /\ d # c => Ltm(d) # Ltm(c)
    BY StoreIds
  <2>2. /\ Conversation(stm[d], hub'[Stm(d)], drawn'[Stm(d)], Bodies)
        /\ InOrder(stm[d], hub'[Stm(d)]) /\ drawn'[Stm(d)] <= MaxStm
    BY <1>4, <2>1 DEF StoreInv
  <2>3. CASE d = c
    BY <1>6, <2>2, <2>3
  <2>4. CASE d # c
    BY <1>4, <1>5, <2>1, <2>2, <2>4 DEF StoreInv
  <2> QED BY <2>3, <2>4
<1>8. Conversation(profile, hub'[Profile], drawn'[Profile], ProfileBodies)
  <2>1. Profile \in Store /\ Profile # Ltm(c)
    BY StoreIds
  <2> QED BY <1>4, <2>1 DEF StoreInv
<1>9. DOMAIN stm = Conv
  BY DEF StoreInv
<1> QED BY <1>2, <1>4, <1>5, <1>7, <1>8, <1>9 DEF StoreInv

LEMMA ProfileStore ==
  ASSUME StoreInv, NEW w \in Worker, WorkerOK(worker[w]), ProfileAnswered(w)
  PROVE  StoreInv'
<1>1. PICK body \in ProfileBodies :
        body = Append(worker[w].prev, <<worker[w].conv, worker[w].batch>>)
  <2>1. worker[w] \in Folding
    <3>1. worker[w].pc = "profile"
      BY DEF ProfileAnswered
    <3> QED BY <3>1 DEF WorkerOK, Off, Scanning, Asking, Dead
  <2>2. /\ worker[w].prev \in Seq(FoldedBatch)
        /\ <<worker[w].conv, worker[w].batch>> \in FoldedBatch
    BY <2>1 DEF Folding, ProfileBodies, Bodies, FoldedBatch
  <2>3. Append(worker[w].prev, <<worker[w].conv, worker[w].batch>>) \in Seq(FoldedBatch)
    BY <2>2
  <2> QED BY <2>3 DEF ProfileBodies
<1>2. /\ profile' = Added(profile, drawn[Profile] + 1, body, FALSE)
      /\ Draw(Profile, profile, body)
      /\ stm' = stm /\ ltm' = ltm
  BY <1>1 DEF ProfileAnswered
<1>3. Profile \in Store /\ DOMAIN hub = Store /\ drawn \in [Store -> Nat]
  BY StoreIds DEF StoreInv
<1>4. /\ drawn' \in [Store -> Nat] /\ DOMAIN hub' = Store
      /\ drawn'[Profile] = drawn[Profile] + 1
      /\ hub'[Profile] = Uploaded(hub[Profile], drawn[Profile] + 1, NextIndex(profile), body)
      /\ \A y \in Store : y # Profile => drawn'[y] = drawn[y] /\ hub'[y] = hub[y]
  BY <1>2, <1>3, DrawIs
<1>5. Conversation(profile', hub'[Profile], drawn'[Profile], ProfileBodies)
  <2>1. Conversation(profile, hub[Profile], drawn[Profile], ProfileBodies)
    BY DEF StoreInv
  <2>2. Conversation(Added(profile, drawn[Profile] + 1, body, FALSE),
                     Uploaded(hub[Profile], drawn[Profile] + 1, NextIndex(profile), body),
                     drawn[Profile] + 1, ProfileBodies)
    BY <2>1, AddedStays
  <2> QED BY <1>2, <1>4, <2>2
<1>6. \A d \in Conv : /\ Ltm(d) \in Store /\ Stm(d) # Profile /\ Stm(d) \in Store
                      /\ Ltm(d) # Profile
  BY StoreIds
<1> QED BY <1>2, <1>4, <1>5, <1>6 DEF StoreInv

LEMMA RemovedStore ==
  ASSUME StoreInv, NEW c \in Conv, Delete(c) \/ Clear(c)
  PROVE  StoreInv'
<1>1. /\ ltm' = ltm /\ profile' = profile /\ hub' = hub /\ drawn' = drawn
      /\ DOMAIN stm' = Conv /\ \A d \in Conv : d # c => stm'[d] = stm[d]
  BY DEF Delete, Clear, StoreInv
<1>2. Conversation(stm[c], hub[Stm(c)], drawn[Stm(c)], Bodies) /\ InOrder(stm[c], hub[Stm(c)])
  BY DEF StoreInv
<1>3. Conversation(stm'[c], hub[Stm(c)], drawn[Stm(c)], Bodies) /\ InOrder(stm'[c], hub[Stm(c)])
  <2>1. CASE Delete(c)
    <3>1. PICK i \in DOMAIN stm[c] :
            stm' = [stm EXCEPT ![c] = Remaining(@, {j \in DOMAIN @ : @[j].idx = @[i].idx})]
      BY <2>1 DEF Delete
    <3>2. stm'[c] = Remaining(stm[c], {j \in DOMAIN stm[c] : stm[c][j].idx = stm[c][i].idx})
      BY <3>1 DEF StoreInv
    <3> QED BY <1>2, <3>2, RemainingStays
  <2>2. CASE Clear(c)
    <3>1. stm'[c] = <<>>
      BY <2>2 DEF Clear, StoreInv
    <3> QED BY <1>2, <3>1, NoRows DEF Conversation
  <2> QED BY <2>1, <2>2
<1>4. \A d \in Conv : /\ Conversation(stm'[d], hub[Stm(d)], drawn[Stm(d)], Bodies)
                      /\ InOrder(stm'[d], hub[Stm(d)])
  BY <1>1, <1>3 DEF StoreInv
<1> QED BY <1>1, <1>4 DEF StoreInv

-----------------------------------------------------------------------------
(* The workers.                                                            *)

LEMMA CurrentProfileIs == ASSUME StoreInv PROVE CurrentProfile \in ProfileBodies
<1>1. profile \in Seq(TableRows(ProfileBodies))
  BY DEF StoreInv, Conversation, Table
<1>2. CASE profile = <<>>
  <2>1. <<>> \in Seq(FoldedBatch)
    BY EmptySeq
  <2> QED BY <1>2, <2>1 DEF CurrentProfile, ProfileBodies
<1>3. CASE profile # <<>>
  <2>1. PICK i \in DOMAIN profile : Newest(profile) = profile[i]
    BY <1>1, <1>3, NewestIs
  <2>2. profile[i] \in TableRows(ProfileBodies)
    BY <1>1, <2>1
  <2>3. profile[i].body \in ProfileBodies
    BY <2>2 DEF TableRows
  <2> QED BY <1>3, <2>1, <2>3 DEF CurrentProfile
<1> QED BY <1>2, <1>3

(* What a worker holds, by its place.                                      *)
LEMMA WorkerPlaces ==
  ASSUME NEW r, WorkerOK(r)
  PROVE  /\ r.pc \in {"off", "scan", "wait", "ltm", "profile", "dead"}
         /\ r.pc \in {"scan", "wait"} => r \in Scanning /\ r.todo \subseteq r.known
         /\ r.pc = "ltm" => r \in Asking /\ r.todo \subseteq r.known /\ r.conv \in r.known
         /\ r.pc = "profile" => r \in Folding /\ r.todo \subseteq r.known /\ r.conv \in r.known
         /\ r.pc = "dead" => r \in Dead
BY DEF WorkerOK, Off, Scanning, Asking, Folding, Dead

LEMMA JoinedIs ==
  ASSUME NEW r, WorkerOK(r), r.pc # "off", NEW c \in Conv
  PROVE  WorkerOK(Joined(r, c))
<1> DEFINE q == Joined(r, c)
<1> SUFFICES WorkerOK(q)
  OBVIOUS
<1>1. CASE c \in r.known
  BY <1>1 DEF Joined
<1>2. CASE c \notin r.known /\ r.pc \in {"wait", "dead"}
  <2>1. q = [r EXCEPT !.known = @ \cup {c}]
    BY <1>2 DEF Joined
  <2> HIDE DEF q
  <2>2. CASE r.pc = "wait"
    <3>1. r \in Scanning /\ r.todo \subseteq r.known
      BY <2>2, WorkerPlaces
    <3>2. q \in Scanning /\ q.todo = r.todo /\ q.known = r.known \cup {c}
      BY <2>1, <3>1 DEF Scanning
    <3> QED BY <3>1, <3>2 DEF WorkerOK
  <2>3. CASE r.pc = "dead"
    <3>1. r \in Dead
      BY <2>3, WorkerPlaces
    <3>2. q \in Dead
      BY <2>1, <3>1 DEF Dead
    <3> QED BY <3>2 DEF WorkerOK
  <2> QED BY <1>2, <2>2, <2>3
<1>3. CASE c \notin r.known /\ r.pc \notin {"wait", "dead"}
  <2>1. q = [r EXCEPT !.known = @ \cup {c}, !.todo = @ \cup {c}]
    BY <1>3 DEF Joined
  <2>2. r.pc \in {"scan", "ltm", "profile"}
    BY <1>3, WorkerPlaces
  <2> DEFINE K == r.known \cup {c}
             T == r.todo \cup {c}
  <2>6. q = [r EXCEPT !.known = K, !.todo = T]
    BY <2>1
  <2>7. r.known \subseteq Conv /\ r.todo \subseteq r.known => T \subseteq K /\ K \in SUBSET Conv /\ T \in SUBSET Conv /\ r.known \subseteq K
    OBVIOUS
  <2> HIDE DEF K, T, q
  <2>3. CASE r.pc = "scan"
    <3>1. r \in Scanning /\ r.todo \subseteq r.known
      BY <2>3, WorkerPlaces
    <3>2. T \subseteq K /\ K \in SUBSET Conv /\ T \in SUBSET Conv /\ r.known \subseteq K
      BY <2>7, <3>1 DEF Scanning
    <3>3. q \in Scanning /\ q.todo = T /\ q.known = K
      BY <2>6, <3>1, <3>2 DEF Scanning
    <3> QED BY <3>1, <3>2, <3>3 DEF WorkerOK
  <2>4. CASE r.pc = "ltm"
    <3>1. r \in Asking /\ r.todo \subseteq r.known /\ r.conv \in r.known
      BY <2>4, WorkerPlaces
    <3>2. T \subseteq K /\ K \in SUBSET Conv /\ T \in SUBSET Conv /\ r.known \subseteq K
      BY <2>7, <3>1 DEF Asking
    <3>3. q \in Asking /\ q.todo = T /\ q.known = K /\ q.conv = r.conv
      BY <2>6, <3>1, <3>2 DEF Asking
    <3> QED BY <3>1, <3>2, <3>3 DEF WorkerOK
  <2>5. CASE r.pc = "profile"
    <3>1. r \in Folding /\ r.todo \subseteq r.known /\ r.conv \in r.known
      BY <2>5, WorkerPlaces
    <3>2. T \subseteq K /\ K \in SUBSET Conv /\ T \in SUBSET Conv /\ r.known \subseteq K
      BY <2>7, <3>1 DEF Folding
    <3>3. q \in Folding /\ q.todo = T /\ q.known = K /\ q.conv = r.conv
      BY <2>6, <3>1, <3>2 DEF Folding
    <3> QED BY <3>1, <3>2, <3>3 DEF WorkerOK
  <2> QED BY <2>2, <2>3, <2>4, <2>5
<1> QED BY <1>1, <1>2, <1>3

LEMMA BatchIs == ASSUME StoreInv, NEW c \in Conv PROVE Batch(c) \in Bodies
<1>1. /\ IdsUpto(stm[c], drawn[Stm(c)]) /\ drawn[Stm(c)] \in Nat /\ drawn[Stm(c)] <= MaxStm
  BY DEF StoreInv, Conversation
<1>2. PICK last \in Nat : last = drawn[Stm(c)]
  BY <1>1
<1>3. 1..last \subseteq 0..MaxStm
  BY <1>1, <1>2, LTMemoryAssumption
<1>4. \A i \in DOMAIN stm[c] : stm[c][i].id \in Ids
  BY <1>1, <1>2, <1>3 DEF IdsUpto, Ids
<1> QED BY <1>4 DEF Batch, BatchRows, Bodies

(* A step changes one worker at most, unless the process ends.             *)
LEMMA WorkersStep == ASSUME StoreInv, WorkersOK, Next PROVE WorkersOK'
<1>1. ASSUME NEW w \in Worker, NEW q, WorkerOK(q), worker' = [worker EXCEPT ![w] = q]
      PROVE  WorkersOK'
  BY <1>1 DEF WorkersOK
<1>2. \A w \in Worker : WorkerOK(worker[w])
  BY DEF WorkersOK
<1>3. ASSUME NEW w \in Worker, Create(w)
      PROVE  WorkersOK'
  <2>1. PICK K \in SUBSET Conv :
          worker' = [worker EXCEPT ![w] = [pc |-> "scan", known |-> K, todo |-> K]]
    <3>1. PICK K : K = {c \in Conv : stm'[c] # <<>>}
      OBVIOUS
    <3>2. worker' = [worker EXCEPT ![w] = [pc |-> "scan", known |-> K, todo |-> K]]
      BY <1>3, <3>1 DEF Create
    <3> QED BY <3>1, <3>2
  <2>2. PICK q : q = [pc |-> "scan", known |-> K, todo |-> K]
    OBVIOUS
  <2>3. WorkerOK(q)
    BY <2>2 DEF WorkerOK, Scanning
  <2> QED BY <1>1, <2>1, <2>2, <2>3
<1>4. ASSUME NEW w \in Worker, NEW c \in Conv, Chat(w, c)
      PROVE  WorkersOK'
  <2>1. PICK q : q = Joined(worker[w], c)
    OBVIOUS
  <2>2. worker' = [worker EXCEPT ![w] = q]
    BY <1>4, <2>1 DEF Chat
  <2>3. worker[w].pc # "off"
    BY <1>4 DEF Chat
  <2>4. WorkerOK(q)
    BY <1>2, <2>1, <2>3, JoinedIs
  <2> QED BY <1>1, <2>2, <2>4
<1>5. ASSUME NEW w \in Worker, NEW c \in Conv, Skip(w, c)
      PROVE  WorkersOK'
  <2>1. worker[w] \in Scanning /\ worker[w].todo \subseteq worker[w].known
    BY <1>2, <1>5, WorkerPlaces DEF Skip
  <2>2. PICK q : q = [worker[w] EXCEPT !.todo = @ \ {c}]
    OBVIOUS
  <2>3. worker' = [worker EXCEPT ![w] = q]
    BY <1>5, <2>2 DEF Skip, WorkersOK
  <2>4. q \in Scanning /\ q.todo = worker[w].todo \ {c} /\ q.known = worker[w].known
    BY <2>1, <2>2 DEF Scanning
  <2> QED BY <1>1, <2>1, <2>3, <2>4 DEF WorkerOK
<1>6. ASSUME NEW w \in Worker, NEW c \in Conv, Take(w, c)
      PROVE  WorkersOK'
  <2>1. /\ worker[w] \in Scanning /\ worker[w].todo \subseteq worker[w].known
        /\ c \in worker[w].todo
    BY <1>2, <1>6, WorkerPlaces DEF Take
  <2>2. PICK batch \in Bodies : batch = Batch(c)
    BY BatchIs
  <2>3. PICK q : q = [pc |-> "ltm", known |-> worker[w].known, todo |-> worker[w].todo \ {c},
                      conv |-> c, batch |-> batch]
    OBVIOUS
  <2>4. worker' = [worker EXCEPT ![w] = q]
    BY <1>6, <2>2, <2>3 DEF Take, WorkersOK
  <2>5. /\ q \in Asking /\ q.todo = worker[w].todo \ {c} /\ q.known = worker[w].known
        /\ q.conv = c
    BY <2>1, <2>3 DEF Scanning, Asking
  <2> QED BY <1>1, <2>1, <2>4, <2>5 DEF WorkerOK
<1>7. ASSUME NEW w \in Worker, LtmAnswered(w) \/ LtmRefused(w)
      PROVE  WorkersOK'
  <2>1. /\ worker[w] \in Asking /\ worker[w].todo \subseteq worker[w].known
        /\ worker[w].conv \in worker[w].known
    BY <1>2, <1>7, WorkerPlaces DEF LtmAnswered, LtmRefused
  <2>2. PICK prev \in ProfileBodies : prev = CurrentProfile
    BY CurrentProfileIs
  <2>3. PICK q : q = [pc |-> "profile", known |-> worker[w].known, todo |-> worker[w].todo,
                      conv |-> worker[w].conv, batch |-> worker[w].batch, prev |-> prev]
    OBVIOUS
  <2>4. worker' = [worker EXCEPT ![w] = q]
    BY <1>7, <2>2, <2>3 DEF LtmAnswered, LtmRefused, AskProfile
  <2>5. /\ q \in Folding /\ q.todo = worker[w].todo /\ q.known = worker[w].known
        /\ q.conv = worker[w].conv
    BY <2>1, <2>3 DEF Asking, Folding
  <2> QED BY <1>1, <2>1, <2>4, <2>5 DEF WorkerOK
<1>8. ASSUME NEW w \in Worker, ProfileAnswered(w)
      PROVE  WorkersOK'
  <2>1. worker[w] \in Folding /\ worker[w].todo \subseteq worker[w].known
    BY <1>2, <1>8, WorkerPlaces DEF ProfileAnswered
  <2>2. PICK q : q = [pc |-> "scan", known |-> worker[w].known, todo |-> worker[w].todo]
    OBVIOUS
  <2>3. worker' = [worker EXCEPT ![w] = q]
    BY <1>8, <2>2 DEF ProfileAnswered, BackToScan
  <2>4. q \in Scanning /\ q.todo = worker[w].todo /\ q.known = worker[w].known
    BY <2>1, <2>2 DEF Folding, Scanning
  <2> QED BY <1>1, <2>1, <2>3, <2>4 DEF WorkerOK
<1>9. ASSUME NEW w \in Worker, ProfileRaises(w)
      PROVE  WorkersOK'
  <2>1. worker[w] \in Folding
    BY <1>2, <1>9, WorkerPlaces DEF ProfileRaises
  <2>2. PICK q : q = [pc |-> "dead", known |-> worker[w].known]
    OBVIOUS
  <2>3. worker' = [worker EXCEPT ![w] = q]
    BY <1>9, <2>2 DEF ProfileRaises, WorkersOK
  <2>4. q \in Dead
    BY <2>1, <2>2 DEF Folding, Dead
  <2> QED BY <1>1, <2>3, <2>4 DEF WorkerOK
<1>10. ASSUME NEW w \in Worker, Rest(w) \/ Wake(w)
       PROVE  WorkersOK'
  <2>1. worker[w] \in Scanning /\ worker[w].todo \subseteq worker[w].known
    BY <1>2, <1>10, WorkerPlaces DEF Rest, Wake
  <2>2. PICK q : q = IF worker[w].pc = "scan" THEN [worker[w] EXCEPT !.pc = "wait"]
                     ELSE [worker[w] EXCEPT !.pc = "scan", !.todo = worker[w].known]
    OBVIOUS
  <2>3. worker' = [worker EXCEPT ![w] = q]
    BY <1>10, <2>2 DEF Rest, Wake, WorkersOK
  <2>4. q \in Scanning /\ q.todo \subseteq q.known
    BY <2>1, <2>2 DEF Scanning
  <2> QED BY <1>1, <2>3, <2>4 DEF WorkerOK
<1>11. ASSUME NEW c \in Conv, Delete(c) \/ Clear(c)
       PROVE  WorkersOK'
  BY <1>11 DEF Delete, Clear, WorkersOK
<1>12. CASE Restart
  BY <1>12 DEF Restart, WorkersOK, WorkerOK
<1> QED BY <1>3, <1>4, <1>5, <1>6, <1>7, <1>8, <1>9, <1>10, <1>11, <1>12
        DEF Next, FlakyNext, RetryNext, SteadyNext, Round

-----------------------------------------------------------------------------
LEMMA MemoryInit == Init => MemoryInv
<1> SUFFICES ASSUME Init PROVE MemoryInv
  OBVIOUS
<1>1. StoreInv
  BY StoreInit
<1>2. WorkersOK
  BY DEF Init, WorkersOK, WorkerOK
<1> QED BY <1>1, <1>2 DEF MemoryInv

LEMMA MemoryStep == MemoryInv /\ [Next]_vars => MemoryInv'
<1> SUFFICES ASSUME MemoryInv, [Next]_vars PROVE MemoryInv'
  OBVIOUS
<1>1. StoreInv /\ WorkersOK /\ \A w \in Worker : WorkerOK(worker[w])
  BY DEF MemoryInv, WorkersOK
<1>2. CASE UNCHANGED vars
  BY <1>2 DEF vars, MemoryInv, StoreInv, WorkersOK
<1>3. CASE Next
  <2>1. WorkersOK'
    BY <1>1, <1>3, WorkersStep
  <2>2. ASSUME UNCHANGED <<stm, ltm, profile, hub, drawn>>
        PROVE  StoreInv'
    BY <1>1, <2>2 DEF StoreInv
  <2>3. ASSUME NEW w \in Worker, NEW c \in Conv, Skip(w, c) \/ Take(w, c)
        PROVE  StoreInv'
    BY <2>2, <2>3 DEF Skip, Take
  <2>4. ASSUME NEW w \in Worker,
               LtmRefused(w) \/ ProfileRaises(w) \/ Rest(w) \/ Wake(w) \/ Restart
        PROVE  StoreInv'
    BY <2>2, <2>4 DEF LtmRefused, ProfileRaises, Rest, Wake, Restart
  <2>5. ASSUME NEW w \in Worker, Create(w) \/ LtmAnswered(w) \/ ProfileAnswered(w)
        PROVE  StoreInv'
    BY <1>1, <2>5, CreateStore, LtmStore, ProfileStore
  <2>6. ASSUME NEW w \in Worker, NEW c \in Conv, Chat(w, c)
        PROVE  StoreInv'
    BY <1>1, <2>6, ChatStore
  <2>7. ASSUME NEW c \in Conv, Delete(c) \/ Clear(c)
        PROVE  StoreInv'
    BY <1>1, <2>7, RemovedStore
  <2>8. Restart => \E w \in Worker : TRUE
    BY DEF Restart
  <2>9. StoreInv'
    BY <1>3, <2>3, <2>4, <2>5, <2>6, <2>7, <2>8 DEF Next, FlakyNext, RetryNext, SteadyNext, Round
  <2> QED BY <2>1, <2>9 DEF MemoryInv
<1> QED BY <1>2, <1>3

LEMMA MemoryTypes == MemoryInv => TypeOK
<1> SUFFICES ASSUME MemoryInv PROVE TypeOK
  OBVIOUS
<1>1. ASSUME NEW c \in Conv
      PROVE  /\ stm[c] \in Seq(Rows) /\ ltm[c] \in Seq(Rows)
             /\ hub[Stm(c)] \subseteq Files /\ hub[Ltm(c)] \subseteq Files
             /\ Opens(stm[c]) /\ Opens(ltm[c])
  <2>1. TableRows(Bodies) = Rows
    BY DEF TableRows, Bodies, Rows
  <2>2. \A last \in Nat : [id : 1..last, idx : Nat, body : Bodies] \subseteq Files
    BY DEF Bodies, Files
  <2>3. \A last \in Nat : \A files : HubOf(files, last, Bodies) => files \subseteq Files
    BY <2>2 DEF HubOf
  <2>4. /\ Conversation(stm[c], hub[Stm(c)], drawn[Stm(c)], Bodies)
        /\ Conversation(ltm[c], hub[Ltm(c)], drawn[Ltm(c)], Bodies)
    BY DEF MemoryInv, StoreInv
  <2> QED BY <2>1, <2>3, <2>4 DEF Conversation, Table
<1>2. Table(profile, ProfileBodies) /\ drawn \in [Store -> Nat]
  BY DEF MemoryInv, StoreInv, Conversation
<1>3. \A i \in DOMAIN profile : profile[i].body \in Seq(FoldedBatch)
  <2>1. \A i \in DOMAIN profile : profile[i] \in TableRows(ProfileBodies)
    BY <1>2 DEF Table
  <2> QED BY <2>1 DEF TableRows, ProfileBodies
<1>4. ASSUME NEW w \in Worker
      PROVE  /\ worker[w].pc \in {"off", "scan", "wait", "ltm", "profile", "dead"}
             /\ worker[w].pc \in {"ltm", "profile"} =>
                  worker[w].conv \in worker[w].known /\ worker[w].batch \subseteq Ids
  <2>1. WorkerOK(worker[w])
    BY DEF MemoryInv, WorkersOK
  <2>2. /\ worker[w].pc = "ltm" => worker[w] \in Asking
        /\ worker[w].pc = "profile" => worker[w] \in Folding
    BY <2>1, WorkerPlaces
  <2>3. worker[w].pc \in {"ltm", "profile"} => worker[w].batch \in Bodies
    BY <2>2 DEF Asking, Folding
  <2> QED BY <2>1, <2>3, WorkerPlaces DEF Bodies
<1> QED BY <1>1, <1>2, <1>3, <1>4 DEF TypeOK, Table

LEMMA MemoryHistory == MemoryInv => HistoryInOrder
<1> SUFFICES ASSUME MemoryInv PROVE HistoryInOrder
  OBVIOUS
<1>1. \A c \in Conv : Table(stm[c], Bodies) /\ InOrder(stm[c], hub[Stm(c)])
  BY DEF MemoryInv, StoreInv, Conversation
<1> QED BY <1>1, MemoryTypes DEF HistoryInOrder, Table, InOrder

LEMMA MemoryInvariant == Spec => []MemoryInv
<1> QED BY MemoryInit, MemoryStep, PTL DEF Spec

(* Whatever is chatted, deleted, cleared, summarized and reloaded, by any  *)
(* number of instances and over any number of restarts, a conversation     *)
(* keeps its indexes and the messages that the hub has in order.           *)
THEOREM HistoriesInOrder == Spec => []HistoryInOrder
<1> QED BY MemoryInvariant, MemoryHistory, PTL

-----------------------------------------------------------------------------
(* The only instance of a process that is not restarted: the k-th message  *)
(* of a conversation has id k and index k - 1, the k-th summary is of the  *)
(* k-th block of them, and the worker holds the next block. While no       *)
(* summary was refused, the profile is of different blocks that all have a *)
(* summary, and the worker that asks for the next one holds the last block *)
(* summarized, which the profile has not.                                  *)

Block(k) == (k * StmsPerLtm + 1)..(k * StmsPerLtm + StmsPerLtm)

Unborn ==
  (\A w \in Worker : worker[w] = Off) =>
    /\ \A c \in Conv : stm[c] = <<>> /\ ltm[c] = <<>>
    /\ profile = <<>>
    /\ \A x \in Store : hub[x] = {} /\ drawn[x] = 0

InTurn(s, last) ==
  /\ Len(s) = last
  /\ \A i \in DOMAIN s : s[i].id = i /\ s[i].idx = i - 1

NoTies(s) == \A i \in DOMAIN s : ~s[i].tie

Blocks(s, written) ==
  /\ NoTies(s)
  /\ \A i \in DOMAIN s : s[i].idx = i - 1 /\ s[i].body = Block(i - 1)
  /\ Len(s) * StmsPerLtm <= written

HoldsNext(r) ==
  r.pc = "ltm" => /\ r.batch = Block(Len(ltm[r.conv]))
                  /\ (Len(ltm[r.conv]) + 1) * StmsPerLtm <= Len(stm[r.conv])

(* e is a block that has a summary.                                        *)
Summed(e) == \E c \in Conv, k \in Nat : k < Len(ltm[c]) /\ e = <<c, Block(k)>>

FoldedOnce(p) ==
  /\ \A i, j \in DOMAIN p : p[i] = p[j] => i = j
  /\ \A i \in DOMAIN p : Summed(p[i])

HoldsLast(r) ==
  r.pc = "profile" =>
    /\ r.prev = CurrentProfile
    /\ Summed(<<r.conv, r.batch>>)
    /\ \A i \in DOMAIN r.prev : r.prev[i] # <<r.conv, r.batch>>

SteadyInv ==
  /\ Unborn
  /\ \A c \in Conv : InTurn(stm[c], drawn[Stm(c)]) /\ Blocks(ltm[c], Len(stm[c]))
  /\ NoTies(profile)
  /\ \A w \in Worker : HoldsNext(worker[w])
  /\ failures \in Nat
  /\ failures = 0 => FoldedOnce(CurrentProfile) /\ \A w \in Worker : HoldsLast(worker[w])

(* Rows that are all kept are the rows.                                    *)
LEMMA NothingRemoved ==
  ASSUME NEW B, NEW s, Table(s, B)
  PROVE  Remaining(s, {}) = s
<1> DEFINE kept == {i \in DOMAIN s : i \notin {}}
           opens(i) == \E j \in 1..i : /\ ~s[j].tie
                                       /\ \A h \in j..(i - 1) : h \in {}
                                       /\ \A h \in (j + 1)..i : s[h].tie
           t == [i \in DOMAIN s |-> [s[i] EXCEPT !.tie = ~opens(i)]]
<1>1. PICK N \in Nat : N = Len(s) /\ DOMAIN s = 1..N
  BY DEF Table
<1>2. kept = 1..N
  BY <1>1
<1>3. ASSUME NEW i \in 1..N
      PROVE  opens(i) <=> ~s[i].tie
  <2>1. ASSUME NEW j \in 1..i, \A h \in j..(i - 1) : h \in {}
        PROVE  j = i
    <3>1. ~(j <= i - 1)
      <4>1. j <= i - 1 => j \in j..(i - 1)
        OBVIOUS
      <4> QED BY <2>1, <4>1
    <3> QED BY <3>1
  <2>2. opens(i) => ~s[i].tie
    BY <2>1
  <2>3. ~s[i].tie => opens(i)
    <3>1. i \in 1..i /\ (\A h \in i..(i - 1) : h \in {}) /\ (\A h \in (i + 1)..i : s[h].tie)
      OBVIOUS
    <3> QED BY <3>1
  <2> QED BY <2>2, <2>3
<1>4. ASSUME NEW i \in 1..N
      PROVE  t[i] = s[i]
  <2>1. s[i] \in TableRows(B)
    BY <1>1 DEF Table
  <2>2. PICK o \in BOOLEAN : o = ~opens(i)
    OBVIOUS
  <2>3. o = s[i].tie
    <3>1. s[i].tie \in BOOLEAN
      BY <2>1 DEF TableRows
    <3> HIDE DEF opens
    <3> QED BY <1>3, <2>2, <3>1
  <2>4. t[i] = [s[i] EXCEPT !.tie = o]
    BY <1>1, <2>2
  <2> HIDE DEF t
  <2> QED BY <2>1, <2>3, <2>4 DEF TableRows
<1>5. ASSUME NEW n \in 1..N
      PROVE  (CHOOSE i \in kept : Cardinality({j \in kept : j <= i}) = n) = n
  <2>1. ASSUME NEW i \in 1..N
        PROVE  Cardinality({j \in kept : j <= i}) = i
    <3>1. {j \in kept : j <= i} = 1..i
      BY <1>2
    <3>2. Cardinality(1..i) = i
      BY FS_Interval
    <3> QED BY <3>1, <3>2
  <2>2. \A i \in kept : Cardinality({j \in kept : j <= i}) = n <=> i = n
    BY <1>2, <2>1
  <2>3. n \in kept
    BY <1>2
  <2> HIDE DEF kept
  <2> QED BY <2>2, <2>3
<1>6. Cardinality(kept) = N
  <2>1. Cardinality(1..N) = N
    BY FS_Interval
  <2> QED BY <1>2, <2>1
<1>7. PICK r : r = Remaining(s, {})
  OBVIOUS
<1>8. r = [n \in 1..N |-> t[CHOOSE i \in kept : Cardinality({j \in kept : j <= i}) = n]]
  BY <1>6, <1>7 DEF Remaining
<1> HIDE DEF t, kept
<1>9. \A n \in 1..N : r[n] = s[n]
  BY <1>4, <1>5, <1>8
<1>10. s \in [1..N -> TableRows(B)]
  BY <1>1 DEF Table
<1>11. r = s
  BY <1>8, <1>9, <1>10
<1> QED BY <1>7, <1>11

(* The row of a message that was not there comes behind the others.        *)
LEMMA AddedFresh ==
  ASSUME NEW B, NEW s, Table(s, B), NEW id \in Nat, NEW body \in B, NEW tie \in BOOLEAN,
         \A i \in DOMAIN s : s[i].id # id
  PROVE  LET r == Added(s, id, body, tie)
         IN  /\ Len(r) = Len(s) + 1 /\ DOMAIN r = 1..(Len(s) + 1)
             /\ \A i \in DOMAIN s : r[i] = s[i]
             /\ r[Len(s) + 1].id = id /\ r[Len(s) + 1].idx = NextIndex(s)
             /\ r[Len(s) + 1].body = body /\ (~tie => ~r[Len(s) + 1].tie)
<1>1. {i \in DOMAIN s : s[i].id = id} = {}
  OBVIOUS
<1>2. PICK k \in Nat : k = NextIndex(s)
  BY NextIndexIs
<1>3. PICK tied \in BOOLEAN : tied = (tie /\ s # <<>>)
  OBVIOUS
<1>4. PICK e : e = [id |-> id, idx |-> k, tie |-> tied, body |-> body]
  OBVIOUS
<1>5. e \in TableRows(B) /\ e.id = id /\ e.idx = k /\ e.tie = tied /\ e.body = body
  BY <1>4 DEF TableRows
<1>6. PICK r : r = Added(s, id, body, tie)
  OBVIOUS
<1>7. r = Append(s, e)
  <2>1. r = LET rest == Remaining(s, {})
            IN Append(rest, [id |-> id, idx |-> NextIndex(s), tie |-> tie /\ rest # <<>>, body |-> body])
    BY <1>1, <1>6 DEF Added
  <2>2. Remaining(s, {}) = s
    BY NothingRemoved
  <2> QED BY <1>2, <1>3, <1>4, <2>1, <2>2
<1>8. PICK N \in Nat : N = Len(s) /\ DOMAIN s = 1..N
  BY DEF Table
<1>9. /\ Len(r) = N + 1 /\ DOMAIN r = 1..(N + 1) /\ r[N + 1] = e
      /\ \A i \in 1..N : r[i] = s[i]
  <2>1. s \in Seq(TableRows(B))
    BY DEF Table
  <2> QED BY <1>5, <1>7, <1>8, <2>1
<1>10. ~tie => ~e.tie
  <2>1. ~tie => ~tied
    BY <1>3, Zenon
  <2> QED BY <1>5, <2>1, Zenon
<1> QED BY <1>2, <1>5, <1>6, <1>8, <1>9, <1>10

(* The row that follows the last one drawn, and that ties with none.        *)
LEMMA AddedNext ==
  ASSUME NEW B, NEW s, Table(s, B), NEW last \in Nat, IdsUpto(s, last), NEW body \in B
  PROVE  LET r == Added(s, last + 1, body, FALSE)
         IN  /\ Len(r) = Len(s) + 1 /\ DOMAIN r = 1..(Len(s) + 1)
             /\ \A i \in DOMAIN s : r[i] = s[i]
             /\ r[Len(s) + 1].idx = NextIndex(s) /\ r[Len(s) + 1].body = body
             /\ ~r[Len(s) + 1].tie
<1>1. PICK id \in Nat : id = last + 1
  OBVIOUS
<1>2. \A i \in 1..last : i # id
  BY <1>1
<1>3. \A i \in DOMAIN s : s[i].id # id
  BY <1>2 DEF IdsUpto
<1>4. PICK tie \in BOOLEAN : tie = FALSE
  OBVIOUS
<1>5. PICK r : r = Added(s, id, body, tie)
  OBVIOUS
<1>6. /\ Len(r) = Len(s) + 1 /\ DOMAIN r = 1..(Len(s) + 1)
      /\ \A i \in DOMAIN s : r[i] = s[i]
      /\ r[Len(s) + 1].idx = NextIndex(s) /\ r[Len(s) + 1].body = body
      /\ (~tie => ~r[Len(s) + 1].tie)
  <2> HIDE DEF IdsUpto
  <2> QED BY <1>3, <1>5, AddedFresh
<1>7. r = Added(s, last + 1, body, FALSE)
  BY <1>1, <1>4, <1>5
<1>8. ~tie
  BY <1>4
<1> QED BY <1>6, <1>7, <1>8

(* A reload from an empty hub before any message is nothing.               *)
LEMMA NothingReloaded ==
  ASSUME NEW fast \in BOOLEAN
  PROVE  Reloaded(<<>>, {}, 0, fast) = <<>>
<1>1. HubOf({}, 0, {}) /\ 0 \in Nat
  BY DEF HubOf
<1>2. Table(<<>>, {})
  BY <1>1, NoRows DEF Conversation
<1>3. PICK rows : rows[0] = <<>> /\ Reloaded(<<>>, {}, 0, fast) = rows[0]
  BY <1>1, <1>2, ReloadedSteps
<1> QED BY <1>3

-----------------------------------------------------------------------------
(* Blocks.                                                                 *)

LEMMA BlocksAre ==
  /\ StmsPerLtm \in Nat /\ StmsPerLtm >= 1
  /\ \A k \in Nat : /\ k * StmsPerLtm \in Nat
                    /\ (k + 1) * StmsPerLtm = k * StmsPerLtm + StmsPerLtm
                    /\ Cardinality(Block(k)) = StmsPerLtm
  /\ \A j, k \in Nat : j < k => /\ (j + 1) * StmsPerLtm <= k * StmsPerLtm
                                /\ Block(j) # Block(k)
<1>1. PICK s \in Nat : s = StmsPerLtm /\ s >= 1
  BY LTMemoryAssumption
<1>2. \A k \in Nat : k * s \in Nat /\ (k + 1) * s = k * s + s
  OBVIOUS
<1>3. ASSUME NEW k \in Nat
      PROVE  Cardinality(Block(k)) = s
  <2>1. PICK a \in Nat : a = k * s
    BY <1>2
  <2>2. Block(k) = (a + 1)..(a + s)
    BY <1>1, <2>1 DEF Block
  <2>3. Cardinality((a + 1)..(a + s)) = s
    BY <1>1, FS_Interval
  <2> QED BY <2>2, <2>3
<1>4. ASSUME NEW j \in Nat, NEW k \in Nat, j < k
      PROVE  (j + 1) * s <= k * s
  <2>1. PICK d \in Nat : k = (j + 1) + d
    <3>1. k - (j + 1) \in Nat /\ k = (j + 1) + (k - (j + 1))
      BY <1>4
    <3> QED BY <3>1
  <2>2. k * s = (j + 1) * s + d * s
    BY <2>1
  <2>3. d * s \in Nat /\ (j + 1) * s \in Nat
    BY <1>2
  <2> QED BY <2>2, <2>3
<1>5. ASSUME NEW j \in Nat, NEW k \in Nat, j < k
      PROVE  Block(j) # Block(k)
  <2>1. PICK a \in Nat, b \in Nat : a = j * s /\ b = k * s
    BY <1>2
  <2>2. a + s <= b
    BY <1>2, <1>4, <1>5, <2>1
  <2>3. Block(j) = (a + 1)..(a + s) /\ Block(k) = (b + 1)..(b + s)
    BY <1>1, <2>1 DEF Block
  <2>4. b + 1 \in (b + 1)..(b + s) /\ b + 1 \notin (a + 1)..(a + s)
    BY <1>1, <2>2
  <2> QED BY <2>3, <2>4
<1> QED BY <1>1, <1>2, <1>3, <1>4, <1>5

(* A batch that is due is a block, and all of it is there.                 *)
LEMMA DueBlock ==
  ASSUME StoreInv, NEW c \in Conv, InTurn(stm[c], drawn[Stm(c)]),
         Blocks(ltm[c], Len(stm[c]))
  PROVE  /\ NextLtm(c) = Len(ltm[c])
         /\ Due(c) => /\ BatchRows(c) = Block(Len(ltm[c]))
                      /\ Batch(c) = Block(Len(ltm[c]))
                      /\ (Len(ltm[c]) + 1) * StmsPerLtm <= Len(stm[c])
<1>1. Table(stm[c], Bodies) /\ Table(ltm[c], Bodies)
  BY DEF StoreInv, Conversation
<1>2. PICK N \in Nat : N = Len(stm[c]) /\ DOMAIN stm[c] = 1..N
  BY <1>1 DEF Table
<1>3. PICK k \in Nat : k = Len(ltm[c]) /\ DOMAIN ltm[c] = 1..k
  BY <1>1 DEF Table
<1>4. NextLtm(c) = k
  <2>1. CASE ltm[c] = <<>>
    <3>1. LatestIndex(ltm[c]) = -1
      BY <2>1 DEF LatestIndex
    <3>2. k = 0
      BY <1>3, <2>1
    <3> QED BY <3>1, <3>2 DEF NextLtm
  <2>2. CASE ltm[c] # <<>>
    <3>1. Newest(ltm[c]) = ltm[c][k]
      BY <1>1, <1>3, <2>2, NewestIs DEF Table, Blocks, NoTies
    <3>2. k \in 1..k
      <4>1. k # 0
        BY <1>1, <1>3, <2>2 DEF Table
      <4> QED BY <4>1
    <3>3. LatestIndex(ltm[c]) = k - 1
      BY <1>3, <2>2, <3>1, <3>2 DEF LatestIndex, Blocks
    <3> QED BY <3>3 DEF NextLtm
  <2> QED BY <2>1, <2>2
<1>5. PICK s \in Nat : s = StmsPerLtm /\ s >= 1
  BY BlocksAre
<1>6. PICK a \in Nat : a = k * s /\ (k + 1) * s = a + s
  BY <1>5, BlocksAre
<1>7. Block(k) = (a + 1)..(a + s)
  BY <1>5, <1>6 DEF Block
<1>8. ASSUME Due(c)
      PROVE  a + s <= N
  <2>1. LatestIndex(stm[c]) \div s > k
    BY <1>4, <1>5, <1>8 DEF Due
  <2>2. PICK top \in Int : top = LatestIndex(stm[c]) /\ top < N
    <3>1. CASE stm[c] = <<>>
      <4>1. LatestIndex(stm[c]) = -1 /\ -1 < N
        BY <3>1 DEF LatestIndex
      <4> QED BY <4>1
    <3>2. CASE stm[c] # <<>>
      <4>1. PICK i \in 1..N : Newest(stm[c]) = stm[c][i]
        BY <1>1, <1>2, <3>2, NewestIs DEF Table
      <4>2. LatestIndex(stm[c]) = i - 1
        BY <1>2, <3>2, <4>1 DEF LatestIndex, InTurn
      <4> QED BY <4>2
    <3> QED BY <3>1, <3>2
  <2>3. PICK q \in Int : q = top \div s
    BY <1>5
  <2>4. q * s <= top
    BY <1>5, <2>3
  <2>5. q >= k + 1
    BY <2>1, <2>2, <2>3
  <2>6. (k + 1) * s <= q * s
    BY <1>5, <2>5
  <2> QED BY <1>6, <2>2, <2>4, <2>6
<1>9. ASSUME Due(c)
      PROVE  BatchRows(c) = Block(k) /\ Batch(c) = Block(k)
  <2>1. ASSUME NEW i \in 1..N
        PROVE  InBatch(stm[c][i].idx, NextLtm(c)) <=> i \in Block(k)
    <3>1. stm[c][i].idx = i - 1
      BY <1>2 DEF InTurn
    <3>2. InBatch(i - 1, k) <=> a <= i - 1 /\ i - 1 <= a + s - 1
      BY <1>5, <1>6 DEF InBatch
    <3> QED BY <1>4, <1>7, <3>1, <3>2
  <2>2. Block(k) \subseteq 1..N
    BY <1>7, <1>8, <1>9
  <2>3. BatchRows(c) = Block(k)
    BY <1>2, <2>1, <2>2 DEF BatchRows
  <2>4. \A i \in Block(k) : stm[c][i].id = i
    BY <1>2, <2>2 DEF InTurn
  <2> QED BY <2>3, <2>4 DEF Batch
<1> QED BY <1>2, <1>3, <1>4, <1>5, <1>6, <1>8, <1>9

-----------------------------------------------------------------------------
(* Every step of the only instance.                                        *)

LEMMA SteadyInit == Init => SteadyInv
<1> SUFFICES ASSUME Init PROVE SteadyInv
  OBVIOUS
<1>1. PICK e : e = <<>> /\ Len(e) = 0 /\ DOMAIN e = {}
  <2>1. <<>> = <<>> /\ Len(<<>>) = 0 /\ DOMAIN <<>> = {}
    BY EmptySeq
  <2> QED BY <2>1
<1>2. profile = e /\ CurrentProfile = e /\ \A c \in Conv : stm[c] = e /\ ltm[c] = e
  BY <1>1 DEF Init, CurrentProfile
<1>3. \A x \in Store : hub[x] = {} /\ drawn[x] = 0
  BY DEF Init
<1>4. Unborn
  BY <1>1, <1>2, <1>3 DEF Unborn
<1>5. \A c \in Conv : InTurn(stm[c], drawn[Stm(c)]) /\ Blocks(ltm[c], Len(stm[c]))
  <2>1. 0 * StmsPerLtm <= 0
    BY BlocksAre
  <2> QED BY <1>1, <1>2, <1>3, <2>1, StoreIds DEF InTurn, Blocks, NoTies
<1>6. NoTies(profile) /\ FoldedOnce(CurrentProfile)
  BY <1>1, <1>2 DEF NoTies, FoldedOnce
<1>7. \A w \in Worker : worker[w].pc = "off"
  BY DEF Init, Off
<1>8. \A w \in Worker : HoldsNext(worker[w]) /\ HoldsLast(worker[w])
  BY <1>7 DEF HoldsNext, HoldsLast
<1>9. failures \in Nat
  BY DEF Init
<1> QED BY <1>4, <1>5, <1>6, <1>8, <1>9 DEF SteadyInv

(* Steps that leave the store alone and the worker between two batches.    *)
LEMMA BetweenBatches ==
  ASSUME SteadyInv, NEW w \in Worker, \A v \in Worker : v = w, worker'[w].pc \in {"scan", "wait"},
         failures' = failures, profile' = profile, drawn' = drawn,
         \A c \in Conv : stm'[c] = stm[c] /\ ltm'[c] = ltm[c]
  PROVE  SteadyInv'
<1>1. worker'[w] # Off
  BY DEF Off
<1>2. Unborn'
  BY <1>1 DEF Unborn
<1>3. \A v \in Worker : HoldsNext(worker[v])' /\ HoldsLast(worker[v])'
  BY DEF HoldsNext, HoldsLast
<1>4. \A e : Summed(e) => Summed(e)'
  BY DEF Summed
<1>5. CurrentProfile' = CurrentProfile
  BY DEF CurrentProfile
<1>6. FoldedOnce(CurrentProfile) => FoldedOnce(CurrentProfile)'
  BY <1>4, <1>5 DEF FoldedOnce
<1>7. \A c \in Conv : /\ InTurn(stm'[c], drawn'[Stm(c)])
                      /\ Blocks(ltm'[c], Len(stm'[c]))
  BY DEF SteadyInv
<1> QED BY <1>2, <1>3, <1>6, <1>7 DEF SteadyInv

LEMMA SteadyCreate ==
  ASSUME StoreInv, SteadyInv, NEW w \in Worker, \A v \in Worker : v = w, WorkerOK(worker[w]),
         DOMAIN worker = Worker, Create(w)
  PROVE  SteadyInv'
<1>1. worker[w] = Off
  BY WorkerPlaces DEF Create, WorkerOK, Scanning, Asking, Folding, Dead
<1>2. /\ \A c \in Conv : stm[c] = <<>> /\ ltm[c] = <<>>
      /\ profile = <<>>
      /\ \A x \in Store : hub[x] = {} /\ drawn[x] = 0
  BY <1>1 DEF SteadyInv, Unborn
<1>3. PICK fast \in BOOLEAN :
        /\ stm' = IF Preload THEN [c \in Conv |-> AllReloaded(stm[c], Stm(c), fast)] ELSE stm
        /\ ltm' = IF Preload THEN [c \in Conv |-> AllReloaded(ltm[c], Ltm(c), fast)] ELSE ltm
        /\ profile' = AllReloaded(profile, Profile, fast)
  BY DEF Create
<1>4. \A x \in Store : AllReloaded(<<>>, x, fast) = <<>>
  BY <1>2, NothingReloaded DEF AllReloaded
<1>5. profile' = profile
  BY <1>2, <1>3, <1>4, StoreIds
<1>6. ASSUME NEW c \in Conv
      PROVE  stm'[c] = stm[c] /\ ltm'[c] = ltm[c]
  <2>1. CASE Preload
    <3>1. stm'[c] = AllReloaded(stm[c], Stm(c), fast) /\ ltm'[c] = AllReloaded(ltm[c], Ltm(c), fast)
      BY <1>3, <2>1
    <3> QED BY <1>2, <1>4, <3>1, StoreIds
  <2>2. CASE ~Preload
    BY <1>3, <2>2
  <2> QED BY <2>1, <2>2
<1>7. worker'[w].pc = "scan" /\ failures' = failures /\ drawn' = drawn
  BY DEF Create
<1> QED BY <1>5, <1>6, <1>7, BetweenBatches

(* What joining a conversation leaves of a worker.                         *)
LEMMA JoinedKeeps ==
  ASSUME NEW r, WorkerOK(r), NEW c \in Conv
  PROVE  LET q == Joined(r, c)
         IN  /\ q.pc = r.pc
             /\ r.pc \in {"ltm", "profile"} => q.conv = r.conv /\ q.batch = r.batch
             /\ r.pc = "profile" => q.prev = r.prev
<1> DEFINE q == Joined(r, c)
<1>1. CASE r = Off
  BY <1>1 DEF Off, Joined
<1>2. CASE r \in Scanning
  BY <1>2 DEF Scanning, Joined
<1>3. CASE r \in Asking
  BY <1>3 DEF Asking, Joined
<1>4. CASE r \in Folding
  BY <1>4 DEF Folding, Joined
<1>5. CASE r \in Dead
  BY <1>5 DEF Dead, Joined
<1> QED BY <1>1, <1>2, <1>3, <1>4, <1>5 DEF WorkerOK

LEMMA SteadyChat ==
  ASSUME StoreInv, SteadyInv, NEW w \in Worker, \A v \in Worker : v = w, WorkerOK(worker[w]),
         DOMAIN worker = Worker, NEW c \in Conv, Chat(w, c)
  PROVE  SteadyInv'
<1>1. PICK tie \in BOOLEAN : stm' = [stm EXCEPT ![c] = Added(@, drawn[Stm(c)] + 1, {}, tie)]
  BY DEF Chat
<1>2. /\ Draw(Stm(c), stm[c], {}) /\ ltm' = ltm /\ profile' = profile /\ failures' = failures
      /\ worker' = [worker EXCEPT ![w] = Joined(@, c)] /\ worker[w].pc # "off"
  BY DEF Chat
<1>3. Stm(c) \in Store /\ DOMAIN hub = Store /\ drawn \in [Store -> Nat]
  BY StoreIds DEF StoreInv
<1>4. /\ drawn'[Stm(c)] = drawn[Stm(c)] + 1
      /\ \A y \in Store : y # Stm(c) => drawn'[y] = drawn[y]
  BY <1>2, <1>3, DrawIs
<1>5. PICK N \in Nat : /\ N = drawn[Stm(c)] /\ N = Len(stm[c]) /\ DOMAIN stm[c] = 1..N
                       /\ Table(stm[c], Bodies)
  BY <1>3 DEF SteadyInv, InTurn, StoreInv, Conversation, Table
<1>6. PICK r : r = Added(stm[c], N + 1, {}, tie)
  OBVIOUS
<1>7. stm'[c] = r /\ \A d \in Conv : d # c => stm'[d] = stm[d]
  BY <1>1, <1>5, <1>6 DEF StoreInv
<1>8. \A i \in 1..N : stm[c][i].id = i /\ stm[c][i].idx = i - 1
  BY <1>5 DEF SteadyInv, InTurn
<1>9. /\ Len(r) = N + 1 /\ DOMAIN r = 1..(N + 1) /\ \A i \in 1..N : r[i] = stm[c][i]
      /\ r[N + 1].id = N + 1 /\ r[N + 1].idx = NextIndex(stm[c])
  <2>1. {} \in Bodies /\ N + 1 \in Nat
    BY DEF Bodies
  <2>2. \A i \in 1..N : i # N + 1
    OBVIOUS
  <2>3. \A i \in DOMAIN stm[c] : stm[c][i].id # N + 1
    BY <1>5, <1>8, <2>2
  <2> QED BY <1>5, <1>6, <2>1, <2>3, AddedFresh
<1>10. NextIndex(stm[c]) = N
  BY <1>5, <1>8, NextIndexIs
<1>11. InTurn(stm'[c], drawn'[Stm(c)]) /\ Len(stm'[c]) = N + 1
  <2>1. \A i \in 1..(N + 1) : i \in 1..N \/ i = N + 1
    OBVIOUS
  <2>2. \A i \in 1..(N + 1) : r[i].id = i /\ r[i].idx = i - 1
    BY <1>8, <1>9, <1>10, <2>1
  <2> QED BY <1>4, <1>5, <1>7, <1>9, <2>2 DEF InTurn
<1>12. ASSUME NEW d \in Conv
       PROVE  /\ InTurn(stm'[d], drawn'[Stm(d)]) /\ Blocks(ltm'[d], Len(stm'[d]))
              /\ \A m \in Nat : m <= Len(stm[d]) => m <= Len(stm'[d])
  <2>1. CASE d = c
    <3>1. Blocks(ltm[c], N) /\ Len(ltm[c]) * StmsPerLtm \in Nat
      <4>1. Len(ltm[c]) \in Nat
        BY DEF StoreInv, Conversation, Table
      <4> QED BY <1>5, <4>1, BlocksAre DEF SteadyInv
    <3>2. \A m \in Nat : m <= N => m <= N + 1
      OBVIOUS
    <3>3. Blocks(ltm[c], N + 1)
      BY <3>1, <3>2 DEF Blocks
    <3> QED BY <1>2, <1>5, <1>11, <2>1, <3>2, <3>3
  <2>2. CASE d # c
    <3>1. Stm(d) \in Store /\ Stm(d) # Stm(c)
      BY <2>2, StoreIds
    <3> QED BY <1>2, <1>4, <1>7, <2>2, <3>1 DEF SteadyInv
  <2> QED BY <2>1, <2>2
<1>13. PICK q : q = worker'[w] /\ q = Joined(worker[w], c)
  BY <1>2
<1>14. /\ q.pc = worker[w].pc
       /\ q.pc \in {"ltm", "profile"} => q.conv = worker[w].conv /\ q.batch = worker[w].batch
       /\ q.pc = "profile" => q.prev = worker[w].prev
  BY <1>13, JoinedKeeps
<1>15. Unborn'
  BY <1>2, <1>13, <1>14 DEF Unborn, Off
<1>16. HoldsNext(q)'
  <2>1. SUFFICES ASSUME q.pc = "ltm"
                 PROVE  /\ q.batch = Block(Len(ltm'[q.conv]))
                        /\ (Len(ltm'[q.conv]) + 1) * StmsPerLtm <= Len(stm'[q.conv])
    BY DEF HoldsNext
  <2>2. worker[w].pc = "ltm" /\ q.conv = worker[w].conv /\ q.batch = worker[w].batch
    BY <1>14, <2>1
  <2>3. PICK d \in Conv : d = q.conv
    BY <2>2, WorkerPlaces DEF Asking
  <2>4. q.batch = Block(Len(ltm[d])) /\ (Len(ltm[d]) + 1) * StmsPerLtm <= Len(stm[d])
    BY <2>2, <2>3 DEF SteadyInv, HoldsNext
  <2>5. (Len(ltm[d]) + 1) * StmsPerLtm \in Nat
    <3>1. Len(ltm[d]) + 1 \in Nat
      BY DEF StoreInv, Conversation, Table
    <3> QED BY <3>1, BlocksAre
  <2> QED BY <1>2, <1>12, <2>3, <2>4, <2>5
<1>17. CurrentProfile' = CurrentProfile /\ \A e : Summed(e) => Summed(e)'
  BY <1>2 DEF CurrentProfile, Summed
<1>18. ASSUME failures = 0
       PROVE  FoldedOnce(CurrentProfile)' /\ HoldsLast(q)'
  <2>1. FoldedOnce(CurrentProfile) /\ HoldsLast(worker[w])
    BY <1>18 DEF SteadyInv
  <2>2. FoldedOnce(CurrentProfile)'
    BY <1>17, <2>1 DEF FoldedOnce
  <2>3. HoldsLast(q)'
    BY <1>14, <1>17, <2>1 DEF HoldsLast
  <2> QED BY <2>2, <2>3
<1>19. \A v \in Worker : worker'[v] = q
  BY <1>13
<1> QED BY <1>2, <1>12, <1>15, <1>16, <1>18, <1>19 DEF SteadyInv

LEMMA SteadyRound ==
  ASSUME SteadyInv, NEW w \in Worker, \A v \in Worker : v = w, WorkerOK(worker[w]),
         DOMAIN worker = Worker, (\E c \in Conv : Skip(w, c)) \/ Rest(w) \/ Wake(w)
  PROVE  SteadyInv'
<1>1. worker[w] \in Scanning
  BY WorkerPlaces DEF Skip, Rest, Wake
<1>2. worker'[w].pc \in {"scan", "wait"}
  <2>1. ASSUME NEW c \in Conv, Skip(w, c)
        PROVE  worker'[w].pc \in {"scan", "wait"}
    BY <1>1, <2>1 DEF Skip, Scanning
  <2>2. CASE Rest(w) \/ Wake(w)
    BY <1>1, <2>2 DEF Rest, Wake, Scanning
  <2> QED BY <2>1, <2>2
<1>3. /\ stm' = stm /\ ltm' = ltm /\ profile' = profile /\ drawn' = drawn /\ failures' = failures
  BY DEF Skip, Rest, Wake
<1> QED BY <1>2, <1>3, BetweenBatches

LEMMA SteadyTake ==
  ASSUME StoreInv, SteadyInv, NEW w \in Worker, \A v \in Worker : v = w,
         DOMAIN worker = Worker, NEW c \in Conv, Take(w, c)
  PROVE  SteadyInv'
<1>1. /\ stm' = stm /\ ltm' = ltm /\ profile' = profile /\ drawn' = drawn /\ failures' = failures
      /\ Due(c)
  BY DEF Take
<1>2. PICK q : /\ q = worker'[w] /\ q.pc = "ltm" /\ q.conv = c /\ q.batch = Batch(c)
  BY DEF Take
<1>3. InTurn(stm[c], drawn[Stm(c)]) /\ Blocks(ltm[c], Len(stm[c]))
  BY DEF SteadyInv
<1>4. HoldsNext(q)
  BY <1>1, <1>2, <1>3, DueBlock DEF HoldsNext
<1>5. Unborn'
  BY <1>2 DEF Unborn, Off
<1>6. HoldsNext(q)' /\ HoldsLast(q)'
  BY <1>1, <1>2, <1>4 DEF HoldsNext, HoldsLast
<1>7. FoldedOnce(CurrentProfile) => FoldedOnce(CurrentProfile)'
  BY <1>1 DEF FoldedOnce, Summed, CurrentProfile
<1>8. \A v \in Worker : worker'[v] = q
  BY <1>2
<1> QED BY <1>1, <1>5, <1>6, <1>7, <1>8 DEF SteadyInv

LEMMA SteadyAnswered ==
  ASSUME StoreInv, SteadyInv, NEW w \in Worker, \A v \in Worker : v = w, WorkerOK(worker[w]),
         DOMAIN worker = Worker, LtmAnswered(w)
  PROVE  SteadyInv'
<1>1. worker[w] \in Asking /\ worker[w].pc = "ltm"
  BY WorkerPlaces DEF LtmAnswered
<1>2. PICK c \in Conv, batch \in Bodies : c = worker[w].conv /\ batch = worker[w].batch
  BY <1>1 DEF Asking
<1>3. /\ ltm' = [ltm EXCEPT ![c] = Added(@, drawn[Ltm(c)] + 1, batch, FALSE)]
      /\ Draw(Ltm(c), ltm[c], batch)
      /\ stm' = stm /\ profile' = profile /\ failures' = failures
  BY <1>2 DEF LtmAnswered
<1>4. PICK q : /\ q = worker'[w] /\ q.pc = "profile" /\ q.conv = c /\ q.batch = batch
               /\ q.prev = CurrentProfile
  BY <1>2 DEF LtmAnswered, AskProfile
<1>5. Ltm(c) \in Store /\ DOMAIN hub = Store /\ drawn \in [Store -> Nat]
  BY StoreIds DEF StoreInv
<1>6. \A y \in Store : y # Ltm(c) => drawn'[y] = drawn[y]
  BY <1>3, <1>5, DrawIs
<1>7. PICK last \in Nat : last = drawn[Ltm(c)]
  BY <1>5
<1>8. PICK k \in Nat : /\ k = Len(ltm[c]) /\ DOMAIN ltm[c] = 1..k /\ Table(ltm[c], Bodies)
                       /\ IdsUpto(ltm[c], last)
  BY <1>7 DEF StoreInv, Conversation, Table
<1>9. PICK r : r = Added(ltm[c], last + 1, batch, FALSE)
  OBVIOUS
<1>10. ltm'[c] = r /\ \A d \in Conv : d # c => ltm'[d] = ltm[d]
  BY <1>3, <1>7, <1>9 DEF StoreInv
<1>11. /\ \A i \in 1..k : ltm[c][i].idx = i - 1 /\ ltm[c][i].body = Block(i - 1) /\ ~ltm[c][i].tie
       /\ NoTies(ltm[c])
  BY <1>8 DEF SteadyInv, Blocks, NoTies
<1>12. /\ Len(r) = k + 1 /\ DOMAIN r = 1..(k + 1) /\ \A i \in 1..k : r[i] = ltm[c][i]
       /\ r[k + 1].idx = NextIndex(ltm[c]) /\ r[k + 1].body = batch /\ ~r[k + 1].tie
  <2>1. Table(ltm[c], Bodies) /\ IdsUpto(ltm[c], last)
    BY <1>8
  <2>2. PICK s : s = ltm[c]
    OBVIOUS
  <2>3. /\ Len(r) = Len(s) + 1 /\ DOMAIN r = 1..(Len(s) + 1)
        /\ \A i \in DOMAIN s : r[i] = s[i]
        /\ r[Len(s) + 1].idx = NextIndex(s) /\ r[Len(s) + 1].body = batch
        /\ ~r[Len(s) + 1].tie
    <3>1. Table(s, Bodies) /\ IdsUpto(s, last) /\ r = Added(s, last + 1, batch, FALSE)
      BY <1>9, <2>1, <2>2
    <3>2. batch \in Bodies
      BY batch \in Bodies
    <3>3. LET u == Added(s, last + 1, batch, FALSE)
          IN  /\ Len(u) = Len(s) + 1 /\ DOMAIN u = 1..(Len(s) + 1)
              /\ \A i \in DOMAIN s : u[i] = s[i]
              /\ u[Len(s) + 1].idx = NextIndex(s) /\ u[Len(s) + 1].body = batch
              /\ ~u[Len(s) + 1].tie
      BY <3>1, <3>2, AddedNext, Zenon
    <3> QED BY <3>1, <3>3, Zenon
  <2> QED BY <1>8, <2>2, <2>3
<1>13. NextIndex(ltm[c]) = k
  BY <1>8, <1>11, NextIndexIs
<1>14. batch = Block(k) /\ (k + 1) * StmsPerLtm <= Len(stm[c])
  BY <1>1, <1>2, <1>8 DEF SteadyInv, HoldsNext
<1>15. Blocks(r, Len(stm[c]))
  <2>1. \A i \in 1..(k + 1) : i \in 1..k \/ i = k + 1
    OBVIOUS
  <2>2. (k + 1) - 1 = k
    OBVIOUS
  <2>3. \A i \in 1..(k + 1) : r[i].idx = i - 1 /\ r[i].body = Block(i - 1) /\ ~r[i].tie
    BY <1>11, <1>12, <1>13, <1>14, <2>1, <2>2
  <2> QED BY <1>12, <1>14, <2>3 DEF Blocks, NoTies
<1>16. ASSUME NEW d \in Conv
       PROVE  InTurn(stm'[d], drawn'[Stm(d)]) /\ Blocks(ltm'[d], Len(stm'[d]))
  <2>1. InTurn(stm'[d], drawn'[Stm(d)])
    <3>1. Stm(d) \in Store /\ Stm(d) # Ltm(c)
      BY StoreIds
    <3> QED BY <1>3, <1>6, <3>1 DEF SteadyInv
  <2>2. Blocks(ltm'[d], Len(stm'[d]))
    BY <1>3, <1>10, <1>15 DEF SteadyInv
  <2> QED BY <2>1, <2>2
<1>17. Unborn'
  BY <1>4 DEF Unborn, Off
<1>18. CurrentProfile' = CurrentProfile
  BY <1>3 DEF CurrentProfile
<1>19. \A e : Summed(e) => Summed(e)'
  <2>1. ASSUME NEW d \in Conv, NEW j \in Nat, j < Len(ltm[d])
        PROVE  j < Len(ltm'[d])
    <3>1. CASE d = c
      BY <1>8, <1>10, <1>12, <2>1, <3>1
    <3>2. CASE d # c
      BY <1>10, <2>1, <3>2
    <3> QED BY <3>1, <3>2
  <2> QED BY <2>1 DEF Summed
<1>20. ASSUME failures = 0
       PROVE  FoldedOnce(CurrentProfile)' /\ HoldsLast(q)'
  <2>1. FoldedOnce(CurrentProfile)
    BY <1>20 DEF SteadyInv
  <2>2. FoldedOnce(CurrentProfile)'
    BY <1>18, <1>19, <2>1 DEF FoldedOnce
  <2>3. Summed(<<c, batch>>)'
    <3>1. k < Len(ltm'[c])
      BY <1>10, <1>12
    <3> QED BY <1>14, <3>1 DEF Summed
  <2>4. ASSUME NEW i \in DOMAIN CurrentProfile, CurrentProfile[i] = <<c, batch>>
        PROVE  FALSE
    <3>1. PICK d \in Conv, j \in Nat : j < Len(ltm[d]) /\ CurrentProfile[i] = <<d, Block(j)>>
      BY <2>1 DEF FoldedOnce, Summed
    <3>2. d = c /\ Block(j) = Block(k)
      BY <1>14, <2>4, <3>1
    <3>3. j < k
      BY <1>8, <3>1, <3>2
    <3> QED BY <3>2, <3>3, BlocksAre
  <2>5. HoldsLast(q)'
    BY <1>4, <1>18, <2>3, <2>4 DEF HoldsLast
  <2> QED BY <2>2, <2>5
<1>21. HoldsNext(q)'
  BY <1>4 DEF HoldsNext
<1>22. \A v \in Worker : worker'[v] = q
  BY <1>4
<1> QED BY <1>3, <1>16, <1>17, <1>20, <1>21, <1>22 DEF SteadyInv

LEMMA SteadyRefused ==
  ASSUME SteadyInv, NEW w \in Worker, \A v \in Worker : v = w,
         DOMAIN worker = Worker, LtmRefused(w)
  PROVE  SteadyInv'
<1>1. /\ stm' = stm /\ ltm' = ltm /\ profile' = profile /\ drawn' = drawn
      /\ failures' = failures + 1 /\ failures \in Nat
  BY DEF LtmRefused, SteadyInv
<1>2. \A v \in Worker : worker'[v].pc = "profile"
  BY DEF LtmRefused, AskProfile
<1>3. Unborn'
  BY <1>2 DEF Unborn, Off
<1>4. \A v \in Worker : HoldsNext(worker[v])'
  BY <1>2 DEF HoldsNext
<1>5. failures' \in Nat /\ failures' # 0
  BY <1>1
<1> QED BY <1>1, <1>3, <1>4, <1>5 DEF SteadyInv

LEMMA SteadyFolded ==
  ASSUME StoreInv, SteadyInv, NEW w \in Worker, \A v \in Worker : v = w, WorkerOK(worker[w]),
         DOMAIN worker = Worker, ProfileAnswered(w)
  PROVE  SteadyInv'
<1>1. worker[w] \in Folding /\ worker[w].pc = "profile"
  BY WorkerPlaces DEF ProfileAnswered
<1>2. PICK prev \in ProfileBodies, e \in FoldedBatch :
        prev = worker[w].prev /\ e = <<worker[w].conv, worker[w].batch>>
  BY <1>1 DEF Folding, FoldedBatch, Bodies
<1>3. PICK body : body = Append(prev, e)
  OBVIOUS
<1>4. PICK n \in Nat : /\ n = Len(prev) /\ DOMAIN prev = 1..n /\ body \in ProfileBodies
                       /\ DOMAIN body = 1..(n + 1) /\ body[n + 1] = e
                       /\ \A i \in 1..n : body[i] = prev[i]
  BY <1>3 DEF ProfileBodies
<1>5. /\ profile' = Added(profile, drawn[Profile] + 1, body, FALSE)
      /\ Draw(Profile, profile, body)
      /\ stm' = stm /\ ltm' = ltm /\ failures' = failures
  BY <1>2, <1>3 DEF ProfileAnswered
<1>6. PICK q : q = worker'[w] /\ q.pc = "scan"
  BY DEF ProfileAnswered, BackToScan
<1>7. Profile \in Store /\ DOMAIN hub = Store /\ drawn \in [Store -> Nat]
  BY StoreIds DEF StoreInv
<1>8. \A y \in Store : y # Profile => drawn'[y] = drawn[y]
  BY <1>5, <1>7, DrawIs
<1>9. PICK last \in Nat : last = drawn[Profile]
  BY <1>7
<1>10. PICK k \in Nat : /\ k = Len(profile) /\ DOMAIN profile = 1..k
                        /\ Table(profile, ProfileBodies) /\ IdsUpto(profile, last)
  BY <1>9 DEF StoreInv, Conversation, Table
<1>11. PICK r : r = profile'
  OBVIOUS
<1>12. /\ Len(r) = k + 1 /\ DOMAIN r = 1..(k + 1) /\ \A i \in 1..k : r[i] = profile[i]
       /\ r[k + 1].body = body /\ ~r[k + 1].tie
  <2>1. r = Added(profile, last + 1, body, FALSE) /\ body \in ProfileBodies
    BY <1>4, <1>5, <1>9, <1>11
  <2>2. PICK s : s = profile
    OBVIOUS
  <2>3. /\ Len(r) = Len(s) + 1 /\ DOMAIN r = 1..(Len(s) + 1)
        /\ \A i \in DOMAIN s : r[i] = s[i]
        /\ r[Len(s) + 1].idx = NextIndex(s) /\ r[Len(s) + 1].body = body
        /\ ~r[Len(s) + 1].tie
    <3>1. Table(s, ProfileBodies) /\ IdsUpto(s, last) /\ r = Added(s, last + 1, body, FALSE)
      BY <1>10, <2>1, <2>2
    <3>2. body \in ProfileBodies
      BY <2>1
    <3>3. LET u == Added(s, last + 1, body, FALSE)
          IN  /\ Len(u) = Len(s) + 1 /\ DOMAIN u = 1..(Len(s) + 1)
              /\ \A i \in DOMAIN s : u[i] = s[i]
              /\ u[Len(s) + 1].idx = NextIndex(s) /\ u[Len(s) + 1].body = body
              /\ ~u[Len(s) + 1].tie
      BY <3>1, <3>2, AddedNext, Zenon
    <3> QED BY <3>1, <3>3, Zenon
  <2> QED BY <1>10, <2>2, <2>3
<1>13. NoTies(r)
  <2>1. \A i \in 1..(k + 1) : i \in 1..k \/ i = k + 1
    OBVIOUS
  <2>2. \A i \in 1..k : ~profile[i].tie
    BY <1>10 DEF SteadyInv, NoTies
  <2> QED BY <1>12, <2>1, <2>2 DEF NoTies
<1>14. CurrentProfile' = body
  <2>1. Table(r, ProfileBodies)
    <3>1. last + 1 \in Nat
      OBVIOUS
    <3> QED BY <1>4, <1>5, <1>9, <1>10, <1>11, <3>1, AddedIs
  <2>2. r # <<>>
    <3>1. k + 1 # 0 /\ Len(<<>>) = 0
      OBVIOUS
    <3> QED BY <1>12, <3>1
  <2>3. Newest(r) = r[k + 1]
    BY <1>12, <1>13, <2>1, <2>2, NewestIs DEF Table, NoTies
  <2> QED BY <1>11, <1>12, <2>2, <2>3 DEF CurrentProfile
<1>15. \A d \in Conv : InTurn(stm'[d], drawn'[Stm(d)]) /\ Blocks(ltm'[d], Len(stm'[d]))
  <2>1. \A d \in Conv : Stm(d) \in Store /\ Stm(d) # Profile
    BY StoreIds
  <2> QED BY <1>5, <1>8, <2>1 DEF SteadyInv
<1>16. Unborn'
  BY <1>6 DEF Unborn, Off
<1>17. HoldsNext(q)' /\ HoldsLast(q)'
  BY <1>6 DEF HoldsNext, HoldsLast
<1>18. \A x : Summed(x) => Summed(x)'
  BY <1>5 DEF Summed
<1>19. ASSUME failures = 0
       PROVE  FoldedOnce(CurrentProfile)'
  <2>1. /\ FoldedOnce(CurrentProfile) /\ prev = CurrentProfile
        /\ Summed(e) /\ \A i \in 1..n : prev[i] # e
    BY <1>1, <1>2, <1>4, <1>19 DEF SteadyInv, HoldsLast
  <2>2. \A i \in 1..(n + 1) : i \in 1..n \/ i = n + 1
    OBVIOUS
  <2>3. \A i, j \in 1..(n + 1) : body[i] = body[j] => i = j
    BY <1>4, <2>1, <2>2 DEF FoldedOnce
  <2>4. \A i \in 1..(n + 1) : Summed(body[i])'
    BY <1>4, <1>18, <2>1, <2>2 DEF FoldedOnce
  <2> QED BY <1>4, <1>14, <2>3, <2>4 DEF FoldedOnce
<1>20. \A v \in Worker : worker'[v] = q
  BY <1>6
<1> QED BY <1>5, <1>11, <1>13, <1>15, <1>16, <1>17, <1>19, <1>20 DEF SteadyInv

LEMMA SteadyStep ==
  ASSUME \A v, w \in Worker : v = w
  PROVE  (MemoryInv /\ SteadyInv) /\ [RetryNext]_vars => SteadyInv'
<1> SUFFICES ASSUME MemoryInv, SteadyInv, [RetryNext]_vars PROVE SteadyInv'
  OBVIOUS
<1>1. /\ StoreInv /\ DOMAIN worker = Worker /\ \A w \in Worker : WorkerOK(worker[w])
  BY DEF MemoryInv, WorkersOK
<1>2. CASE UNCHANGED vars
  <2>1. Unborn' /\ \A w \in Worker : HoldsNext(worker[w])'
    BY <1>2 DEF vars, SteadyInv, Unborn, HoldsNext
  <2>2. failures = 0 => FoldedOnce(CurrentProfile)' /\ \A w \in Worker : HoldsLast(worker[w])'
    BY <1>2 DEF vars, SteadyInv, FoldedOnce, Summed, HoldsLast, CurrentProfile
  <2> QED BY <1>2, <2>1, <2>2 DEF vars, SteadyInv
<1>3. ASSUME NEW w \in Worker, Create(w)
      PROVE  SteadyInv'
  BY <1>1, <1>3, SteadyCreate
<1>4. ASSUME NEW w \in Worker, NEW c \in Conv, Chat(w, c)
      PROVE  SteadyInv'
  BY <1>1, <1>4, SteadyChat
<1>5. ASSUME NEW w \in Worker, Round(w)
      PROVE  SteadyInv'
  <2>1. CASE (\E c \in Conv : Skip(w, c)) \/ Rest(w) \/ Wake(w)
    BY <1>1, <2>1, SteadyRound
  <2>2. ASSUME NEW c \in Conv, Take(w, c)
        PROVE  SteadyInv'
    BY <1>1, <2>2, SteadyTake
  <2>3. CASE LtmAnswered(w)
    BY <1>1, <2>3, SteadyAnswered
  <2>4. CASE ProfileAnswered(w)
    BY <1>1, <2>4, SteadyFolded
  <2> QED BY <1>5, <2>1, <2>2, <2>3, <2>4 DEF Round
<1>6. ASSUME NEW w \in Worker, LtmRefused(w)
      PROVE  SteadyInv'
  BY <1>1, <1>6, SteadyRefused
<1> QED BY <1>2, <1>3, <1>4, <1>5, <1>6 DEF RetryNext, SteadyNext

LEMMA SteadyInvariant ==
  ASSUME \A v, w \in Worker : v = w
  PROVE  RetrySpec => [](MemoryInv /\ SteadyInv)
<1>1. Init => MemoryInv /\ SteadyInv
  BY MemoryInit, SteadyInit
<1>2. [RetryNext]_vars => [Next]_vars
  BY DEF Next, FlakyNext
<1>3. (MemoryInv /\ SteadyInv) /\ [RetryNext]_vars => (MemoryInv /\ SteadyInv)'
  BY <1>2, MemoryStep, SteadyStep
<1> QED BY <1>1, <1>3, PTL DEF RetrySpec

(* The properties.                                                         *)

LEMMA SteadyCovers == MemoryInv /\ SteadyInv => SummaryCoversItsBatch
<1> SUFFICES ASSUME MemoryInv, SteadyInv, NEW c \in Conv, NEW i \in DOMAIN ltm[c]
             PROVE  /\ ltm[c][i].idx = i - 1
                    /\ ltm[c][i].body =
                         {stm[c][j].id : j \in {h \in DOMAIN stm[c] : InBatch(stm[c][h].idx, i - 1)}}
                    /\ Cardinality(ltm[c][i].body) = StmsPerLtm
  BY DEF SummaryCoversItsBatch
<1>1. PICK N \in Nat : N = Len(stm[c]) /\ DOMAIN stm[c] = 1..N
  BY DEF MemoryInv, StoreInv, Conversation, Table
<1>2. PICK m \in Nat : m = Len(ltm[c]) /\ DOMAIN ltm[c] = 1..m
  BY DEF MemoryInv, StoreInv, Conversation, Table
<1>3. /\ \A j \in 1..N : stm[c][j].id = j /\ stm[c][j].idx = j - 1
      /\ ltm[c][i].idx = i - 1 /\ ltm[c][i].body = Block(i - 1)
      /\ m * StmsPerLtm <= N
  BY <1>1, <1>2 DEF SteadyInv, InTurn, Blocks
<1>4. PICK k \in Nat : k = i - 1 /\ k < m
  BY <1>2
<1>5. PICK s \in Nat : s = StmsPerLtm /\ s >= 1
  BY BlocksAre
<1>6. PICK a \in Nat : a = k * s /\ (k + 1) * s = a + s
  BY <1>5, BlocksAre
<1>7. a + s <= N
  <2>1. CASE k + 1 = m
    BY <1>3, <1>5, <1>6, <2>1
  <2>2. CASE k + 1 # m
    <3>1. k + 1 \in Nat /\ k + 1 < m
      BY <1>4, <2>2
    <3>2. PICK b \in Nat : b = (k + 1) * StmsPerLtm /\ b = a + s
      BY <1>5, <1>6
    <3>3. PICK d \in Nat : d = m * StmsPerLtm
      BY BlocksAre
    <3>4. ((k + 1) + 1) * StmsPerLtm <= m * StmsPerLtm
      BY <3>1, BlocksAre
    <3>5. ((k + 1) + 1) * StmsPerLtm = (k + 1) * StmsPerLtm + StmsPerLtm
      BY <3>1, BlocksAre
    <3>6. b + s <= d /\ d <= N
      BY <1>3, <1>5, <3>2, <3>3, <3>4, <3>5
    <3> QED BY <3>2, <3>6
  <2> QED BY <2>1, <2>2
<1>8. Block(k) = (a + 1)..(a + s)
  BY <1>5, <1>6 DEF Block
<1>9. \A j \in 1..N : InBatch(j - 1, k) <=> a <= j - 1 /\ j - 1 <= a + s - 1
  BY <1>5, <1>6 DEF InBatch
<1>10. {h \in DOMAIN stm[c] : InBatch(stm[c][h].idx, i - 1)} = Block(k)
  <2>1. \A h \in 1..N : InBatch(stm[c][h].idx, i - 1) <=> InBatch(h - 1, k)
    BY <1>3, <1>4
  <2>2. \A h \in 1..N : InBatch(h - 1, k) <=> h \in Block(k)
    BY <1>8, <1>9
  <2>3. Block(k) \subseteq 1..N
    BY <1>7, <1>8
  <2> QED BY <1>1, <2>1, <2>2, <2>3
<1>11. {stm[c][j].id : j \in Block(k)} = Block(k)
  <2>1. \A j \in Block(k) : stm[c][j].id = j
    BY <1>3, <1>7, <1>8
  <2> QED BY <2>1
<1> QED BY <1>3, <1>4, <1>10, <1>11, BlocksAre

LEMMA SteadyNeverShort == MemoryInv /\ SteadyInv => NeverShort
<1> SUFFICES ASSUME MemoryInv, SteadyInv, NEW c \in Conv, Due(c)
             PROVE  Cardinality(BatchRows(c)) >= StmsPerLtm
  BY DEF NeverShort
<1>1. PICK k \in Nat : k = Len(ltm[c])
  BY DEF MemoryInv, StoreInv, Conversation, Table
<1>2. BatchRows(c) = Block(k)
  BY <1>1, DueBlock DEF MemoryInv, SteadyInv
<1> QED BY <1>1, <1>2, BlocksAre

LEMMA SteadyFoldsOnce == SteadyInv => ProfileFoldsOnce
BY DEF SteadyInv, ProfileFoldsOnce, FoldedOnce

(* As long as one instance works on the account, in a process that is not  *)
(* restarted, and nothing is deleted, the k-th summary of a conversation   *)
(* covers exactly its k-th batch of messages, whatever arrives meanwhile   *)
(* and however many summaries the language model refuses.                  *)
THEOREM SummariesCoverTheirBatches ==
  ASSUME \A v, w \in Worker : v = w
  PROVE  RetrySpec => []SummaryCoversItsBatch
<1> QED BY SteadyInvariant, SteadyCovers, PTL

(* In such a process a batch that is due has all its messages.             *)
THEOREM BatchesAreNeverShort ==
  ASSUME \A v, w \in Worker : v = w
  PROVE  RetrySpec => []NeverShort
<1> QED BY SteadyInvariant, SteadyNeverShort, PTL

(* In such a process the profile has folded no batch twice, until the      *)
(* language model refuses a summary.                                       *)
THEOREM ProfilesFoldOnce ==
  ASSUME \A v, w \in Worker : v = w
  PROVE  RetrySpec => []ProfileFoldsOnce
<1> QED BY SteadyInvariant, SteadyFoldsOnce, PTL
=============================================================================
