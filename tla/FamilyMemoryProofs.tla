------------------------- MODULE FamilyMemoryProofs -------------------------
(***************************************************************************)
(* Proofs about the chat turns of a family, for any number of members,     *)
(* turns and LTMemory instances: a private turn never enters the shared    *)
(* conversation, and in the conversation of its member a turn is one       *)
(* question, then one answer (family_companion/agent.py:69-154,            *)
(* memory.py:68-190).                                                      *)
(***************************************************************************)
EXTENDS FamilyMemory, FiniteSetTheorems, TLAPS

-----------------------------------------------------------------------------
(* What a turn has written to a conversation.                              *)

Silent(t, s) == \A i \in DOMAIN s : s[i].turn # t

Asked(t, s) ==
  \E i \in DOMAIN s :
    /\ s[i].turn = t /\ s[i].role = "user"
    /\ \A j \in DOMAIN s : s[j].turn = t => j = i

Both(t, s) ==
  \E i, j \in DOMAIN s :
    /\ i < j /\ s[i].turn = t /\ s[j].turn = t
    /\ s[i].role = "user" /\ s[j].role = "assistant"
    /\ \A k \in DOMAIN s : s[k].turn = t => k = i \/ k = j

Has(s, p) == \E i \in DOMAIN s : s[i] = p

Distinct(s) == \A i, j \in DOMAIN s : s[i] = s[j] => i = j

(* The conversations a turn in state r writes its two sides to.            *)
Mine(r, p) ==
  /\ r.pc # "idle"
  /\ p = Own(r.user) \/ (p = Shared /\ r.visibility # "private")

Early == {"idle", "lookup", "build", "classify"}

(* How far turn t, in state r, is in its conversation p, which holds s.    *)
Progress(r, t, p, s) ==
  /\ r.pc \in Early => Silent(t, s)
  /\ r.pc = "question" /\ Has(r.todo, p) => Silent(t, s)
  /\ r.pc = "question" /\ ~Has(r.todo, p) => Asked(t, s)
  /\ r.pc = "reply" => Asked(t, s)
  /\ r.pc = "answer" /\ Has(r.todo, p) => Asked(t, s)
  /\ r.pc = "answer" /\ ~Has(r.todo, p) => Both(t, s)
  /\ r.pc = "done" => Both(t, s)
  /\ r.pc = "failed" => Silent(t, s) \/ Asked(t, s) \/ Both(t, s)

Chatting ==
  [pc : {"lookup", "build", "classify", "question", "reply", "answer", "done", "failed"},
   user : User, visibility : Visibility, todo : Seq(Place)]

TurnOf(r, t, C) ==
  /\ r.pc # "idle" => r \in Chatting /\ Distinct(r.todo)
  /\ \A p \in ShortTerm :
       /\ Mine(r, p) => Progress(r, t, p, C[p])
       /\ ~Mine(r, p) => /\ Silent(t, C[p])
                         /\ r.pc \in {"question", "answer"} => ~Has(r.todo, p)

(* The inductive invariant: each turn is as far in its own conversations   *)
(* as its step and the adds it has left say, and in no other.              *)
ChatInv ==
  /\ TypeOK
  /\ DOMAIN turn = Turn /\ turn = [t \in Turn |-> turn[t]]
  /\ \A t \in Turn : TurnOf(turn[t], t, conv)

-----------------------------------------------------------------------------
(* Lemmas about places and sequences.                                      *)

LEMMA PlacesDiffer ==
  /\ \A u, v \in User : Own(u) = Own(v) => u = v
  /\ \A u, v \in User :
       /\ Shared # Own(u) /\ Shared # Events /\ Shared # Public /\ Shared # Private(u)
       /\ Own(u) # Events /\ Own(u) # Public /\ Own(u) # Private(v)
       /\ Events # Public /\ Events # Private(u) /\ Public # Private(u)
  /\ Shared[1] = "shared" /\ Events[1] = "events" /\ Public[1] = "public"
  /\ \A u \in User : Own(u)[1] = "own" /\ Private(u)[1] = "private"
<1>1. /\ Shared[1] = "shared" /\ Events[1] = "events" /\ Public[1] = "public"
      /\ \A u \in User : Own(u)[1] = "own" /\ Own(u)[2] = u /\ Private(u)[1] = "private"
  BY DEF Shared, Events, Public, Own, Private
<1>2. \A u, v \in User : Own(u) = Own(v) => u = v
  BY <1>1
<1>3. \A u, v \in User :
       /\ Shared # Own(u) /\ Shared # Events /\ Shared # Public /\ Shared # Private(u)
       /\ Own(u) # Events /\ Own(u) # Public /\ Own(u) # Private(v)
       /\ Events # Public /\ Events # Private(u) /\ Public # Private(u)
  BY <1>1
<1> QED BY <1>1, <1>2, <1>3

LEMMA OneHas ==
  ASSUME NEW S, NEW p \in S
  PROVE  <<p>> \in Seq(S) /\ Distinct(<<p>>) /\ \A q : Has(<<p>>, q) <=> q = p
  BY DEF Distinct, Has

LEMMA NoneHas ==
  ASSUME NEW S
  PROVE  <<>> \in Seq(S) /\ Distinct(<<>>) /\ \A q : ~Has(<<>>, q)
  BY DEF Distinct, Has

LEMMA ConcatHas ==
  ASSUME NEW S, NEW s \in Seq(S), NEW r \in Seq(S), Distinct(s), Distinct(r),
         \A q : ~(Has(s, q) /\ Has(r, q))
  PROVE  /\ s \o r \in Seq(S) /\ Distinct(s \o r)
         /\ \A q : Has(s \o r, q) <=> Has(s, q) \/ Has(r, q)
<1>1. PICK m \in Nat, n \in Nat : m = Len(s) /\ n = Len(r)
  OBVIOUS
<1>2. PICK c : c = s \o r
  OBVIOUS
<1>3. c \in Seq(S)
  BY <1>2
<1>4. DOMAIN s = 1..m /\ DOMAIN r = 1..n /\ DOMAIN c = 1..(m + n)
  BY <1>1, <1>2
<1>5. /\ \A i \in 1..m : i \in 1..(m + n) /\ c[i] = s[i]
      /\ \A i \in 1..n : i + m \in 1..(m + n) /\ c[i + m] = r[i]
  BY <1>1, <1>2
<1>6. \A i \in 1..(m + n) : i \in 1..m \/ \E j \in 1..n : i = j + m
  <2>1. \A i \in 1..(m + n) : i \in 1..m \/ (i - m \in 1..n /\ i = (i - m) + m)
    OBVIOUS
  <2> QED BY <2>1
<1>7. \A q : Has(c, q) <=> Has(s, q) \/ Has(r, q)
  <2>1. ASSUME NEW q, NEW i \in 1..(m + n), c[i] = q
        PROVE  (\E j \in 1..m : s[j] = q) \/ \E j \in 1..n : r[j] = q
    BY <1>5, <1>6, <2>1
  <2>2. ASSUME NEW q, (\E j \in 1..m : s[j] = q) \/ \E j \in 1..n : r[j] = q
        PROVE  \E i \in 1..(m + n) : c[i] = q
    BY <1>5, <2>2
  <2> QED BY <1>4, <2>1, <2>2 DEF Has
<1>8. \A i \in 1..m, j \in 1..n : s[i] # r[j]
  BY <1>4, Zenon DEF Has
<1>9. Distinct(c)
  <2> SUFFICES ASSUME NEW i \in 1..(m + n), NEW j \in 1..(m + n), c[i] = c[j]
               PROVE  i = j
    BY <1>4 DEF Distinct
  <2>1. CASE i \in 1..m /\ j \in 1..m
    BY <1>4, <1>5, <2>1, Zenon DEF Distinct
  <2>2. ASSUME NEW k \in 1..n, NEW l \in 1..n, i = k + m, j = l + m
        PROVE  i = j
    <3>1. r[k] = r[l]
      BY <1>5, <2>2
    <3> QED BY <1>4, <2>2, <3>1, Zenon DEF Distinct
  <2>3. ASSUME NEW k \in 1..n, i = k + m, j \in 1..m
        PROVE  i = j
    BY <1>5, <1>8, <2>3
  <2>4. ASSUME NEW k \in 1..n, j = k + m, i \in 1..m
        PROVE  i = j
    BY <1>5, <1>8, <2>4
  <2> QED BY <1>6, <2>1, <2>2, <2>3, <2>4
<1> QED BY <1>2, <1>3, <1>7, <1>9

LEMMA TailHas ==
  ASSUME NEW S, NEW s \in Seq(S), s # <<>>, Distinct(s)
  PROVE  /\ Head(s) \in S /\ Tail(s) \in Seq(S) /\ Distinct(Tail(s))
         /\ Has(s, Head(s)) /\ ~Has(Tail(s), Head(s))
         /\ \A p : p # Head(s) => (Has(Tail(s), p) <=> Has(s, p))
<1>1. PICK n, h, r : n = Len(s) /\ h = Head(s) /\ r = Tail(s)
  BY Zenon
<1>2. /\ n \in Nat /\ n >= 1 /\ DOMAIN s = 1..n /\ h \in S /\ h = s[1] /\ r \in Seq(S) /\ DOMAIN r = 1..(n - 1)
      /\ \A i \in 1..(n - 1) : r[i] = s[i + 1]
  BY <1>1
<1>3. \A i \in 1..n : i # 1 => i - 1 \in 1..(n - 1) /\ r[i - 1] = s[i]
  BY <1>2
<1>4. Distinct(r)
  <2> SUFFICES ASSUME NEW i \in 1..(n - 1), NEW j \in 1..(n - 1), r[i] = r[j]
               PROVE  i = j
    BY <1>2 DEF Distinct
  <2>1. i + 1 \in 1..n /\ j + 1 \in 1..n /\ s[i + 1] = s[j + 1]
    BY <1>2
  <2>2. i + 1 = j + 1
    BY <1>2, <2>1 DEF Distinct
  <2> QED BY <2>2
<1>5. Has(s, h)
  BY <1>2 DEF Has
<1>6. ~Has(r, h)
  BY <1>2 DEF Has, Distinct
<1>7. ASSUME NEW p, p # h, Has(s, p)
      PROVE  Has(r, p)
  BY <1>2, <1>3, <1>7 DEF Has
<1>8. ASSUME NEW p, Has(r, p)
      PROVE  Has(s, p)
  BY <1>2, <1>8 DEF Has
<1> QED BY <1>1, <1>2, <1>4, <1>5, <1>6, <1>7, <1>8

(* What a side of a turn and its classification add.                       *)
LEMMA SidesHave ==
  ASSUME NEW t \in Turn, turn[t].user \in User, NEW v
  PROVE  /\ Sides(t, v) \in Seq(Place) /\ Distinct(Sides(t, v))
         /\ \A p : Has(Sides(t, v), p) <=>
                     p = Own(turn[t].user) \/ (p = Shared /\ v # "private")
<1>1. PICK u \in User : u = turn[t].user
  OBVIOUS
<1>2. Own(u) \in Place /\ Shared \in Place /\ Own(u) # Shared
  BY PlacesDiffer DEF Place, ShortTerm
<1>3. CASE v = "private"
  <2>1. Sides(t, v) = <<Own(u)>>
    BY <1>1, <1>3 DEF Sides
  <2>2. /\ <<Own(u)>> \in Seq(Place) /\ Distinct(<<Own(u)>>)
        /\ \A p : Has(<<Own(u)>>, p) <=> p = Own(u)
    BY <1>2, OneHas
  <2> QED BY <1>1, <1>3, <2>1, <2>2
<1>4. CASE v # "private"
  <2>1. PICK s : s = <<Shared, Own(u)>>
    OBVIOUS
  <2>2. Sides(t, v) = s
    BY <1>1, <1>4, <2>1 DEF Sides
  <2>3. s \in Seq(Place) /\ DOMAIN s = {1, 2} /\ s[1] = Shared /\ s[2] = Own(u)
    BY <1>2, <2>1
  <2>4. Distinct(s) /\ \A p : Has(s, p) <=> p = Shared \/ p = Own(u)
    BY <1>2, <2>3 DEF Distinct, Has
  <2> QED BY <1>1, <1>4, <2>2, <2>3, <2>4
<1> QED BY <1>3, <1>4

LEMMA BucketsHave ==
  ASSUME NEW t \in Turn, turn[t].user \in User, NEW B
  PROVE  /\ Buckets(t, B) \in Seq(Place) /\ Distinct(Buckets(t, B))
         /\ \A p : Has(Buckets(t, B), p) => p \in {Events, Public, Private(turn[t].user)}
<1>1. PICK u, P : u \in User /\ u = turn[t].user /\ P = Private(u)
  OBVIOUS
<1>2. /\ Events \in Place /\ Public \in Place /\ P \in Place
      /\ Events # Public /\ Events # P /\ Public # P
  BY <1>1, PlacesDiffer DEF Place
<1>3. PICK a, b, c : /\ a = IF "events" \in B THEN <<Events>> ELSE <<>>
                     /\ b = IF "public" \in B THEN <<Public>> ELSE <<>>
                     /\ c = IF "private" \in B THEN <<P>> ELSE <<>>
  OBVIOUS
<1>4. Buckets(t, B) = a \o b \o c
  BY <1>1, <1>3 DEF Buckets
<1>5. a \in Seq(Place) /\ Distinct(a) /\ \A q : Has(a, q) => q = Events
  BY <1>2, <1>3, OneHas, NoneHas
<1>6. b \in Seq(Place) /\ Distinct(b) /\ \A q : Has(b, q) => q = Public
  BY <1>2, <1>3, OneHas, NoneHas
<1>7. c \in Seq(Place) /\ Distinct(c) /\ \A q : Has(c, q) => q = P
  BY <1>2, <1>3, OneHas, NoneHas
<1>8. \A q : ~(Has(a, q) /\ Has(b, q))
  BY <1>2, <1>5, <1>6
<1>9. /\ a \o b \in Seq(Place) /\ Distinct(a \o b)
      /\ \A q : Has(a \o b, q) <=> Has(a, q) \/ Has(b, q)
  BY <1>5, <1>6, <1>8, ConcatHas
<1>10. \A q : ~(Has(a \o b, q) /\ Has(c, q))
  BY <1>2, <1>5, <1>6, <1>7, <1>9
<1>11. PICK d : d = a \o b
  OBVIOUS
<1>12. d \in Seq(Place) /\ Distinct(d) /\ \A q : ~(Has(d, q) /\ Has(c, q))
  BY <1>9, <1>10, <1>11
<1>13. /\ d \o c \in Seq(Place) /\ Distinct(d \o c)
       /\ \A q : Has(d \o c, q) <=> Has(d, q) \/ Has(c, q)
  BY <1>7, <1>12, ConcatHas
<1> QED BY <1>1, <1>4, <1>5, <1>6, <1>7, <1>9, <1>11, <1>13

LEMMA TodoHas ==
  ASSUME NEW t \in Turn, turn[t].user \in User, NEW v, NEW B
  PROVE  LET s == Sides(t, v) \o Buckets(t, B) IN
         /\ s \in Seq(Place) /\ Distinct(s)
         /\ \A p \in ShortTerm : Has(s, p) <=>
               p = Own(turn[t].user) \/ (p = Shared /\ v # "private")
<1>1. PICK u \in User : u = turn[t].user
  OBVIOUS
<1>2. PICK a, b : a = Sides(t, v) /\ b = Buckets(t, B)
  OBVIOUS
<1>3. /\ a \in Seq(Place) /\ Distinct(a)
      /\ \A p : Has(a, p) <=> p = Own(u) \/ (p = Shared /\ v # "private")
  BY <1>1, <1>2, SidesHave
<1>4. /\ b \in Seq(Place) /\ Distinct(b)
      /\ \A p : Has(b, p) => p \in {Events, Public, Private(u)}
  BY <1>1, <1>2, BucketsHave
<1>5. \A p \in ShortTerm : p \notin {Events, Public, Private(u)}
  BY PlacesDiffer DEF ShortTerm
<1>6. Shared \in ShortTerm /\ Own(u) \in ShortTerm
  BY DEF ShortTerm
<1>7. \A q : ~(Has(a, q) /\ Has(b, q))
  BY <1>3, <1>4, <1>5, <1>6
<1>8. a \o b \in Seq(Place) /\ Distinct(a \o b) /\ \A q : Has(a \o b, q) <=> Has(a, q) \/ Has(b, q)
  BY <1>3, <1>4, <1>7, ConcatHas
<1> QED BY <1>1, <1>2, <1>3, <1>4, <1>5, <1>8

(* What one more message changes.                                          *)
LEMMA AppendTells ==
  ASSUME NEW s \in Seq(Message), NEW m \in Message, NEW r, r = Append(s, m)
  PROVE  /\ r \in Seq(Message)
         /\ \A x \in Turn : x # m.turn => /\ Silent(x, s) => Silent(x, r)
                                          /\ Asked(x, s) => Asked(x, r)
                                          /\ Both(x, s) => Both(x, r)
         /\ Silent(m.turn, s) /\ m.role = "user" => Asked(m.turn, r)
         /\ Asked(m.turn, s) /\ m.role = "assistant" => Both(m.turn, r)
<1>1. PICK n : n = Len(s)
  OBVIOUS
<1>2. /\ n \in Nat /\ r \in Seq(Message) /\ DOMAIN s = 1..n /\ DOMAIN r = 1..(n + 1)
      /\ \A i \in 1..n : r[i] = s[i]
      /\ r[n + 1] = m
  BY <1>1
<1>3. \A i \in 1..(n + 1) : i \in 1..n \/ i = n + 1
  BY <1>2
<1>4. \A i \in 1..n : i \in 1..(n + 1) /\ i < n + 1
  BY <1>2
<1>5. n + 1 \in 1..(n + 1)
  BY <1>2
<1>6. ASSUME NEW x, x # m.turn, Silent(x, s)
      PROVE  Silent(x, r)
  BY <1>2, <1>3, <1>6 DEF Silent
<1>7. ASSUME NEW x, x # m.turn, Asked(x, s)
      PROVE  Asked(x, r)
  BY <1>2, <1>3, <1>4, <1>7 DEF Asked
<1>8. ASSUME NEW x, x # m.turn, Both(x, s)
      PROVE  Both(x, r)
  <2>1. PICK i \in 1..n, j \in 1..n :
          /\ i < j /\ s[i].turn = x /\ s[j].turn = x
          /\ s[i].role = "user" /\ s[j].role = "assistant"
          /\ \A k \in 1..n : s[k].turn = x => k = i \/ k = j
    BY <1>2, <1>8 DEF Both
  <2>2. \A k \in 1..(n + 1) : r[k].turn = x => k = i \/ k = j
    BY <1>2, <1>3, <1>8, <2>1
  <2>3. /\ i \in DOMAIN r /\ j \in DOMAIN r /\ i < j /\ r[i].turn = x /\ r[j].turn = x
        /\ r[i].role = "user" /\ r[j].role = "assistant"
        /\ \A k \in DOMAIN r : r[k].turn = x => k = i \/ k = j
    BY <1>2, <1>4, <2>1, <2>2
  <2> QED BY <2>3 DEF Both
<1>9. ASSUME Silent(m.turn, s), m.role = "user"
      PROVE  Asked(m.turn, r)
  BY <1>2, <1>3, <1>5, <1>9 DEF Silent, Asked
<1>10. ASSUME Asked(m.turn, s), m.role = "assistant"
       PROVE  Both(m.turn, r)
  <2>1. PICK i \in 1..n : /\ s[i].turn = m.turn /\ s[i].role = "user"
                          /\ \A j \in 1..n : s[j].turn = m.turn => j = i
    BY <1>2, <1>10 DEF Asked
  <2>2. \A k \in 1..(n + 1) : r[k].turn = m.turn => k = i \/ k = n + 1
    BY <1>2, <1>3, <2>1
  <2>3. /\ i \in DOMAIN r /\ n + 1 \in DOMAIN r /\ i < n + 1
        /\ r[i].turn = m.turn /\ r[n + 1].turn = m.turn
        /\ r[i].role = "user" /\ r[n + 1].role = "assistant"
        /\ \A k \in DOMAIN r : r[k].turn = m.turn => k = i \/ k = n + 1
    BY <1>2, <1>4, <1>5, <1>10, <2>1, <2>2
  <2> QED BY <2>3 DEF Both
<1> QED BY <1>2, <1>6, <1>7, <1>8, <1>9, <1>10

-----------------------------------------------------------------------------
(* The steps.                                                              *)

LEMMA TurnIs ==
  ASSUME ChatInv, NEW t \in Turn, turn[t].pc # "idle"
  PROVE  /\ turn[t] \in Chatting /\ turn[t].user \in User /\ turn[t].visibility \in Visibility
         /\ turn[t].todo \in Seq(Place) /\ Distinct(turn[t].todo)
BY DEF ChatInv, TurnOf, Chatting

(* A step of one turn that writes nothing.                                 *)
LEMMA TurnMoves ==
  ASSUME ChatInv, NEW t \in Turn, NEW r, turn' = [turn EXCEPT ![t] = r],
         TurnOf(r, t, conv), r.pc # "idle",
         slot' \in instances' \cup {None}, instances' \subseteq Turn,
         UNCHANGED <<conv, profile, folded>>
  PROVE  ChatInv'
<1>1. DOMAIN turn = Turn
  BY DEF ChatInv
<1>2. turn'[t] = r /\ \A x \in Turn \ {t} : turn'[x] = turn[x]
  BY <1>1
<1>3. \A x \in Turn : TurnOf(turn'[x], x, conv')
  BY <1>2 DEF ChatInv
<1>4. DOMAIN turn' = Turn /\ turn' = [x \in Turn |-> turn'[x]]
  BY <1>1 DEF ChatInv
<1>5. TypeOK'
  <2>1. \A x \in Turn : turn'[x].pc # "idle" =>
          /\ turn'[x].user \in User /\ turn'[x].visibility \in Visibility
          /\ turn'[x].todo \in Seq(Place)
    BY <1>3 DEF TurnOf, Chatting
  <2> QED BY <2>1 DEF ChatInv, TypeOK
<1> QED BY <1>3, <1>4, <1>5 DEF ChatInv

(* A step of one turn to another place.                                    *)
LEMMA GotoMoves ==
  ASSUME ChatInv, NEW t \in Turn, turn[t].pc # "idle",
         NEW pc \in {"build", "classify", "reply", "done", "failed"}, Goto(t, pc),
         \/ turn[t].pc \in Early /\ pc \in Early
         \/ turn[t].pc \in {"build", "question", "reply", "answer"} /\ pc = "failed"
         \/ turn[t].pc = "question" /\ pc = "reply" /\ turn[t].todo = <<>>
         \/ turn[t].pc = "answer" /\ pc = "done" /\ turn[t].todo = <<>>,
         slot' \in instances' \cup {None}, instances' \subseteq Turn,
         UNCHANGED <<conv, profile, folded>>
  PROVE  ChatInv'
<1>1. PICK r : r = [turn[t] EXCEPT !.pc = pc]
  OBVIOUS
<1>2. turn[t] \in Chatting /\ Distinct(turn[t].todo)
  BY TurnIs
<1>3. /\ r \in Chatting /\ r.pc = pc
      /\ r.user = turn[t].user /\ r.visibility = turn[t].visibility /\ r.todo = turn[t].todo
  BY <1>1, <1>2 DEF Chatting
<1>4. turn' = [turn EXCEPT ![t] = r]
  BY <1>1 DEF Goto
<1>5. turn[t].todo = <<>> => \A p : ~Has(turn[t].todo, p)
  BY NoneHas
<1>6. ASSUME NEW p \in ShortTerm, Mine(r, p)
      PROVE  Progress(r, t, p, conv[p])
  <2>1. Progress(turn[t], t, p, conv[p])
    BY <1>3, <1>6 DEF Mine, ChatInv, TurnOf
  <2> QED BY <1>3, <1>5, <2>1 DEF Progress, Early
<1>7. ASSUME NEW p \in ShortTerm, ~Mine(r, p)
      PROVE  Silent(t, conv[p])
  BY <1>3, <1>7 DEF Mine, ChatInv, TurnOf
<1>8. TurnOf(r, t, conv)
  BY <1>2, <1>3, <1>6, <1>7 DEF TurnOf
<1> QED BY <1>3, <1>4, <1>8, TurnMoves

LEMMA SlotIs ==
  ASSUME ChatInv
  PROVE  slot \in instances \cup {None} /\ instances \subseteq Turn
BY DEF ChatInv, TypeOK

LEMMA StartKeeps ==
  ASSUME ChatInv, NEW t \in Turn, NEW u \in User, Start(t, u)
  PROVE  ChatInv'
<1>1. PICK r : r = [pc |-> "lookup", user |-> u, visibility |-> "family", todo |-> <<>>]
  OBVIOUS
<1>2. turn' = [turn EXCEPT ![t] = r]
  BY <1>1 DEF Start
<1>3. r \in Chatting /\ r.pc = "lookup" /\ Distinct(r.todo)
  BY <1>1, NoneHas DEF Chatting, Visibility
<1>4. \A p \in ShortTerm : Silent(t, conv[p])
  BY DEF Start, ChatInv, TurnOf, Mine
<1>5. TurnOf(r, t, conv)
  BY <1>3, <1>4 DEF TurnOf, Progress, Early
<1> QED BY <1>2, <1>3, <1>5, SlotIs, TurnMoves DEF Start

LEMMA ClassifyKeeps ==
  ASSUME ChatInv, NEW t \in Turn, Classify(t)
  PROVE  ChatInv'
<1>1. PICK v \in Visibility, B \in SUBSET Bucket :
        turn' = [turn EXCEPT ![t] =
          [turn[t] EXCEPT !.pc = "question", !.visibility = v,
                          !.todo = Sides(t, v) \o Buckets(t, B)]]
  BY DEF Classify, ChatInv
<1>2. turn[t].pc = "classify" /\ turn[t] \in Chatting /\ turn[t].user \in User
  BY TurnIs DEF Classify
<1>3. PICK r, s : /\ s = Sides(t, v) \o Buckets(t, B)
                  /\ r = [turn[t] EXCEPT !.pc = "question", !.visibility = v, !.todo = s]
  OBVIOUS
<1>4. /\ s \in Seq(Place) /\ Distinct(s)
      /\ \A p \in ShortTerm : Has(s, p) <=>
            p = Own(turn[t].user) \/ (p = Shared /\ v # "private")
  BY <1>2, <1>3, TodoHas
<1>5. /\ r \in Chatting /\ r.pc = "question" /\ r.user = turn[t].user
      /\ r.visibility = v /\ r.todo = s
  BY <1>2, <1>3, <1>4 DEF Chatting
<1>6. \A p \in ShortTerm : Silent(t, conv[p])
  BY <1>2 DEF ChatInv, TurnOf, Mine, Progress, Early
<1>7. \A p \in ShortTerm : Mine(r, p) <=> Has(r.todo, p)
  BY <1>4, <1>5 DEF Mine
<1>8. TurnOf(r, t, conv)
  BY <1>4, <1>5, <1>6, <1>7 DEF TurnOf, Progress, Early
<1>9. turn' = [turn EXCEPT ![t] = r]
  BY <1>1, <1>3
<1> QED BY <1>5, <1>8, <1>9, SlotIs, TurnMoves DEF Classify

LEMMA ReplyKeeps ==
  ASSUME ChatInv, NEW t \in Turn, Reply(t)
  PROVE  ChatInv'
<1>1. /\ turn[t].pc = "reply" /\ turn[t] \in Chatting
      /\ turn[t].user \in User /\ turn[t].visibility \in Visibility
  BY TurnIs DEF Reply
<1>2. PICK r, s : /\ s = Sides(t, turn[t].visibility)
                  /\ r = [turn[t] EXCEPT !.pc = "answer", !.todo = s]
  OBVIOUS
<1>3. turn' = [turn EXCEPT ![t] = r]
  BY <1>2 DEF Reply, ChatInv
<1>4. /\ s \in Seq(Place) /\ Distinct(s)
      /\ \A p : Has(s, p) <=>
            p = Own(turn[t].user) \/ (p = Shared /\ turn[t].visibility # "private")
  BY <1>1, <1>2, SidesHave
<1>5. /\ r \in Chatting /\ r.pc = "answer" /\ r.user = turn[t].user
      /\ r.visibility = turn[t].visibility /\ r.todo = s
  BY <1>1, <1>2, <1>4 DEF Chatting
<1>6. \A p : Mine(r, p) <=> Has(r.todo, p)
  BY <1>4, <1>5 DEF Mine
<1>7. \A p \in ShortTerm : Mine(r, p) => Asked(t, conv[p])
  BY <1>1, <1>5 DEF Mine, ChatInv, TurnOf, Progress
<1>8. \A p \in ShortTerm : ~Mine(r, p) => Silent(t, conv[p])
  BY <1>1, <1>5 DEF Mine, ChatInv, TurnOf
<1>9. TurnOf(r, t, conv)
  BY <1>4, <1>5, <1>6, <1>7, <1>8 DEF TurnOf, Progress, Early
<1> QED BY <1>3, <1>5, <1>9, SlotIs, TurnMoves DEF Reply

(* An add moves the turn that makes it and leaves the others where they    *)
(* are.                                                                    *)
LEMMA AddKeeps ==
  ASSUME ChatInv, NEW t \in Turn, Add(t)
  PROVE  ChatInv'
<1>1. /\ turn[t].pc \in {"question", "answer"} /\ turn[t].todo # <<>>
      /\ turn[t] \in Chatting /\ turn[t].user \in User /\ turn[t].todo \in Seq(Place)
      /\ Distinct(turn[t].todo)
  BY TurnIs DEF Add
<1>2. /\ conv \in [Place -> Seq(Message)] /\ DOMAIN turn = Turn
      /\ turn = [x \in Turn |-> turn[x]]
      /\ \A x \in Turn : TurnOf(turn[x], x, conv)
  BY DEF ChatInv, TypeOK
<1>3. PICK p, r, m : /\ p = Head(turn[t].todo)
                     /\ r = [turn[t] EXCEPT !.todo = Tail(@)]
                     /\ m = [turn |-> t, role |-> Role(t, p)]
  OBVIOUS
<1>4. PICK s : s = Append(conv[p], m)
  OBVIOUS
<1>5. conv' = [conv EXCEPT ![p] = s] /\ turn' = [turn EXCEPT ![t] = r]
  BY <1>2, <1>3, <1>4 DEF Add
<1>6. /\ p \in Place /\ Has(turn[t].todo, p)
      /\ Tail(turn[t].todo) \in Seq(Place) /\ Distinct(Tail(turn[t].todo))
      /\ ~Has(Tail(turn[t].todo), p)
      /\ \A q : q # p => (Has(Tail(turn[t].todo), q) <=> Has(turn[t].todo, q))
  BY <1>1, <1>3, TailHas
<1>7. /\ r \in Chatting /\ r.pc = turn[t].pc /\ r.user = turn[t].user
      /\ r.visibility = turn[t].visibility /\ r.todo = Tail(turn[t].todo)
  BY <1>1, <1>3, <1>6 DEF Chatting
<1>8. m \in Message /\ m.turn = t /\ m.role = Role(t, p)
  BY <1>3 DEF Message, Role
<1>9. conv[p] \in Seq(Message)
  BY <1>2, <1>6
<1>10. /\ s \in Seq(Message)
       /\ \A x \in Turn : x # t => /\ Silent(x, conv[p]) => Silent(x, s)
                                   /\ Asked(x, conv[p]) => Asked(x, s)
                                   /\ Both(x, conv[p]) => Both(x, s)
       /\ Silent(t, conv[p]) /\ m.role = "user" => Asked(t, s)
       /\ Asked(t, conv[p]) /\ m.role = "assistant" => Both(t, s)
  BY <1>4, <1>8, <1>9, AppendTells
<1>11. /\ conv' \in [Place -> Seq(Message)] /\ conv'[p] = s
       /\ \A q \in Place : q # p => conv'[q] = conv[q]
  BY <1>2, <1>5, <1>6, <1>10
<1>12. turn'[t] = r /\ \A x \in Turn \ {t} : turn'[x] = turn[x]
  BY <1>2, <1>5
<1>13. ShortTerm \subseteq Place
  BY DEF Place
<1>14. ASSUME NEW x \in Turn, x # t
       PROVE  TurnOf(turn'[x], x, conv')
  <2>1. \A q \in ShortTerm : /\ Silent(x, conv[q]) => Silent(x, conv'[q])
                             /\ Asked(x, conv[q]) => Asked(x, conv'[q])
                             /\ Both(x, conv[q]) => Both(x, conv'[q])
    BY <1>10, <1>11, <1>13, <1>14
  <2>2. TurnOf(turn[x], x, conv) /\ turn'[x] = turn[x]
    BY <1>2, <1>12, <1>14
  <2> QED BY <2>1, <2>2 DEF TurnOf, Progress
<1>15. TurnOf(r, t, conv')
  <2>1. \A q \in ShortTerm : q # p =>
          /\ Mine(r, q) => Progress(r, t, q, conv'[q])
          /\ ~Mine(r, q) => Silent(t, conv'[q]) /\ ~Has(r.todo, q)
    <3> SUFFICES ASSUME NEW q \in ShortTerm, q # p
                 PROVE  /\ Mine(r, q) => Progress(r, t, q, conv'[q])
                        /\ ~Mine(r, q) => Silent(t, conv'[q]) /\ ~Has(r.todo, q)
      OBVIOUS
    <3>1. conv'[q] = conv[q] /\ (Has(r.todo, q) <=> Has(turn[t].todo, q))
      BY <1>6, <1>7, <1>11, <1>13
    <3>2. Mine(r, q) <=> Mine(turn[t], q)
      BY <1>7 DEF Mine
    <3>3. /\ Mine(turn[t], q) => Progress(turn[t], t, q, conv[q])
          /\ ~Mine(turn[t], q) => Silent(t, conv[q]) /\ ~Has(turn[t].todo, q)
      BY <1>1, <1>2 DEF TurnOf
    <3> QED BY <1>7, <3>1, <3>2, <3>3 DEF Progress
  <2>2. CASE p \in ShortTerm
    <3>1. Mine(turn[t], p) /\ Progress(turn[t], t, p, conv[p])
      BY <1>1, <1>2, <1>6, <2>2 DEF TurnOf
    <3>2. Mine(r, p)
      BY <1>7, <3>1 DEF Mine
    <3>3. p[1] \notin Bucket
      BY <2>2, PlacesDiffer DEF ShortTerm, Bucket
    <3>4. Progress(r, t, p, conv'[p])
      <4>1. CASE turn[t].pc = "question"
        <5>1. Silent(t, conv[p]) /\ m.role = "user"
          BY <1>6, <1>8, <3>1, <3>3, <4>1 DEF Progress, Role
        <5> QED BY <1>6, <1>7, <1>10, <1>11, <4>1, <5>1 DEF Progress, Early
      <4>2. CASE turn[t].pc = "answer"
        <5>1. Asked(t, conv[p]) /\ m.role = "assistant"
          BY <1>6, <1>8, <3>1, <3>3, <4>2 DEF Progress, Role
        <5> QED BY <1>6, <1>7, <1>10, <1>11, <4>2, <5>1 DEF Progress, Early
      <4> QED BY <1>1, <4>1, <4>2
    <3> QED BY <1>6, <1>7, <2>1, <3>2, <3>4 DEF TurnOf
  <2>3. CASE p \notin ShortTerm
    BY <1>6, <1>7, <2>1, <2>3 DEF TurnOf
  <2> QED BY <2>2, <2>3
<1>16. \A x \in Turn : TurnOf(turn'[x], x, conv')
  BY <1>12, <1>14, <1>15
<1>17. DOMAIN turn' = Turn /\ turn' = [x \in Turn |-> turn'[x]]
  BY <1>2, <1>5
<1>18. TypeOK'
  <2>1. \A x \in Turn : turn'[x].pc # "idle" =>
          /\ turn'[x].user \in User /\ turn'[x].visibility \in Visibility
          /\ turn'[x].todo \in Seq(Place)
    BY <1>16 DEF TurnOf, Chatting
  <2> QED BY <1>11, <2>1 DEF ChatInv, TypeOK, Add
<1> QED BY <1>16, <1>17, <1>18 DEF ChatInv

LEMMA FoldKeeps ==
  ASSUME ChatInv, NEW p \in ShortTerm, Fold(p)
  PROVE  ChatInv'
<1>1. PICK k \in Nat, a \in Nat, b \in Nat :
        k = folded[p] /\ a = k * StmsPerLtm /\ b = (k + 1) * StmsPerLtm
  BY FamilyMemoryAssumption DEF ChatInv, TypeOK
<1>2. /\ Len(conv[p]) > b /\ folded' = [folded EXCEPT ![p] = k + 1]
      /\ profile' = profile \cup {conv[p][i].turn : i \in (a + 1)..b}
      /\ UNCHANGED <<slot, instances, turn, conv>>
  BY <1>1 DEF Fold
<1>3. conv[p] \in Seq(Message)
  BY DEF ChatInv, TypeOK, Place
<1>4. \A i \in (a + 1)..b : conv[p][i] \in Message
  BY <1>2, <1>3
<1>5. \A i \in (a + 1)..b : conv[p][i].turn \in Turn
  BY <1>4 DEF Message
<1>6. profile' \subseteq Turn /\ folded' \in [ShortTerm -> Nat]
  BY <1>2, <1>5 DEF ChatInv, TypeOK
<1> QED BY <1>2, <1>6 DEF ChatInv, TypeOK

-----------------------------------------------------------------------------
(* The invariant of the chat turns holds, whatever the members send, the   *)
(* models answer and the requests fail with.                               *)
THEOREM ChatInvHolds == Spec => []ChatInv
<1>1. Init => ChatInv
  <2> SUFFICES ASSUME Init
               PROVE  ChatInv
    OBVIOUS
  <2>1. \A t \in Turn : turn[t].pc = "idle"
    BY DEF Init
  <2>2. \A p \in ShortTerm : conv[p] = <<>>
    BY DEF Init, Place
  <2>3. \A t \in Turn : TurnOf(turn[t], t, conv)
    BY <2>1, <2>2 DEF TurnOf, Mine, Silent
  <2>4. TypeOK
    BY <2>1 DEF Init, TypeOK
  <2> QED BY <2>3, <2>4 DEF Init, ChatInv
<1>2. ASSUME ChatInv, [Next]_vars
      PROVE  ChatInv'
  <2>1. ASSUME NEW t \in Turn, NEW u \in User, Start(t, u)
        PROVE  ChatInv'
    BY <1>2, <2>1, StartKeeps
  <2>2. ASSUME NEW t \in Turn, Lookup(t)
        PROVE  ChatInv'
    <3>1. turn[t].pc = "lookup" /\ (Goto(t, "build") \/ Goto(t, "classify"))
      BY <2>2 DEF Lookup
    <3>2. UNCHANGED <<slot, instances, conv, profile, folded>>
      BY <2>2 DEF Lookup
    <3> QED BY <1>2, <3>1, <3>2, SlotIs, GotoMoves DEF Early
  <2>3. ASSUME NEW t \in Turn, Built(t)
        PROVE  ChatInv'
    <3>1. /\ turn[t].pc = "build" /\ Goto(t, "classify")
          /\ slot' \in instances' \cup {None} /\ instances' \subseteq Turn
          /\ UNCHANGED <<conv, profile, folded>>
      BY <1>2, <2>3, SlotIs DEF Built
    <3> QED BY <1>2, <3>1, GotoMoves DEF Early
  <2>4. ASSUME NEW t \in Turn, Classify(t)
        PROVE  ChatInv'
    BY <1>2, <2>4, ClassifyKeeps
  <2>5. ASSUME NEW t \in Turn, Add(t)
        PROVE  ChatInv'
    BY <1>2, <2>5, AddKeeps
  <2>6. ASSUME NEW t \in Turn, Ask(t)
        PROVE  ChatInv'
    BY <1>2, <2>6, SlotIs, GotoMoves DEF Ask
  <2>7. ASSUME NEW t \in Turn, Reply(t)
        PROVE  ChatInv'
    BY <1>2, <2>7, ReplyKeeps
  <2>8. ASSUME NEW t \in Turn, Answered(t)
        PROVE  ChatInv'
    BY <1>2, <2>8, SlotIs, GotoMoves DEF Answered
  <2>9. ASSUME NEW t \in Turn, Fail(t)
        PROVE  ChatInv'
    <3>1. turn[t].pc \in {"build", "question", "reply", "answer"} /\ Goto(t, "failed")
      BY <2>9 DEF Fail
    <3>2. UNCHANGED <<slot, instances, conv, profile, folded>>
      BY <2>9 DEF Fail
    <3> QED BY <1>2, <3>1, <3>2, SlotIs, GotoMoves
  <2>10. ASSUME NEW p \in ShortTerm, Fold(p)
         PROVE  ChatInv'
    BY <1>2, <2>10, FoldKeeps
  <2>11. CASE UNCHANGED vars
    BY <1>2, <2>11 DEF vars, ChatInv, TypeOK
  <2> QED BY <1>2, <2>1, <2>2, <2>3, <2>4, <2>5, <2>6, <2>7, <2>8, <2>9, <2>10, <2>11
          DEF Next, ChatStep
<1>3. ChatInv /\ [Next]_vars => ChatInv'
  BY <1>2
<1> QED BY <1>1, <1>3, PTL DEF Spec

LEMMA TwoOf ==
  ASSUME NEW i \in Nat, NEW j \in Nat, i < j
  PROVE  Cardinality({i, j}) = 2
<1>1. IsFiniteSet({i}) /\ Cardinality({i}) = 1 /\ j \notin {i}
  BY FS_Singleton
<1>2. {i} \cup {j} = {i, j}
  OBVIOUS
<1>3. Cardinality({i} \cup {j}) = 2
  BY <1>1, FS_AddElement
<1> QED BY <1>2, <1>3

LEMMA OccursTells ==
  ASSUME NEW t \in Turn, NEW p
  PROVE  /\ Silent(t, conv[p]) <=> Occurs(t, p) = {}
         /\ Asked(t, conv[p]) =>
              \E i \in DOMAIN conv[p] :
                /\ Occurs(t, p) = {i} /\ conv[p][i].role = "user"
         /\ Both(t, conv[p]) =>
              \E i, j \in DOMAIN conv[p] :
                /\ i < j /\ Occurs(t, p) = {i, j}
                /\ conv[p][i].role = "user" /\ conv[p][j].role = "assistant"
<1>1. Silent(t, conv[p]) <=> Occurs(t, p) = {}
  BY DEF Silent, Occurs
<1>2. ASSUME Asked(t, conv[p])
      PROVE  \E i \in DOMAIN conv[p] : Occurs(t, p) = {i} /\ conv[p][i].role = "user"
  <2>1. PICK i \in DOMAIN conv[p] :
          /\ conv[p][i].turn = t /\ conv[p][i].role = "user"
          /\ \A j \in DOMAIN conv[p] : conv[p][j].turn = t => j = i
    BY <1>2 DEF Asked
  <2>2. Occurs(t, p) = {i}
    BY <2>1 DEF Occurs
  <2> QED BY <2>1, <2>2
<1>3. ASSUME Both(t, conv[p])
      PROVE  \E i, j \in DOMAIN conv[p] :
                /\ i < j /\ Occurs(t, p) = {i, j}
                /\ conv[p][i].role = "user" /\ conv[p][j].role = "assistant"
  <2>1. PICK i \in DOMAIN conv[p], j \in DOMAIN conv[p] :
          /\ i < j /\ conv[p][i].turn = t /\ conv[p][j].turn = t
          /\ conv[p][i].role = "user" /\ conv[p][j].role = "assistant"
          /\ \A k \in DOMAIN conv[p] : conv[p][k].turn = t => k = i \/ k = j
    BY <1>3 DEF Both
  <2>2. Occurs(t, p) = {i, j}
    BY <2>1 DEF Occurs
  <2> QED BY <2>1, <2>2
<1> QED BY <1>1, <1>2, <1>3

(* What a member says in private, and the answer, never enters the shared  *)
(* conversation of the family, whatever fails (agent.py:69-84, 148-154).   *)
THEOREM PrivateIsKept == Spec => []PrivateStaysOut
<1>1. ASSUME ChatInv
      PROVE  PrivateStaysOut
  <2> SUFFICES ASSUME NEW t \in Turn, turn[t].visibility = "private"
               PROVE  Occurs(t, Shared) = {}
    BY DEF PrivateStaysOut
  <2>1. ~Mine(turn[t], Shared)
    <3>1. CASE turn[t].pc = "idle"
      BY <3>1 DEF Mine
    <3>2. CASE turn[t].pc # "idle"
      BY <1>1, <3>2, TurnIs, PlacesDiffer DEF Mine
    <3> QED BY <3>1, <3>2
  <2>2. Silent(t, conv[Shared])
    BY <1>1, <2>1 DEF ChatInv, TurnOf, ShortTerm
  <2> QED BY <2>2, OccursTells
<1>2. ChatInv => PrivateStaysOut
  BY <1>1
<1> QED BY <1>2, ChatInvHolds, PTL

(* In the member's own conversation a turn is one question, then one       *)
(* answer; an answered turn has both there, and in the shared conversation *)
(* unless it is private (agent.py:69-84, 148-154).                         *)
THEOREM QuestionsThenAnswers == Spec => []QuestionThenAnswer
<1>1. ASSUME ChatInv
      PROVE  QuestionThenAnswer
  <2>1. ASSUME NEW t \in Turn, NEW u \in User
        PROVE  LET places == Occurs(t, Own(u)) IN
               /\ places # {} => t \in TurnsOf(u)
               /\ \A i \in places :
                    (conv[Own(u)][i].role = "user") <=> (\A j \in places : i <= j)
               /\ Cardinality(places) <= 2
               /\ t \in TurnsOf(u) /\ turn[t].pc = "done" =>
                    /\ Cardinality(places) = 2
                    /\ turn[t].visibility # "private" => Cardinality(Occurs(t, Shared)) = 2
    <3>1. Own(u) \in ShortTerm /\ Shared \in ShortTerm
      BY DEF ShortTerm
    <3>2. /\ Mine(turn[t], Own(u)) => Progress(turn[t], t, Own(u), conv[Own(u)])
          /\ ~Mine(turn[t], Own(u)) => Silent(t, conv[Own(u)])
          /\ Mine(turn[t], Shared) => Progress(turn[t], t, Shared, conv[Shared])
      BY <1>1, <3>1 DEF ChatInv, TurnOf
    <3>3. Mine(turn[t], Own(u)) <=> t \in TurnsOf(u)
      <4>1. turn[t].pc # "idle" => turn[t].user \in User
        BY <1>1, TurnIs
      <4> QED BY <4>1, PlacesDiffer DEF Mine, TurnsOf
    <3>4. \/ Silent(t, conv[Own(u)])
          \/ Asked(t, conv[Own(u)])
          \/ Both(t, conv[Own(u)])
      <4>1. CASE turn[t].pc = "idle"
        BY <3>2, <4>1 DEF Mine
      <4>2. CASE turn[t].pc # "idle"
        BY <1>1, <3>2, <4>2, TurnIs DEF Progress, Early, Chatting
      <4> QED BY <4>1, <4>2
    <3>5. DOMAIN conv[Own(u)] \subseteq Nat /\ DOMAIN conv[Shared] \subseteq Nat
      <4>1. \A q \in ShortTerm : conv[q] \in Seq(Message)
        BY <1>1 DEF ChatInv, TypeOK, Place
      <4> QED BY <3>1, <4>1
    <3>6. \A i, j \in Nat : i < j => Cardinality({i, j}) = 2
      BY TwoOf
    <3>7. CASE Silent(t, conv[Own(u)])
      <4>1. Occurs(t, Own(u)) = {}
        BY <3>7, OccursTells
      <4>2. ~Asked(t, conv[Own(u)]) /\ ~Both(t, conv[Own(u)])
        BY <3>7 DEF Silent, Asked, Both
      <4>3. ~(t \in TurnsOf(u) /\ turn[t].pc = "done")
        BY <3>2, <3>3, <4>2 DEF Progress
      <4> QED BY <4>1, <4>3, FS_EmptySet
    <3>8. CASE Asked(t, conv[Own(u)])
      <4>1. PICK i \in Nat : Occurs(t, Own(u)) = {i} /\ conv[Own(u)][i].role = "user"
        BY <3>5, <3>8, OccursTells
      <4>2. ~Silent(t, conv[Own(u)]) /\ ~Both(t, conv[Own(u)])
        <5>1. ~Silent(t, conv[Own(u)])
          BY <3>8 DEF Silent, Asked
        <5>2. ASSUME Both(t, conv[Own(u)])
              PROVE  FALSE
          <6>1. PICK k \in Nat, l \in Nat : k < l /\ Occurs(t, Own(u)) = {k, l}
            BY <3>5, <5>2, OccursTells
          <6> QED BY <4>1, <6>1
        <5> QED BY <5>1, <5>2
      <4>3. t \in TurnsOf(u) /\ turn[t].pc # "done"
        BY <3>2, <3>3, <4>2 DEF Progress
      <4>4. Cardinality(Occurs(t, Own(u))) = 1
        BY <4>1, FS_Singleton
      <4> QED BY <4>1, <4>3, <4>4
    <3>9. CASE Both(t, conv[Own(u)])
      <4>1. PICK i \in Nat, j \in Nat :
              /\ i < j /\ Occurs(t, Own(u)) = {i, j}
              /\ conv[Own(u)][i].role = "user" /\ conv[Own(u)][j].role = "assistant"
        BY <3>5, <3>9, OccursTells
      <4>2. ~Silent(t, conv[Own(u)])
        BY <3>9 DEF Silent, Both
      <4>3. t \in TurnsOf(u)
        BY <3>2, <3>3, <4>2
      <4>4. Cardinality(Occurs(t, Own(u))) = 2
        BY <3>6, <4>1
      <4>5. \A x \in Occurs(t, Own(u)) :
              (conv[Own(u)][x].role = "user") <=> (\A y \in Occurs(t, Own(u)) : x <= y)
        <5>1. conv[Own(u)][i].role = "user" /\ \A y \in {i, j} : i <= y
          BY <4>1
        <5>2. conv[Own(u)][j].role # "user" /\ ~(j <= i)
          BY <4>1
        <5> QED BY <4>1, <5>1, <5>2
      <4>6. ASSUME turn[t].pc = "done", turn[t].visibility # "private"
            PROVE  Cardinality(Occurs(t, Shared)) = 2
        <5>1. Both(t, conv[Shared])
          BY <3>2, <4>6 DEF Mine, Progress
        <5>2. PICK k \in Nat, l \in Nat : k < l /\ Occurs(t, Shared) = {k, l}
          BY <3>5, <5>1, OccursTells
        <5> QED BY <3>6, <5>2
      <4> QED BY <4>3, <4>4, <4>5, <4>6
    <3> QED BY <3>4, <3>7, <3>8, <3>9
  <2> QED BY <1>1, <2>1 DEF QuestionThenAnswer, ChatInv
<1>2. ChatInv => QuestionThenAnswer
  BY <1>1
<1> QED BY <1>2, ChatInvHolds, PTL
=============================================================================
