-------------------------- MODULE WorkflowsProofs --------------------------
(***************************************************************************)
(* Proofs about the workflows over language models, for any number of      *)
(* agents, branches, steps, tasks, categories, turns, calls and tools: the *)
(* invariants of the seven workflows, and that one or the other holds.     *)
(***************************************************************************)
EXTENDS MCWorkflows, Lists, SequenceTheorems, WellFoundedInduction, TLAPS

-----------------------------------------------------------------------------
(* What the steps use of sequences.                                        *)

LEMMA NoElements == \E e : e = <<>> /\ Len(e) = 0 /\ \A S : e \in Seq(S)
<1>1. <<>> = <<>> /\ Len(<<>>) = 0 /\ \A S : <<>> \in Seq(S)
  BY EmptySeq
<1> QED BY <1>1

LEMMA SeveralMore ==
  ASSUME NEW S, NEW s \in Seq(S), NEW more \in Seq(S)
  PROVE  /\ s \o more \in Seq(S)
         /\ Len(s \o more) = Len(s) + Len(more)
         /\ \A j \in 1..Len(s) : (s \o more)[j] = s[j]
         /\ \A j \in 1..Len(more) : (s \o more)[Len(s) + j] = more[j]
<1>1. /\ Len(s) \in Nat /\ Len(more) \in Nat
      /\ s \o more \in Seq(S)
      /\ Len(s \o more) = Len(s) + Len(more)
      /\ \A i \in 1..(Len(s) + Len(more)) :
            (s \o more)[i] = IF i <= Len(s) THEN s[i] ELSE more[i - Len(s)]
  BY ConcatProperties, LenProperties
<1>2. ASSUME NEW j \in 1..Len(s)
      PROVE  (s \o more)[j] = s[j]
  BY <1>1
<1>3. ASSUME NEW j \in 1..Len(more)
      PROVE  (s \o more)[Len(s) + j] = more[j]
  <2>1. Len(s) + j \in 1..(Len(s) + Len(more)) /\ ~(Len(s) + j <= Len(s)) /\ (Len(s) + j) - Len(s) = j
    BY <1>1
  <2> QED BY <1>1, <2>1
<1> QED BY <1>1, <1>2, <1>3

-----------------------------------------------------------------------------
(* Induction over the natural numbers, and what a loop keeps of a list.    *)

(* A set of natural numbers has a least element. *)
LEMMA LeastNat ==
  ASSUME NEW T, T \subseteq Nat, T # {}
  PROVE  \E m \in T : \A k \in T : m <= k
<1>1. IsWellFoundedOn({ss \in Nat \X Nat : ss[1] < ss[2]}, Nat)
  BY NatLessThanWellFounded DEF OpToRel
<1>2. PICK m \in T : \A y \in T : ~ (<<y, m>> \in {ss \in Nat \X Nat : ss[1] < ss[2]})
  BY <1>1, WFMin
<1>3. ASSUME NEW y \in T
      PROVE  m <= y
  <2>1. y \in Nat /\ m \in Nat
    OBVIOUS
  <2>2. ~(y < m)
    BY <1>2, <2>1
  <2> QED BY <2>1, <2>2
<1> QED BY <1>3

(* What the loop has appended after n elements. *)
Appended(f, s, S, n) ==
  f = [i \in 0..n |-> IF i = 0 THEN <<>>
                      ELSE IF s[i] \in S THEN Append(f[i - 1], s[i])
                      ELSE f[i - 1]]

LEMMA AppendedExists ==
  ASSUME NEW s, NEW S, NEW n \in Nat
  PROVE  \E f : Appended(f, s, S, n)
<1> DEFINE T == {k \in Nat : ~\E f : Appended(f, s, S, k)}
<1>1. CASE T = {}
  BY <1>1
<1>2. CASE T # {}
  <2>1. PICK m \in T : \A k \in T : m <= k
    BY <1>2, LeastNat
  <2>2. m \in Nat /\ ~\E f : Appended(f, s, S, m)
    OBVIOUS
  <2> HIDE DEF T
  <2>3. CASE m = 0
    <3>1. PICK f : f = [i \in 0..0 |-> <<>>]
      OBVIOUS
    <3>2. f = [i \in 0..0 |-> IF i = 0 THEN <<>>
                      ELSE IF s[i] \in S THEN Append(f[i - 1], s[i])
                      ELSE f[i - 1]]
      BY <3>1
    <3> QED BY <2>2, <2>3, <3>2 DEF Appended
  <2>4. CASE m # 0
    <3>1. m - 1 \in Nat /\ m - 1 \notin T
      BY <2>1, <2>2, <2>4
    <3>2. PICK g : Appended(g, s, S, m - 1)
      BY <3>1 DEF T
    <3>3. PICK f : f = [i \in 0..m |-> IF i < m THEN g[i]
                                       ELSE IF s[m] \in S THEN Append(g[m - 1], s[m])
                                       ELSE g[m - 1]]
      OBVIOUS
    <3>4. \A i \in 0..(m - 1) : f[i] = g[i]
      BY <2>2, <3>3
    <3>5. ASSUME NEW i \in 0..m
          PROVE  f[i] = IF i = 0 THEN <<>>
                        ELSE IF s[i] \in S THEN Append(f[i - 1], s[i])
                        ELSE f[i - 1]
      <4>1. CASE i = m
        <5>1. f[m] = IF s[m] \in S THEN Append(g[m - 1], s[m]) ELSE g[m - 1]
          BY <2>2, <3>3
        <5>2. f[m - 1] = g[m - 1]
          BY <2>2, <2>4, <3>4
        <5> QED BY <2>4, <4>1, <5>1, <5>2
      <4>2. CASE i # m
        <5>1. i \in 0..(m - 1)
          BY <2>2, <4>2
        <5>2. g[i] = IF i = 0 THEN <<>>
                     ELSE IF s[i] \in S THEN Append(g[i - 1], s[i])
                     ELSE g[i - 1]
          BY <3>2, <5>1 DEF Appended
        <5>3. i # 0 => f[i - 1] = g[i - 1]
          BY <2>2, <3>4, <5>1
        <5> QED BY <3>4, <5>1, <5>2, <5>3
      <4> QED BY <4>1, <4>2
    <3>6. Appended(f, s, S, m)
      <4>1. f = [i \in 0..m |-> f[i]]
        BY <3>3
      <4>2. PICK h : h = [i \in 0..m |-> IF i = 0 THEN <<>>
                      ELSE IF s[i] \in S THEN Append(f[i - 1], s[i])
                      ELSE f[i - 1]]
        OBVIOUS
      <4>3. \A i \in 0..m : f[i] = h[i]
        BY <3>5, <4>2
      <4>4. f = h
        BY <4>1, <4>2, <4>3
      <4> QED BY <4>2, <4>4 DEF Appended
    <3> QED BY <2>2, <3>6
  <2> QED BY <2>3, <2>4
<1> QED BY <1>1, <1>2

LEMMA FilteredIs ==
  ASSUME NEW T, NEW s \in Seq(T), NEW S
  PROVE  \E f : Appended(f, s, S, Len(s)) /\ Filtered(s, S) = f[Len(s)]
<1>1. Len(s) \in Nat
  OBVIOUS
<1>2. PICK f : f = CHOOSE g : Appended(g, s, S, Len(s))
  OBVIOUS
<1>3. Appended(f, s, S, Len(s))
  BY <1>1, <1>2, AppendedExists
<1>4. Filtered(s, S) = f[Len(s)]
  BY <1>2 DEF Filtered, Appended
<1> QED BY <1>3, <1>4

(* Induction up to a bound, over a set. *)
LEMMA Steps ==
  ASSUME NEW N \in Nat, NEW T, 0 \in T, \A k \in 0..N : k \in T /\ k < N => k + 1 \in T
  PROVE  0..N \subseteq T
<1> DEFINE Out == {k \in 0..N : k \notin T}
<1> SUFFICES ASSUME Out # {}
             PROVE  FALSE
  OBVIOUS
<1>1. Out \subseteq Nat
  OBVIOUS
<1>2. PICK m \in Out : \A k \in Out : m <= k
  BY <1>1, LeastNat
<1>3. m \in 0..N /\ m # 0 /\ m \notin T
  OBVIOUS
<1>4. m - 1 \in 0..N /\ m - 1 < m /\ (m - 1) + 1 = m /\ m - 1 < N
  BY <1>3
<1>5. m - 1 \in T
  BY <1>2, <1>4
<1> QED BY <1>3, <1>4, <1>5

(* r is made of the elements of S among the first n of s, in their order; *)
(* e says where each was.                                                  *)
Places(r, e, s, S, n) ==
  /\ r \in Seq(S) /\ e \in [1..Len(r) -> 1..n]
  /\ \A j, k \in 1..Len(r) : j < k => e[j] < e[k]
  /\ \A j \in 1..Len(r) : r[j] = s[e[j]]
  /\ \A i \in 1..n : s[i] \in S => \E j \in 1..Len(r) : e[j] = i
  /\ (\A i \in 1..n : s[i] \in S) => Len(r) = n /\ \A j \in 1..n : e[j] = j

LEMMA PlacesGrow ==
  ASSUME NEW T, NEW s \in Seq(T), NEW S, NEW n \in Nat, n < Len(s),
         NEW r, NEW e, Places(r, e, s, S, n)
  PROVE  \E q, d : /\ q = IF s[n + 1] \in S THEN Append(r, s[n + 1]) ELSE r
                   /\ Places(q, d, s, S, n + 1)
<1>0. r \in Seq(S) /\ Len(r) \in Nat
  BY DEF Places
<1>1. CASE s[n + 1] \notin S
  <2>1. e \in [1..Len(r) -> 1..(n + 1)]
    BY DEF Places
  <2>2. ASSUME NEW i \in 1..(n + 1), s[i] \in S
        PROVE  i \in 1..n
    BY <1>1, <2>2
  <2>3. ~(\A i \in 1..(n + 1) : s[i] \in S)
    BY <1>1
  <2>4. Places(r, e, s, S, n + 1)
    BY <1>0, <2>1, <2>2, <2>3 DEF Places
  <2> QED BY <1>1, <2>4
<1>2. CASE s[n + 1] \in S
  <2>1. PICK q : q = Append(r, s[n + 1])
    OBVIOUS
  <2>2. /\ q \in Seq(S) /\ Len(q) = Len(r) + 1
        /\ \A j \in 1..Len(r) : q[j] = r[j]
        /\ q[Len(r) + 1] = s[n + 1]
    BY <1>0, <1>2, <2>1, AppendProperties
  <2>3. PICK d : d = [j \in 1..(Len(r) + 1) |-> IF j = Len(r) + 1 THEN n + 1 ELSE e[j]]
    OBVIOUS
  <2>4. /\ \A j \in 1..Len(r) : d[j] = e[j] /\ e[j] \in 1..n
        /\ d[Len(r) + 1] = n + 1
    BY <1>0, <2>3 DEF Places
  <2>5. \A j \in 1..Len(q) : j \in 1..Len(r) \/ j = Len(r) + 1
    BY <1>0, <2>2
  <2>6. d \in [1..Len(q) -> 1..(n + 1)]
    <3>1. \A j \in 1..Len(q) : d[j] \in 1..(n + 1)
      BY <2>4, <2>5
    <3>2. d = [j \in 1..Len(q) |-> d[j]]
      BY <2>2, <2>3
    <3> QED BY <3>1, <3>2
  <2>7. \A j, k \in 1..Len(q) : j < k => d[j] < d[k]
    BY <1>0, <2>2, <2>4, <2>5 DEF Places
  <2>8. \A j \in 1..Len(q) : q[j] = s[d[j]]
    BY <1>0, <2>2, <2>4, <2>5 DEF Places
  <2>9. ASSUME NEW i \in 1..(n + 1), s[i] \in S
        PROVE  \E j \in 1..Len(q) : d[j] = i
    <3>1. CASE i = n + 1
      BY <1>0, <2>2, <2>4, <3>1
    <3>2. CASE i \in 1..n
      <4>1. PICK j \in 1..Len(r) : e[j] = i
        BY <2>9, <3>2 DEF Places
      <4> QED BY <1>0, <2>2, <2>4, <4>1
    <3> QED BY <3>1, <3>2
  <2>10. ASSUME \A i \in 1..(n + 1) : s[i] \in S
         PROVE  Len(q) = n + 1 /\ \A j \in 1..(n + 1) : d[j] = j
    <3>1. Len(r) = n /\ \A j \in 1..n : e[j] = j
      BY <2>10 DEF Places
    <3> QED BY <2>2, <2>4, <3>1
  <2>11. Places(q, d, s, S, n + 1)
    BY <2>2, <2>6, <2>7, <2>8, <2>9, <2>10 DEF Places
  <2> QED BY <1>2, <2>1, <2>11
<1> QED BY <1>1, <1>2

LEMMA FilteredPlaces ==
  ASSUME NEW T, NEW s \in Seq(T), NEW S
  PROVE  \E e : Places(Filtered(s, S), e, s, S, Len(s))
<1>1. PICK f : Appended(f, s, S, Len(s)) /\ Filtered(s, S) = f[Len(s)]
  BY FilteredIs
<1>2. PICK N \in Nat : N = Len(s)
  OBVIOUS
<1>3. /\ f[0] = <<>>
      /\ \A k \in 0..N : k < N =>
           f[k + 1] = IF s[k + 1] \in S THEN Append(f[k], s[k + 1]) ELSE f[k]
  <2>1. \A i \in 0..N : f[i] = IF i = 0 THEN <<>>
                      ELSE IF s[i] \in S THEN Append(f[i - 1], s[i])
                      ELSE f[i - 1]
    BY <1>1, <1>2 DEF Appended
  <2>2. 0 \in 0..N
    OBVIOUS
  <2>3. ASSUME NEW k \in 0..N, k < N
        PROVE  f[k + 1] = IF s[k + 1] \in S THEN Append(f[k], s[k + 1]) ELSE f[k]
    <3>1. k + 1 \in 0..N /\ k + 1 # 0 /\ (k + 1) - 1 = k
      BY <2>3
    <3> QED BY <2>1, <3>1
  <2> QED BY <2>1, <2>2, <2>3
<1> DEFINE Good == {k \in 0..N : \E e : Places(f[k], e, s, S, k)}
<1>4. 0 \in Good
  <2>1. PICK e : e = <<>> /\ Len(e) = 0 /\ \A X : e \in Seq(X)
    <3>1. <<>> = <<>> /\ Len(<<>>) = 0 /\ \A X : <<>> \in Seq(X)
      BY EmptySeq
    <3> QED BY <3>1
  <2>2. Len(e) = 0 /\ e \in Seq(S) /\ e \in Seq(1..0)
    BY <2>1
  <2>3. e \in [1..0 -> 1..0]
    BY <2>2
  <2>4. Places(e, e, s, S, 0)
    BY <2>2, <2>3 DEF Places
  <2> QED BY <1>3, <2>1, <2>4
<1>5. ASSUME NEW k \in 0..N, k \in Good, k < N
      PROVE  k + 1 \in Good
  <2>1. PICK e : Places(f[k], e, s, S, k)
    BY <1>5
  <2>2. \E q, d : /\ q = IF s[k + 1] \in S THEN Append(f[k], s[k + 1]) ELSE f[k]
                  /\ Places(q, d, s, S, k + 1)
    <3>1. k \in Nat /\ k < Len(s)
      BY <1>2, <1>5
    <3> QED BY <2>1, <3>1, PlacesGrow
  <2>3. \E d : Places(f[k + 1], d, s, S, k + 1)
    BY <1>3, <1>5, <2>2
  <2> QED BY <1>5, <2>3
<1>6. 0..N \subseteq Good
  BY <1>4, <1>5, Steps
<1>7. N \in Good
  BY <1>6
<1> QED BY <1>1, <1>2, <1>7

-----------------------------------------------------------------------------
(* Orchestrator.                                                           *)

Orchestration ==
  [kind : {"orchestrator"},
   at : {"plan", "enter", "gather", "synthesize", "extract", "done"},
   type : {"full", "iterative"}, structured : BOOLEAN,
   iterations : 0..MaxIterations, planned : Seq(Orchestrate!Step),
   results : Seq([step : Orchestrate!Step, answers : Seq(Nat)]),
   entered : Nat, open : Seq(Registered \ Flows), finished : Seq(1..MaxTasks),
   outcome : {"none", "returned", "raised"}]

(* The results are those of the first steps planned. *)
Follow(results, planned) ==
  /\ Len(results) <= Len(planned)
  /\ \A j \in 1..Len(results) :
       /\ results[j].step = planned[j]
       /\ \A k \in DOMAIN planned[j] : results[j].answers[k] = k

(* Agents are open only while a step is executed, and a step is executed   *)
(* only while one is planned that has no result.                           *)
OrchestrateInv ==
  /\ run \in Orchestration
  /\ run.at \in {"enter", "gather"} =>
       run.iterations < MaxIterations /\ Len(run.results) < Len(run.planned)
  /\ run.at \in {"plan", "synthesize", "done"} => Len(run.open) = 0
  /\ run.at = "plan" => Len(run.results) = Len(run.planned)
  /\ run.at = "extract" => Len(run.open) = 0
  /\ Follow(run.results, run.planned)

LEMMA PlansAreSequences ==
  /\ Orchestrate!Step \subseteq Seq(Registered \cup {Unregistered})
  /\ Orchestrate!Plan \subseteq Seq(Orchestrate!Step)
  /\ \A plan \in Orchestrate!Plan : Len(plan) > 0
<1>1. Orchestrate!Step \subseteq Seq(Registered \cup {Unregistered})
  BY DEF Orchestrate!Step
<1>2. ASSUME NEW plan \in Orchestrate!Plan
      PROVE  plan \in Seq(Orchestrate!Step) /\ Len(plan) > 0
  <2>1. PICK n \in 1..MaxSteps : plan \in [1..n -> Orchestrate!Step]
    BY DEF Orchestrate!Plan
  <2>2. n \in Nat /\ n > 0
    OBVIOUS
  <2> QED BY <2>1, <2>2
<1> QED BY <1>1, <1>2

LEMMA OrchestrateInit == Orchestrate!Init => OrchestrateInv
<1> SUFFICES ASSUME NEW t \in {"full", "iterative"}, NEW s \in BOOLEAN,
                    run = Orchestrate!Started(t, s)
             PROVE  OrchestrateInv
  BY DEF Orchestrate!Init
<1>1. PICK e : e = <<>> /\ Len(e) = 0 /\ \A S : e \in Seq(S)
  BY NoElements
<1>2. 0 \in 0..MaxIterations
  BY IterationsAssumption
<1>3. run = [kind |-> "orchestrator", at |-> "plan", type |-> t,
     structured |-> s, iterations |-> 0, planned |-> e,
     results |-> e, entered |-> 0, open |-> e, finished |-> e,
     outcome |-> "none"]
  BY <1>1 DEF Orchestrate!Started
<1>4. Len(e) = 0 /\ \A S : e \in Seq(S)
  BY <1>1
<1>5. run \in Orchestration /\ run.at = "plan" /\ run.open = e /\ run.results = e /\ run.planned = e
  BY <1>2, <1>3, <1>4 DEF Orchestration
<1>6. Follow(e, e)
  BY <1>4 DEF Follow
<1> QED BY <1>4, <1>5, <1>6 DEF OrchestrateInv

LEMMA OrchestrateRaises == OrchestrateInv /\ Orchestrate!Raise => OrchestrateInv'
<1> SUFFICES ASSUME OrchestrateInv, Orchestrate!Raise PROVE OrchestrateInv'
  OBVIOUS
<1>1. PICK e : e = <<>> /\ Len(e) = 0 /\ \A S : e \in Seq(S)
  BY NoElements
<1>2. run' = [run EXCEPT !.at = "done", !.outcome = "raised", !.open = e]
  BY <1>1 DEF Orchestrate!Raise
<1>3. Len(e) = 0 /\ \A S : e \in Seq(S)
  BY <1>1
<1>4. /\ run' \in Orchestration /\ run'.at = "done" /\ run'.open = e
      /\ run'.results = run.results /\ run'.planned = run.planned
  BY <1>2, <1>3 DEF OrchestrateInv, Orchestration
<1> QED BY <1>3, <1>4 DEF OrchestrateInv

LEMMA OrchestrateStep == OrchestrateInv /\ Orchestrate!Next => OrchestrateInv'
<1> SUFFICES ASSUME OrchestrateInv, Orchestrate!Next
             PROVE  OrchestrateInv'
  OBVIOUS
<1> USE IterationsAssumption
<1>0. run \in Orchestration
  BY DEF OrchestrateInv
<1>1. CASE Orchestrate!GetPlan
  <2>0. run.at = "plan" /\ run.iterations < MaxIterations
    BY <1>1 DEF Orchestrate!GetPlan, Orchestrate!MayTurn, Orchestrate!At
  <2>1. CASE run' = [run EXCEPT !.at = "synthesize"]
    BY <2>0, <2>1 DEF OrchestrateInv, Orchestration
  <2>2. CASE run' = [run EXCEPT !.iterations = @ + 1]
    <3>1. run.iterations + 1 \in 0..MaxIterations
      BY <1>0, <2>0 DEF Orchestration
    <3> QED BY <2>0, <2>2, <3>1 DEF OrchestrateInv, Orchestration
  <2>3. ASSUME NEW plan \in Orchestrate!Plan,
               run' = [run EXCEPT !.at = "enter", !.planned = @ \o plan]
        PROVE  OrchestrateInv'
    <3>0. /\ plan \in Seq(Orchestrate!Step) /\ Len(plan) > 0
          /\ run.planned \in Seq(Orchestrate!Step)
      BY PlansAreSequences DEF OrchestrateInv, Orchestration
    <3>1. PICK p : p = run.planned \o plan
      OBVIOUS
    <3>2. run' = [run EXCEPT !.at = "enter", !.planned = p]
      BY <2>3, <3>1
    <3>4. /\ p \in Seq(Orchestrate!Step)
          /\ Len(p) > Len(run.planned)
          /\ \A j \in 1..Len(run.planned) : p[j] = run.planned[j]
      BY <3>0, <3>1, SeveralMore, LenProperties
    <3>5. /\ run' \in Orchestration /\ run'.at = "enter" /\ run'.open = run.open
          /\ run'.results = run.results /\ run'.planned = p /\ run'.iterations = run.iterations
      BY <3>2, <3>4, <1>0 DEF Orchestration
    <3>6. Len(run.results) \in Nat /\ Len(run.planned) \in Nat /\ Len(p) \in Nat
      BY <1>0, <3>4 DEF Orchestration
    <3>7. Follow(run.results, p) /\ Len(run.results) < Len(p)
      BY <2>0, <3>4, <3>6 DEF OrchestrateInv, Follow
    <3> QED BY <2>0, <3>5, <3>7 DEF OrchestrateInv
  <2> QED BY <1>1, <2>1, <2>2, <2>3 DEF Orchestrate!GetPlan
<1>2. CASE Orchestrate!GiveUp
  BY <1>2, OrchestrateRaises DEF Orchestrate!GiveUp
<1>3. CASE Orchestrate!EnterAgent
  <2>0. run.at = "enter"
    BY <1>3 DEF Orchestrate!EnterAgent, Orchestrate!At
  <2>1. PICK o \in Seq(Registered \ Flows) :
           run' = [run EXCEPT !.entered = run.entered + 1, !.open = o]
    <3>1. ASSUME NEW a, a \in Registered,
                 run' = [run EXCEPT !.entered = @ + 1,
                                    !.open = IF a \in Flows THEN @ ELSE Append(@, a)]
          PROVE  \E o \in Seq(Registered \ Flows) :
                    run' = [run EXCEPT !.entered = run.entered + 1, !.open = o]
      <4>1. (IF a \in Flows THEN run.open ELSE Append(run.open, a)) \in Seq(Registered \ Flows)
        BY <1>0, <3>1 DEF Orchestration
      <4> QED BY <3>1, <4>1
    <3> QED BY <1>3, <3>1 DEF Orchestrate!EnterAgent
  <2>2. run' = [run EXCEPT !.entered = run.entered + 1, !.open = o]
    BY <2>1
  <2>3. run.entered + 1 \in Nat
    BY <1>0 DEF Orchestration
  <2>4. /\ run' \in Orchestration /\ run'.at = run.at /\ run'.iterations = run.iterations
        /\ run'.results = run.results /\ run'.planned = run.planned
    BY <1>0, <2>2, <2>3 DEF Orchestration
  <2> QED BY <2>0, <2>4 DEF OrchestrateInv
<1>4. CASE Orchestrate!EnterRaises
  BY <1>4, OrchestrateRaises DEF Orchestrate!EnterRaises
<1>5. CASE Orchestrate!Execute
  BY <1>5 DEF OrchestrateInv, Orchestration, Orchestrate!Execute, Orchestrate!At
<1>6. ASSUME NEW k \in 1..MaxTasks, Orchestrate!TaskEnds(k)
      PROVE  OrchestrateInv'
  <2>1. run' = [run EXCEPT !.finished = Append(run.finished, k)] /\ run.at = "gather"
    BY <1>6 DEF Orchestrate!TaskEnds, Orchestrate!At
  <2>2. Append(run.finished, k) \in Seq(1..MaxTasks)
    BY <1>0 DEF Orchestration
  <2>3. PICK f \in Seq(1..MaxTasks) : run' = [run EXCEPT !.finished = f]
    BY <2>1, <2>2
  <2>4. /\ run' \in Orchestration /\ run'.at = run.at /\ run'.iterations = run.iterations
        /\ run'.results = run.results /\ run'.planned = run.planned
    BY <1>0, <2>3 DEF Orchestration
  <2> QED BY <2>1, <2>4 DEF OrchestrateInv
<1>7. CASE Orchestrate!StoreResults
  <2> DEFINE Result == [step : Orchestrate!Step, answers : Seq(Nat)]
             n == Len(run.results) + 1
  <2>1. /\ run.at = "gather" /\ n \in 1..Len(run.planned)
        /\ Orchestrate!Current = run.planned[n]
        /\ Orchestrate!Current \in Orchestrate!Step
    BY <1>7 DEF OrchestrateInv, Orchestration, Orchestrate!StoreResults, Orchestrate!At,
       Orchestrate!Current
  <2>2. /\ Orchestrate!Paired \in Seq(Nat)
        /\ \A k \in DOMAIN Orchestrate!Current : Orchestrate!Paired[k] = k
    BY <2>1, PlansAreSequences DEF Orchestrate!Paired, Orchestrate!Tasks
  <2>3. PICK new : new = [step |-> Orchestrate!Current, answers |-> Orchestrate!Paired]
    OBVIOUS
  <2>13. /\ new \in Result
         /\ new.step = run.planned[n]
         /\ \A k \in DOMAIN run.planned[n] : new.answers[k] = k
    BY <2>1, <2>2, <2>3
  <2>4. run.results \in Seq(Result)
    BY <1>0 DEF Orchestration
  <2>5. PICK r : r = Append(run.results, new)
    OBVIOUS
  <2>14. /\ r \in Seq(Result) /\ Len(r) = n
         /\ \A j \in 1..Len(run.results) : r[j] = run.results[j]
         /\ r[n] = new
    BY <2>4, <2>5, <2>13, AppendProperties
  <2>6. PICK e : e = <<>> /\ Len(e) = 0 /\ \A S : e \in Seq(S)
    BY NoElements
  <2>7. PICK at, i : /\ at = IF n = Len(run.planned) THEN "plan" ELSE "enter"
                     /\ i = IF n = Len(run.planned) THEN run.iterations + 1 ELSE run.iterations
    OBVIOUS
  <2>8. run' = [run EXCEPT !.results = r, !.open = e, !.entered = 0, !.finished = e,
                   !.at = at, !.iterations = i]
    BY <1>7, <2>3, <2>5, <2>6, <2>7 DEF Orchestrate!StoreResults
  <2>9. /\ i \in 0..MaxIterations /\ at \in {"plan", "enter"}
        /\ at = "enter" => i < MaxIterations /\ n < Len(run.planned)
        /\ at = "plan" => n = Len(run.planned)
    BY <1>0, <2>1, <2>7 DEF OrchestrateInv, Orchestration
  <2>10. r \in Seq(Result) /\ Len(r) = n /\ Len(e) = 0 /\ \A S : e \in Seq(S)
    BY <2>6, <2>14
  <2>11. /\ run' \in Orchestration /\ run'.at = at /\ run'.iterations = i
         /\ run'.results = r /\ run'.planned = run.planned /\ run'.open = e
    BY <1>0, <2>8, <2>9, <2>10 DEF Orchestration
  <2>12. Follow(r, run.planned)
    <3>1. ASSUME NEW j \in 1..Len(r)
          PROVE  /\ r[j].step = run.planned[j]
                 /\ \A k \in DOMAIN run.planned[j] : r[j].answers[k] = k
      <4>1. CASE j = n
        BY <2>13, <2>14, <4>1
      <4>2. CASE j \in 1..Len(run.results)
        BY <2>14, <4>2 DEF OrchestrateInv, Follow
      <4>3. Len(run.results) \in Nat /\ Len(r) = Len(run.results) + 1
        BY <2>4, <2>10
      <4> QED BY <4>1, <4>2, <4>3
    <3> QED BY <1>0, <2>1, <2>10, <3>1 DEF Follow, Orchestration
  <2> QED BY <2>9, <2>10, <2>11, <2>12 DEF OrchestrateInv
<1>8. CASE Orchestrate!Synthesize
  BY <1>8 DEF OrchestrateInv, Orchestration, Orchestrate!Synthesize, Orchestrate!At
<1>9. CASE Orchestrate!Extract
  BY <1>9, OrchestrateRaises DEF Orchestrate!Extract
<1>10. CASE Orchestrate!PlannerRaises
  BY <1>10, OrchestrateRaises DEF Orchestrate!PlannerRaises
<1> QED BY <1>1, <1>2, <1>3, <1>4, <1>5, <1>6, <1>7, <1>8, <1>9, <1>10 DEF Orchestrate!Next

LEMMA OrchestrateImplies ==
  OrchestrateInv => /\ Orchestrate!TypeOK /\ Orchestrate!ResultsFollowThePlan
                    /\ Orchestrate!AgentsAreClosed
<1> SUFFICES ASSUME OrchestrateInv
             PROVE  /\ Orchestrate!TypeOK /\ Orchestrate!ResultsFollowThePlan
                    /\ Orchestrate!AgentsAreClosed
  OBVIOUS
<1>1. Orchestrate!TypeOK
  BY DEF OrchestrateInv, Orchestration, Orchestrate!TypeOK
<1>2. run.open \in Seq(Registered \ Flows)
  BY DEF OrchestrateInv, Orchestration
<1>3. Orchestrate!AgentsAreClosed
  BY <1>2, EmptySeq DEF OrchestrateInv, Orchestrate!AgentsAreClosed
<1>4. DOMAIN run.results = 1..Len(run.results)
  BY DEF OrchestrateInv, Orchestration
<1>5. Orchestrate!ResultsFollowThePlan
  BY <1>4 DEF OrchestrateInv, Follow, Orchestrate!ResultsFollowThePlan, Orchestrate!At
<1> QED BY <1>1, <1>3, <1>5
-----------------------------------------------------------------------------
(* Parallel.                                                               *)

Asked == {"agent", "flow", "function"}

Fan ==
  [kind : {"parallel"}, at : {"enter", "gather", "aggregate", "ask", "done"},
   branch : [Branches -> Asked], name : [Branches -> Names], fanIn : Asked,
   entered : Nat, open : SUBSET ({0} \cup Branches), finished : Seq(Branches),
   value : [Branches -> Parallel!Value \cup {"none"}],
   prompt : SUBSET (Names \X Branches), outcome : {"none", "returned", "raised"}]

(* What the prompt of the aggregator says of the branches. *)
Heard(prompt, fanIn, value, name) ==
  /\ fanIn # "function" => \A r \in prompt : value[r[2]] # "exception"
  /\ \A r \in prompt : r[1] = name[r[2]]
  /\ \A b \in Branches :
       (\A c \in Branches \ {b} : name[c] # name[b]) => <<name[b], b>> \in prompt

ParallelInv ==
  /\ run \in Fan
  /\ run.at \in {"enter", "gather", "aggregate"} => run.prompt = {}
  /\ run.at \in {"aggregate", "done"} => run.open = {}
  /\ run.at = "ask" => run.open \subseteq {0}
  /\ run.prompt # {} => Heard(run.prompt, run.fanIn, run.value, run.name)

LEMMA ParallelInit == Parallel!Init => ParallelInv
<1> SUFFICES ASSUME NEW branch \in [Branches -> Asked], NEW name \in [Branches -> Names],
                    NEW f \in Asked, run = Parallel!Started(branch, name, f)
             PROVE  ParallelInv
  BY DEF Parallel!Init, Asked
<1>1. PICK e : e = <<>> /\ Len(e) = 0 /\ \A S : e \in Seq(S)
  BY NoElements
<1>2. PICK v \in [Branches -> Parallel!Value \cup {"none"}] : v = [b \in Branches |-> "none"]
  OBVIOUS
<1>3. run = [kind |-> "parallel", at |-> "enter", branch |-> branch, name |-> name,
     fanIn |-> f, entered |-> 0, open |-> {}, finished |-> e,
     value |-> v, prompt |-> {}, outcome |-> "none"]
  BY <1>1, <1>2 DEF Parallel!Started
<1>4. e \in Seq(Branches)
  BY <1>1
<1> QED BY <1>3, <1>4 DEF ParallelInv, Fan

LEMMA ParallelRaises == ParallelInv /\ Parallel!Raise => ParallelInv'
BY DEF ParallelInv, Fan, Parallel!Raise

LEMMA ParallelStep == ParallelInv /\ Parallel!Next => ParallelInv'
<1> SUFFICES ASSUME ParallelInv, Parallel!Next
             PROVE  ParallelInv'
  OBVIOUS
<1> USE BranchesAssumption
<1>0. run \in Fan
  BY DEF ParallelInv
<1>1. CASE Parallel!EnterBranch
  <2>1. PICK b \in Branches, o \in SUBSET ({0} \cup Branches) :
           run' = [run EXCEPT !.entered = b, !.open = o]
    <3>1. ASSUME NEW b, b \in Branches,
                 run' = [run EXCEPT !.entered = b,
                      !.open = IF run.branch[b] = "agent" THEN @ \cup {b} ELSE @]
          PROVE  \E c \in Branches, o \in SUBSET ({0} \cup Branches) :
                    run' = [run EXCEPT !.entered = c, !.open = o]
      <4>1. (IF run.branch[b] = "agent" THEN run.open \cup {b} ELSE run.open)
               \in SUBSET ({0} \cup Branches)
        BY <1>0, <3>1 DEF Fan
      <4> QED BY <3>1, <4>1
    <3> QED BY <1>1, <3>1 DEF Parallel!EnterBranch
  <2>2. run.at = "enter" /\ b \in Nat
    BY <1>1 DEF Parallel!EnterBranch, Parallel!At
  <2> QED BY <2>1, <2>2 DEF ParallelInv, Fan
<1>2. CASE Parallel!EnterRaises
  BY <1>2, ParallelRaises DEF Parallel!EnterRaises
<1>3. CASE Parallel!Execute
  BY <1>3 DEF ParallelInv, Fan, Parallel!Execute, Parallel!At
<1>4. ASSUME NEW b \in Branches, NEW v \in Parallel!Value, Parallel!BranchEnds(b, v)
      PROVE  ParallelInv'
  <2>1. PICK f \in Seq(Branches), w \in [Branches -> Parallel!Value \cup {"none"}] :
           run' = [run EXCEPT !.finished = f, !.value = w]
    <3>1. /\ Append(run.finished, b) \in Seq(Branches)
          /\ [run.value EXCEPT ![b] = v] \in [Branches -> Parallel!Value \cup {"none"}]
      BY <1>0 DEF Fan
    <3>2. run' = [run EXCEPT !.finished = Append(run.finished, b),
                             !.value = [run.value EXCEPT ![b] = v]]
      BY <1>4 DEF Parallel!BranchEnds
    <3> QED BY <3>1, <3>2
  <2>2. run.at = "gather"
    BY <1>4 DEF Parallel!BranchEnds, Parallel!At
  <2> QED BY <2>1, <2>2 DEF ParallelInv, Fan
<1>5. CASE Parallel!CloseBranches
  BY <1>5 DEF ParallelInv, Fan, Parallel!CloseBranches, Parallel!At
<1>6. CASE Parallel!Aggregate
  <2>1. PICK P : P = Parallel!Responses
    OBVIOUS
  <2>2. /\ run.at = "aggregate"
        /\ run.fanIn = "function" \/ Parallel!OneKind
        /\ run' = [run EXCEPT !.at = "ask", !.prompt = P,
                     !.open = IF run.fanIn = "agent" THEN {0} ELSE {}]
    BY <1>6, <2>1 DEF Parallel!Aggregate, Parallel!At
  <2>3. /\ P \subseteq Names \X Branches
        /\ \A r \in P : r[1] = run.name[r[2]]
    BY <1>0, <2>1 DEF Parallel!Responses, Parallel!ResultAt, Fan
  <2>4. run.fanIn # "function" => \A r \in P : run.value[r[2]] # "exception"
    BY <2>1, <2>2 DEF Parallel!OneKind
  <2>5. ASSUME NEW b \in Branches, \A c \in Branches \ {b} : run.name[c] # run.name[b]
        PROVE  <<run.name[b], b>> \in P
    <3>1. \A c \in Branches : c > b => run.name[c] # run.name[b]
      <4>1. \A c \in Branches : c > b => c \in Branches \ {b}
        BY BranchesAssumption
      <4> QED BY <2>5, <4>1
    <3> QED BY <2>1, <3>1 DEF Parallel!Responses, Parallel!ResultAt
  <2>6. Heard(P, run.fanIn, run.value, run.name)
    BY <2>3, <2>4, <2>5 DEF Heard
  <2>9. PICK o : o = IF run.fanIn = "agent" THEN {0} ELSE {}
    OBVIOUS
  <2>7. o \in SUBSET {0} /\ run' = [run EXCEPT !.at = "ask", !.prompt = P, !.open = o]
    <3>1. o \in SUBSET {0}
      BY <2>9
    <3> QED BY <2>2, <2>9, <3>1, Zenon
  <2>8. /\ run' \in Fan /\ run'.at = "ask" /\ run'.prompt = P /\ run'.open \subseteq {0}
        /\ run'.fanIn = run.fanIn /\ run'.value = run.value /\ run'.name = run.name
    BY <1>0, <2>3, <2>7 DEF Fan
  <2> QED BY <2>6, <2>8 DEF ParallelInv
<1>7. CASE Parallel!AggregateRaises
  BY <1>7, ParallelRaises DEF Parallel!AggregateRaises
<1>8. CASE Parallel!Answer
  BY <1>8 DEF ParallelInv, Fan, Parallel!Answer, Parallel!At
<1>9. CASE Parallel!AnswerRaises
  BY <1>9, ParallelRaises DEF Parallel!AnswerRaises
<1> QED BY <1>1, <1>2, <1>3, <1>4, <1>5, <1>6, <1>7, <1>8, <1>9 DEF Parallel!Next

LEMMA ParallelImplies ==
  ParallelInv => Parallel!TypeOK /\ Parallel!EveryBranchIsHeard /\ Parallel!AgentsAreClosed
<1> SUFFICES ASSUME ParallelInv
             PROVE  Parallel!TypeOK /\ Parallel!EveryBranchIsHeard /\ Parallel!AgentsAreClosed
  OBVIOUS
<1>1. Parallel!TypeOK
  BY DEF ParallelInv, Fan, Asked, Parallel!TypeOK
<1>2. Parallel!EveryBranchIsHeard
  BY DEF ParallelInv, Heard, Parallel!EveryBranchIsHeard
<1>3. Parallel!AgentsAreClosed
  BY DEF ParallelInv, Parallel!AgentsAreClosed
<1> QED BY <1>1, <1>2, <1>3
-----------------------------------------------------------------------------
(* Evaluator.                                                              *)

Roles == {"optimizer", "evaluator"}

Refinement ==
  [kind : {"evaluator"}, at : {"generate", "evaluate", "refine", "extract", "done"},
   agents : [Roles -> BOOLEAN], structured : BOOLEAN,
   minRating : Optimize!Rating, limit : 0..MaxRefinements,
   refinements : Nat, response : Nat, best : Nat, bestRating : Optimize!Rating,
   open : SUBSET Roles, history : Seq(Optimize!Rating),
   outcome : {"none", "returned", "raised"}]

(* The answer kept is the first one, or one rated, and none is rated higher. *)
BestOf(best, rating, history) ==
  /\ Len(history) = 0 => best = 1 /\ rating = 0
  /\ Len(history) # 0 => best \in 1..Len(history) /\ history[best] = rating
  /\ \A j \in 1..Len(history) : history[j] <= rating

(* Where the loop stands: how many answers there are, how many are rated.   *)
Counts(b) ==
  /\ b.refinements <= b.limit /\ b.response <= b.refinements + 1
  /\ b.at = "generate" =>
       b.response = 0 /\ b.refinements = 0 /\ b.bestRating = 0 /\ Len(b.history) = 0
  /\ b.at \in {"evaluate", "refine"} =>
       b.refinements < b.limit /\ b.response = b.refinements + 1
  /\ b.at = "evaluate" => Len(b.history) = b.refinements
  /\ b.at = "refine" => Len(b.history) = b.response

OptimizeInv ==
  /\ run \in Refinement
  /\ Counts(run)
  /\ run.at # "done" => run.outcome = "none"
  /\ run.at \in {"extract", "done"} => run.open = {}
  /\ \A x, y \in run.open : x = y
  /\ run.at # "generate" /\ run.outcome # "raised" =>
       BestOf(run.best, run.bestRating, run.history)

LEMMA OptimizeInit == Optimize!Init => OptimizeInv
<1> SUFFICES ASSUME NEW agents \in [Roles -> BOOLEAN], NEW s \in BOOLEAN,
                    NEW r \in Optimize!Rating, NEW n \in 0..MaxRefinements,
                    run = Optimize!Started(agents, s, r, n)
             PROVE  OptimizeInv
  BY DEF Optimize!Init, Roles
<1>1. PICK e : e = <<>> /\ Len(e) = 0 /\ \A S : e \in Seq(S)
  BY NoElements
<1>2. run = [kind |-> "evaluator", at |-> "generate", agents |-> agents,
     structured |-> s, minRating |-> r, limit |-> n,
     refinements |-> 0, response |-> 0, best |-> 0, bestRating |-> 0,
     open |-> {}, history |-> e, outcome |-> "none"]
  BY <1>1 DEF Optimize!Started
<1>3. Len(e) = 0 /\ e \in Seq(Optimize!Rating)
  BY <1>1
<1>4. /\ run \in Refinement /\ run.at = "generate" /\ run.outcome = "none" /\ run.open = {}
      /\ run.history = e /\ run.refinements = 0 /\ run.response = 0 /\ run.limit = n
      /\ run.bestRating = 0
  BY <1>2, <1>3 DEF Refinement, Optimize!Rating
<1>5. n \in Nat
  BY RefinementsAssumption
<1> QED BY <1>3, <1>4, <1>5 DEF OptimizeInv, Counts

LEMMA OptimizeStep == OptimizeInv /\ Optimize!Next => OptimizeInv'
<1> SUFFICES ASSUME OptimizeInv, Optimize!Next
             PROVE  OptimizeInv'
  OBVIOUS
<1> USE RefinementsAssumption
<1>0. run \in Refinement
  BY DEF OptimizeInv
<1>1. CASE Optimize!Enter
  <2>1. PICK x \in Roles : run' = [run EXCEPT !.open = {x}]
    BY <1>1 DEF Optimize!Enter, Optimize!Asked, Roles
  <2>2. run.at \in {"generate", "evaluate", "refine"}
    BY <1>1 DEF Optimize!Enter, Optimize!At
  <2>3. /\ run' \in Refinement /\ run'.at = run.at /\ run'.open = {x}
        /\ run'.outcome = run.outcome /\ run'.best = run.best
        /\ run'.bestRating = run.bestRating /\ run'.history = run.history
        /\ run'.refinements = run.refinements /\ run'.response = run.response
        /\ run'.limit = run.limit
    BY <1>0, <2>1 DEF Refinement
  <2> QED BY <2>2, <2>3 DEF OptimizeInv, Counts
<1>2. CASE Optimize!Generate
  <2>1. run.at = "generate"
    BY <1>2 DEF Optimize!Generate, Optimize!Ready, Optimize!At
  <2>2. PICK at \in {"evaluate", "extract", "done"}, o \in {"none", "returned"} :
          /\ run' = [run EXCEPT !.response = 1, !.best = 1, !.open = {},
                                !.at = at, !.outcome = o]
          /\ at # "done" => o = "none"
          /\ at = "evaluate" => run.limit # 0
    BY <1>2 DEF Optimize!Generate, Optimize!Finish, Optimize!Ends
  <2>3. /\ run' \in Refinement /\ run'.at = at /\ run'.open = {}
        /\ run'.outcome = o /\ run'.best = 1
        /\ run'.bestRating = run.bestRating /\ run'.history = run.history
        /\ run'.refinements = run.refinements /\ run'.response = 1
        /\ run'.limit = run.limit
    BY <1>0, <2>2 DEF Refinement
  <2>4. run.limit \in Nat
    BY <1>0 DEF Refinement
  <2> QED BY <2>1, <2>2, <2>3, <2>4 DEF OptimizeInv, Counts, BestOf
<1>3. ASSUME NEW r \in Optimize!Rating, NEW n \in BOOLEAN, Optimize!Evaluate(r, n)
      PROVE  OptimizeInv'
  <2>1. run.at = "evaluate"
    BY <1>3 DEF Optimize!Evaluate, Optimize!Ready, Optimize!At
  <2>2. PICK at \in {"refine", "extract", "done"}, o \in {"none", "returned"} :
          /\ run' = [run EXCEPT !.open = {}, !.history = Append(run.history, r),
                       !.best = IF r > run.bestRating THEN run.response ELSE run.best,
                       !.bestRating = IF r > run.bestRating THEN r ELSE run.bestRating,
                       !.at = at, !.outcome = o]
          /\ at # "done" => o = "none"
    <3>1. PICK stop \in BOOLEAN : stop = (r >= run.minRating \/ ~n)
      OBVIOUS
    <3>2. run' = [run EXCEPT !.open = {}, !.history = Append(@, r),
                   !.best = IF Optimize!Better(r) THEN run.response ELSE @,
                   !.bestRating = IF Optimize!Better(r) THEN r ELSE @,
                   !.at = IF stop THEN Optimize!Finish ELSE "refine",
                   !.outcome = IF stop THEN Optimize!Ends ELSE "none"]
      BY <1>3, <3>1 DEF Optimize!Evaluate
    <3> QED BY <3>2 DEF Optimize!Better, Optimize!Finish, Optimize!Ends
  <2>3. PICK h : h = Append(run.history, r)
    OBVIOUS
  <2>4. /\ run.history \in Seq(Optimize!Rating) /\ Len(run.history) \in Nat
        /\ run.best \in Nat /\ run.bestRating \in Optimize!Rating /\ run.response \in Nat
        /\ run.refinements \in Nat
    BY <1>0 DEF Refinement
  <2>5. /\ h \in Seq(Optimize!Rating) /\ Len(h) = Len(run.history) + 1
        /\ \A j \in 1..Len(run.history) : h[j] = run.history[j]
        /\ h[Len(run.history) + 1] = r
    BY <2>3, <2>4, AppendProperties
  <2>6. PICK b \in Nat, v \in Optimize!Rating :
           /\ b = IF r > run.bestRating THEN run.response ELSE run.best
           /\ v = IF r > run.bestRating THEN r ELSE run.bestRating
    BY <2>4
  <2>7. run' = [run EXCEPT !.open = {}, !.history = h, !.best = b, !.bestRating = v,
                           !.at = at, !.outcome = o]
    BY <2>2, <2>3, <2>6
  <2>8. /\ run' \in Refinement /\ run'.at = at /\ run'.open = {}
        /\ run'.outcome = o /\ run'.best = b /\ run'.bestRating = v /\ run'.history = h
        /\ run'.refinements = run.refinements /\ run'.response = run.response
        /\ run'.limit = run.limit
    BY <1>0, <2>5, <2>7 DEF Refinement
  <2>9. Counts(run) /\ BestOf(run.best, run.bestRating, run.history) /\ run.response = Len(h)
    BY <2>1, <2>4, <2>5 DEF OptimizeInv, Counts
  <2>10. BestOf(b, v, h)
    <3>1. \A j \in 1..Len(h) : h[j] \in Nat /\ h[j] = IF j = Len(h) THEN r ELSE run.history[j]
      BY <2>4, <2>5 DEF Optimize!Rating
    <3>2. r \in Nat /\ run.bestRating \in Nat
      BY <2>4 DEF Optimize!Rating
    <3>3. b \in 1..Len(h) /\ h[b] = v
      BY <2>4, <2>5, <2>6, <2>9, <3>1, <3>2 DEF BestOf
    <3>4. \A j \in 1..Len(h) : h[j] <= v
      BY <2>4, <2>5, <2>6, <2>9, <3>1, <3>2 DEF BestOf
    <3> QED BY <2>4, <2>5, <3>3, <3>4 DEF BestOf
  <2>11. Counts(run')
    BY <2>1, <2>2, <2>5, <2>8, <2>9, <2>4 DEF Counts
  <2> QED BY <2>2, <2>8, <2>10, <2>11 DEF OptimizeInv
<1>4. CASE Optimize!Refine
  <2>1. run.at = "refine"
    BY <1>4 DEF Optimize!Refine, Optimize!Ready, Optimize!At
  <2>2. PICK at \in {"evaluate", "extract", "done"}, o \in {"none", "returned"} :
          /\ run' = [run EXCEPT !.open = {}, !.response = run.response + 1,
                       !.refinements = run.refinements + 1, !.at = at, !.outcome = o]
          /\ at # "done" => o = "none"
          /\ at = "evaluate" => run.refinements + 1 # run.limit
    <3>1. PICK stop \in BOOLEAN : stop = (run.refinements + 1 = run.limit)
      OBVIOUS
    <3>2. run' = [run EXCEPT !.open = {}, !.response = @ + 1,
                   !.refinements = @ + 1,
                   !.at = IF stop THEN Optimize!Finish ELSE "evaluate",
                   !.outcome = IF stop THEN Optimize!Ends ELSE "none"]
      BY <1>4, <3>1 DEF Optimize!Refine
    <3> QED BY <3>1, <3>2 DEF Optimize!Finish, Optimize!Ends
  <2>3. /\ run.refinements \in Nat /\ run.response \in Nat /\ run.limit \in Nat
        /\ run.refinements + 1 \in Nat /\ run.response + 1 \in Nat
        /\ Len(run.history) \in Nat
    BY <1>0 DEF Refinement
  <2>4. /\ run' \in Refinement /\ run'.at = at /\ run'.open = {}
        /\ run'.outcome = o /\ run'.best = run.best
        /\ run'.bestRating = run.bestRating /\ run'.history = run.history
        /\ run'.refinements = run.refinements + 1 /\ run'.response = run.response + 1
        /\ run'.limit = run.limit
    BY <1>0, <2>2, <2>3 DEF Refinement
  <2>5. Counts(run')
    BY <2>1, <2>2, <2>3, <2>4 DEF OptimizeInv, Counts
  <2> QED BY <2>1, <2>2, <2>4, <2>5 DEF OptimizeInv
<1>5. CASE Optimize!Extract
  <2>1. PICK o \in {"returned", "raised"} : run' = [run EXCEPT !.at = "done", !.outcome = o]
    BY <1>5 DEF Optimize!Extract
  <2>2. run.at = "extract"
    BY <1>5 DEF Optimize!Extract, Optimize!At
  <2>3. /\ run' \in Refinement /\ run'.at = "done" /\ run'.open = run.open
        /\ run'.outcome = o /\ run'.best = run.best
        /\ run'.bestRating = run.bestRating /\ run'.history = run.history
        /\ run'.refinements = run.refinements /\ run'.response = run.response
        /\ run'.limit = run.limit
    BY <1>0, <2>1 DEF Refinement
  <2> QED BY <2>2, <2>3 DEF OptimizeInv, Counts
<1>6. CASE Optimize!RequestRaises
  <2>1. run' = [run EXCEPT !.at = "done", !.outcome = "raised", !.open = {}]
    BY <1>6 DEF Optimize!RequestRaises
  <2>2. /\ run' \in Refinement /\ run'.at = "done" /\ run'.open = {}
        /\ run'.outcome = "raised"
        /\ run'.refinements = run.refinements /\ run'.response = run.response
        /\ run'.limit = run.limit
    BY <1>0, <2>1 DEF Refinement
  <2> QED BY <2>2 DEF OptimizeInv, Counts
<1> QED BY <1>1, <1>2, <1>3, <1>4, <1>5, <1>6 DEF Optimize!Next

LEMMA OptimizeImplies ==
  OptimizeInv => Optimize!TypeOK /\ Optimize!BestWasRated /\ Optimize!AgentsAreClosed
<1> SUFFICES ASSUME OptimizeInv
             PROVE  Optimize!TypeOK /\ Optimize!BestWasRated /\ Optimize!AgentsAreClosed
  OBVIOUS
<1>0. run \in Refinement
  BY DEF OptimizeInv
<1>1. Optimize!TypeOK
  <2>1. run.response \in 0..(MaxRefinements + 1) /\ run.refinements \in 0..run.limit
    BY <1>0, RefinementsAssumption DEF OptimizeInv, Counts, Refinement
  <2> QED BY <1>0, <2>1 DEF Refinement, Roles, Optimize!TypeOK
<1>2. run.history \in Seq(Optimize!Rating) /\ DOMAIN run.history = 1..Len(run.history)
  BY <1>0 DEF Refinement
<1>3. run.history = <<>> <=> Len(run.history) = 0
  BY <1>2, EmptySeq
<1>4. Optimize!BestWasRated
  BY <1>2, <1>3 DEF OptimizeInv, BestOf, Optimize!BestWasRated
<1>5. Optimize!AgentsAreClosed
  BY DEF OptimizeInv, Optimize!AgentsAreClosed
<1> QED BY <1>1, <1>4, <1>5
-----------------------------------------------------------------------------
(* Swarm.                                                                  *)

Handing ==
  [kind : {"swarm"}, at : {"ask", "tools", "done"}, parallel : BOOLEAN,
   agent : SwarmAgents, instruction : SwarmAgents, turns : 0..MaxTurns,
   tools : Seq(HandOver!Tool), phase : Seq(HandOver!Phase), failed : BOOLEAN]

(* Of calls that run one after the other at most one is handing over, and  *)
(* while none is, the instruction is the agent's unless that one failed.   *)
InTurn(phase, tools, agent, instruction, failed) ==
  /\ \A j, k \in 1..Len(phase) : j < k /\ phase[j] # "ended" => phase[k] = "waiting"
  /\ \A k \in 1..Len(phase) : phase[k] = "switching" => agent = tools[k]
  /\ (\A k \in 1..Len(phase) : phase[k] # "switching") /\ ~failed => instruction = agent

HandOverInv ==
  /\ run \in Handing
  /\ Len(run.phase) = Len(run.tools)
  /\ run.at = "ask" => Len(run.phase) = 0
  /\ run.at = "tools" => run.turns < MaxTurns
  /\ \A k \in 1..Len(run.phase) : run.phase[k] = "switching" => run.tools[k] \in SwarmAgents
  /\ ~run.parallel => InTurn(run.phase, run.tools, run.agent, run.instruction, run.failed)

LEMMA HandOverInit == HandOver!Init => HandOverInv
<1> SUFFICES ASSUME NEW a \in SwarmAgents, NEW p \in BOOLEAN, run = HandOver!Started(a, p)
             PROVE  HandOverInv
  BY DEF HandOver!Init
<1>1. PICK e : e = <<>> /\ Len(e) = 0 /\ \A S : e \in Seq(S)
  BY NoElements
<1>2. run = [kind |-> "swarm", at |-> "ask", parallel |-> p, agent |-> a,
     instruction |-> a, turns |-> 0, tools |-> e, phase |-> e, failed |-> FALSE]
  BY <1>1 DEF HandOver!Started
<1>3. Len(e) = 0 /\ \A S : e \in Seq(S)
  BY <1>1
<1>4. 0 \in 0..MaxTurns
  BY TurnsAssumption
<1>5. /\ run \in Handing /\ run.at = "ask" /\ run.phase = e /\ run.tools = e
      /\ run.agent = a /\ run.instruction = a
  BY <1>2, <1>3, <1>4 DEF Handing
<1> QED BY <1>3, <1>5 DEF HandOverInv, InTurn

(* The phase of one call of the message changes. *)
LEMMA PhaseChanges ==
  ASSUME NEW s \in Seq(HandOver!Phase), NEW k \in 1..Len(s), NEW w \in HandOver!Phase
  PROVE  /\ [s EXCEPT ![k] = w] \in Seq(HandOver!Phase)
         /\ Len([s EXCEPT ![k] = w]) = Len(s)
         /\ \A j \in 1..Len(s) : [s EXCEPT ![k] = w][j] = IF j = k THEN w ELSE s[j]
BY ExceptSeq

LEMMA HandOverStep == HandOverInv /\ HandOver!Next => HandOverInv'
<1> SUFFICES ASSUME HandOverInv, HandOver!Next
             PROVE  HandOverInv'
  OBVIOUS
<1> USE TurnsAssumption
<1>0. run \in Handing
  BY DEF HandOverInv
<1>1. /\ run.phase \in Seq(HandOver!Phase) /\ run.tools \in Seq(HandOver!Tool)
      /\ Len(run.phase) \in Nat /\ Len(run.phase) = Len(run.tools)
      /\ DOMAIN run.tools = 1..Len(run.phase)
      /\ \A k \in 1..Len(run.phase) : run.phase[k] \in HandOver!Phase
  BY <1>0 DEF HandOverInv, Handing
<1>2. CASE HandOver!Ask
  <2>1. PICK n \in 0..MaxHandovers : \E tools \in [1..n -> HandOver!Tool] :
         run' = [run EXCEPT !.at = "tools", !.tools = tools,
                            !.phase = [k \in 1..n |-> "waiting"]]
    BY <1>2 DEF HandOver!Ask
  <2>2. PICK tools \in [1..n -> HandOver!Tool] :
         run' = [run EXCEPT !.at = "tools", !.tools = tools,
                            !.phase = [k \in 1..n |-> "waiting"]]
    BY <2>1
  <2>3. PICK p : p = [k \in 1..n |-> "waiting"]
    OBVIOUS
  <2>4. n \in Nat /\ tools \in Seq(HandOver!Tool) /\ Len(tools) = n
    OBVIOUS
  <2>5. p \in Seq(HandOver!Phase) /\ Len(p) = n /\ \A k \in 1..n : p[k] = "waiting"
    BY <2>3, <2>4 DEF HandOver!Phase
  <2>6. run' = [run EXCEPT !.at = "tools", !.tools = tools, !.phase = p]
    BY <2>2, <2>3
  <2>9. run.turns < MaxTurns
    BY <1>2 DEF HandOver!Ask
  <2>7. /\ run' \in Handing /\ run'.at = "tools" /\ run'.phase = p /\ run'.tools = tools
        /\ run'.agent = run.agent /\ run'.instruction = run.instruction
        /\ run'.turns = run.turns /\ run'.parallel = run.parallel /\ run'.failed = run.failed
    BY <1>0, <2>4, <2>5, <2>6 DEF Handing
  <2>8. Len(run.phase) = 0
    BY <1>2 DEF HandOverInv, HandOver!Ask, HandOver!At
  <2> QED BY <2>4, <2>5, <2>7, <2>8, <2>9 DEF HandOverInv, InTurn
<1>3. CASE HandOver!Return \/ HandOver!AskRaises
  <2>1. run' = [run EXCEPT !.at = "done"]
    BY <1>3 DEF HandOver!Return, HandOver!AskRaises
  <2> QED BY <1>0, <2>1 DEF HandOverInv, Handing
<1>4. ASSUME NEW k \in 1..MaxHandovers, HandOver!RunTool(k)
      PROVE  HandOverInv'
  <2>1. PICK p : p = [run.phase EXCEPT ![k] = "ended"]
    OBVIOUS
  <2>2. /\ k \in 1..Len(run.phase) /\ run.at = "tools" /\ run.phase[k] = "waiting"
        /\ run' = [run EXCEPT !.phase = p]
    BY <1>1, <1>4, <2>1 DEF HandOver!RunTool, HandOver!MayStart, HandOver!At
  <2>3. ~run.parallel => \A j \in 1..(k - 1) : run.phase[j] = "ended"
    BY <1>4 DEF HandOver!RunTool, HandOver!MayStart
  <2>4. /\ p \in Seq(HandOver!Phase) /\ Len(p) = Len(run.phase)
        /\ \A j \in 1..Len(p) : p[j] = IF j = k THEN "ended" ELSE run.phase[j]
    BY <1>1, <2>1, <2>2, PhaseChanges DEF HandOver!Phase
  <2>5. /\ run' \in Handing /\ run'.at = "tools" /\ run'.phase = p /\ run'.tools = run.tools
        /\ run'.agent = run.agent /\ run'.instruction = run.instruction
        /\ run'.turns = run.turns /\ run'.parallel = run.parallel /\ run'.failed = run.failed
    BY <1>0, <2>2, <2>4 DEF Handing
  <2>6. ASSUME ~run.parallel
        PROVE  InTurn(p, run.tools, run.agent, run.instruction, run.failed)
    <3>1. InTurn(run.phase, run.tools, run.agent, run.instruction, run.failed)
      BY <2>6 DEF HandOverInv
    <3>2. \A i, j \in 1..Len(p) : i < j /\ p[i] # "ended" => p[j] = "waiting"
      BY <1>1, <2>2, <2>3, <2>4, <2>6, <3>1 DEF InTurn
    <3>3. \A j \in 1..Len(p) : p[j] = "switching" <=> run.phase[j] = "switching"
      BY <1>1, <2>2, <2>4
    <3> QED BY <2>4, <3>1, <3>2, <3>3 DEF InTurn
  <2>7. /\ Len(run'.phase) = Len(run'.tools)
        /\ run'.at # "ask" /\ (run'.at = "tools" => run'.turns < MaxTurns)
        /\ \A j \in 1..Len(run'.phase) : run'.phase[j] = "switching" => run'.tools[j] \in SwarmAgents
    BY <1>1, <2>2, <2>4, <2>5 DEF HandOverInv
  <2>8. ~run'.parallel => InTurn(run'.phase, run'.tools, run'.agent, run'.instruction, run'.failed)
    BY <2>5, <2>6, Zenon
  <2> QED BY <2>5, <2>7, <2>8 DEF HandOverInv
<1>5. ASSUME NEW k \in 1..MaxHandovers, HandOver!BeginSwitch(k)
      PROVE  HandOverInv'
  <2>1. PICK p : p = [run.phase EXCEPT ![k] = "switching"]
    OBVIOUS
  <2>2. /\ k \in 1..Len(run.phase) /\ run.at = "tools" /\ run.phase[k] = "waiting"
        /\ run.tools[k] \in SwarmAgents
        /\ run' = [run EXCEPT !.agent = run.tools[k], !.phase = p]
    BY <1>1, <1>5, <2>1 DEF HandOver!BeginSwitch, HandOver!MayStart, HandOver!At, HandOver!SwitchPhase
  <2>3. ~run.parallel => \A j \in 1..(k - 1) : run.phase[j] = "ended"
    BY <1>5 DEF HandOver!BeginSwitch, HandOver!MayStart
  <2>4. /\ p \in Seq(HandOver!Phase) /\ Len(p) = Len(run.phase)
        /\ \A j \in 1..Len(p) : p[j] = IF j = k THEN "switching" ELSE run.phase[j]
    BY <1>1, <2>1, <2>2, PhaseChanges DEF HandOver!Phase
  <2>5. /\ run' \in Handing /\ run'.at = "tools" /\ run'.phase = p /\ run'.tools = run.tools
        /\ run'.agent = run.tools[k] /\ run'.instruction = run.instruction
        /\ run'.turns = run.turns /\ run'.parallel = run.parallel /\ run'.failed = run.failed
    BY <1>0, <2>2, <2>4 DEF Handing
  <2>6. ASSUME ~run.parallel
        PROVE  InTurn(p, run.tools, run.tools[k], run.instruction, run.failed)
    <3>1. \A j \in 1..Len(p) : j < k => p[j] = "ended"
      BY <1>1, <2>2, <2>3, <2>4, <2>6
    <3>2. \A j \in 1..Len(p) : j > k => p[j] = "waiting"
      BY <1>1, <2>2, <2>4, <2>6 DEF HandOverInv, InTurn
    <3> QED BY <1>1, <2>2, <2>4, <3>1, <3>2 DEF InTurn
  <2>7. /\ Len(run'.phase) = Len(run'.tools)
        /\ run'.at # "ask" /\ (run'.at = "tools" => run'.turns < MaxTurns)
        /\ \A j \in 1..Len(run'.phase) : run'.phase[j] = "switching" => run'.tools[j] \in SwarmAgents
    BY <1>1, <2>2, <2>4, <2>5 DEF HandOverInv
  <2>8. ~run'.parallel => InTurn(run'.phase, run'.tools, run'.agent, run'.instruction, run'.failed)
    BY <2>5, <2>6, Zenon
  <2> QED BY <2>5, <2>7, <2>8 DEF HandOverInv
<1>6. ASSUME NEW k \in 1..MaxHandovers, HandOver!FinishSwitch(k)
      PROVE  HandOverInv'
  <2>1. PICK p : p = [run.phase EXCEPT ![k] = "ended"]
    OBVIOUS
  <2>2. /\ k \in 1..Len(run.phase) /\ run.at = "tools" /\ run.phase[k] = "switching"
        /\ run' = [run EXCEPT !.instruction = run.tools[k], !.phase = p, !.failed = FALSE]
    BY <1>1, <1>6, <2>1 DEF HandOver!FinishSwitch, HandOver!At
  <2>4. /\ p \in Seq(HandOver!Phase) /\ Len(p) = Len(run.phase)
        /\ \A j \in 1..Len(p) : p[j] = IF j = k THEN "ended" ELSE run.phase[j]
    BY <1>1, <2>1, <2>2, PhaseChanges DEF HandOver!Phase
  <2>3. run.tools[k] \in SwarmAgents
    BY <2>2 DEF HandOverInv
  <2>5. /\ run' \in Handing /\ run'.at = "tools" /\ run'.phase = p /\ run'.tools = run.tools
        /\ run'.agent = run.agent /\ run'.instruction = run.tools[k]
        /\ run'.turns = run.turns /\ run'.parallel = run.parallel /\ run'.failed = FALSE
    BY <1>0, <2>2, <2>3, <2>4 DEF Handing
  <2>6. ASSUME ~run.parallel
        PROVE  InTurn(p, run.tools, run.agent, run.tools[k], FALSE)
    BY <1>1, <2>2, <2>4, <2>6 DEF HandOverInv, InTurn
  <2>7. /\ Len(run'.phase) = Len(run'.tools)
        /\ run'.at # "ask" /\ (run'.at = "tools" => run'.turns < MaxTurns)
        /\ \A j \in 1..Len(run'.phase) : run'.phase[j] = "switching" => run'.tools[j] \in SwarmAgents
    BY <1>1, <2>2, <2>4, <2>5 DEF HandOverInv
  <2>8. ~run'.parallel => InTurn(run'.phase, run'.tools, run'.agent, run'.instruction, run'.failed)
    BY <2>5, <2>6, Zenon
  <2> QED BY <2>5, <2>7, <2>8 DEF HandOverInv
<1>7. ASSUME NEW k \in 1..MaxHandovers, HandOver!SwitchFails(k)
      PROVE  HandOverInv'
  <2>1. PICK p : p = [run.phase EXCEPT ![k] = "ended"]
    OBVIOUS
  <2>2. /\ k \in 1..Len(run.phase) /\ run.at = "tools" /\ run.phase[k] = "switching"
        /\ run' = [run EXCEPT !.failed = TRUE, !.phase = p]
    BY <1>1, <1>7, <2>1 DEF HandOver!SwitchFails, HandOver!At
  <2>4. /\ p \in Seq(HandOver!Phase) /\ Len(p) = Len(run.phase)
        /\ \A j \in 1..Len(p) : p[j] = IF j = k THEN "ended" ELSE run.phase[j]
    BY <1>1, <2>1, <2>2, PhaseChanges DEF HandOver!Phase
  <2>5. /\ run' \in Handing /\ run'.at = "tools" /\ run'.phase = p /\ run'.tools = run.tools
        /\ run'.agent = run.agent /\ run'.instruction = run.instruction
        /\ run'.turns = run.turns /\ run'.parallel = run.parallel /\ run'.failed = TRUE
    BY <1>0, <2>2, <2>4 DEF Handing
  <2>6. ASSUME ~run.parallel
        PROVE  InTurn(p, run.tools, run.agent, run.instruction, TRUE)
    BY <1>1, <2>2, <2>4, <2>6 DEF HandOverInv, InTurn
  <2>7. /\ Len(run'.phase) = Len(run'.tools)
        /\ run'.at # "ask" /\ (run'.at = "tools" => run'.turns < MaxTurns)
        /\ \A j \in 1..Len(run'.phase) : run'.phase[j] = "switching" => run'.tools[j] \in SwarmAgents
    BY <1>1, <2>2, <2>4, <2>5 DEF HandOverInv
  <2>8. ~run'.parallel => InTurn(run'.phase, run'.tools, run'.agent, run'.instruction, run'.failed)
    BY <2>5, <2>6, Zenon
  <2> QED BY <2>5, <2>7, <2>8 DEF HandOverInv
<1>8. CASE HandOver!EndTurn
  <2>1. PICK e : e = <<>> /\ Len(e) = 0 /\ \A S : e \in Seq(S)
    BY NoElements
  <2>2. /\ run.at = "tools" /\ \A k \in 1..Len(run.phase) : run.phase[k] = "ended"
        /\ run' = [run EXCEPT !.at = "ask", !.turns = run.turns + 1, !.tools = e, !.phase = e]
    BY <1>1, <1>8, <2>1 DEF HandOver!EndTurn, HandOver!At, HandOver!Counted
  <2>3. Len(e) = 0 /\ \A S : e \in Seq(S)
    BY <2>1
  <2>4. run.turns + 1 \in 0..MaxTurns
    BY <1>0, <2>2 DEF HandOverInv, Handing
  <2>5. /\ run' \in Handing /\ run'.at = "ask" /\ run'.phase = e /\ run'.tools = e
        /\ run'.agent = run.agent /\ run'.instruction = run.instruction
        /\ run'.parallel = run.parallel /\ run'.failed = run.failed
    BY <1>0, <2>2, <2>3, <2>4 DEF Handing
  <2>6. ASSUME ~run.parallel
        PROVE  InTurn(e, e, run.agent, run.instruction, run.failed)
    BY <2>2, <2>3, <2>6 DEF HandOverInv, InTurn
  <2> QED BY <2>3, <2>5, <2>6 DEF HandOverInv
<1> QED BY <1>2, <1>3, <1>4, <1>5, <1>6, <1>7, <1>8 DEF HandOver!Next

LEMMA HandOverImplies == HandOverInv => HandOver!TypeOK /\ HandOver!InstructionIsAgents
BY DEF HandOverInv, Handing, InTurn, HandOver!TypeOK, HandOver!InstructionIsAgents, HandOver!At
-----------------------------------------------------------------------------
(* Router.                                                                 *)

Routing ==
  [kind : {"router"}, at : {"start", "ask", "done"},
   named : [Route!Kinds -> SUBSET CategoryNames], wanted : SUBSET Route!Kinds,
   top : 1..MaxTop, shown : SUBSET CategoryNames,
   answer : Seq(CategoryNames \cup {"unknown"}),
   result : Seq(Route!Kinds \X CategoryNames),
   outcome : {"none", "returned", "raised"}]

Distinct(named) == \A k, l \in Route!Kinds : k # l => named[k] \cap named[l] = {}

(* The routes are those of the answer. *)
Leads(result, answer, b) ==
  /\ \A j \in 1..Len(result) : result[j][2] \in b.named[result[j][1]]
  /\ Route!Range(answer) \subseteq b.shown =>
       /\ Len(result) = IF Len(answer) < b.top THEN Len(answer) ELSE b.top
       /\ \A j \in 1..Len(result) : result[j][2] = answer[j]
       /\ Distinct(b.named) => \A j \in 1..Len(result) : result[j][1] \in b.wanted

RouteInv ==
  /\ run \in Routing
  /\ run.at # "done" => run.outcome = "none"
  /\ run.at = "ask" => run.shown = UNION {run.named[k] : k \in run.wanted}
  /\ run.outcome = "returned" => Leads(run.result, run.answer, run)

LEMMA RouteInit == Route!Init => RouteInv
<1> SUFFICES ASSUME NEW named \in [Route!Kinds -> SUBSET CategoryNames],
                    NEW top \in 1..MaxTop, NEW wanted \in SUBSET Route!Kinds,
                    run = Route!Started(named, wanted, top)
             PROVE  RouteInv
  BY DEF Route!Init
<1>1. PICK e : e = <<>> /\ Len(e) = 0 /\ \A S : e \in Seq(S)
  BY NoElements
<1>2. run = [kind |-> "router", at |-> "start", named |-> named, wanted |-> wanted,
     top |-> top, shown |-> {}, answer |-> e, result |-> e, outcome |-> "none"]
  BY <1>1 DEF Route!Started
<1>3. \A S : e \in Seq(S)
  BY <1>1
<1> QED BY <1>2, <1>3 DEF RouteInv, Routing

LEMMA SameFilter ==
  ASSUME NEW s, NEW S
  PROVE  Route!Filtered(s, S) = Filtered(s, S)
BY DEF Route!Filtered, Filtered

LEMMA RoutedLeads ==
  ASSUME run \in Routing, run.shown = UNION {run.named[k] : k \in run.wanted},
         NEW answer \in Seq(CategoryNames \cup {"unknown"})
  PROVE  /\ Route!Routed(answer) \in Seq(Route!Kinds \X CategoryNames)
         /\ Leads(Route!Routed(answer), answer, run)
<1>1. PICK kept : kept = Filtered(answer, Route!Known)
  OBVIOUS
<1>2. PICK e : Places(kept, e, answer, Route!Known, Len(answer))
  BY <1>1, FilteredPlaces
<1>3. /\ kept \in Seq(Route!Known) /\ Len(kept) \in Nat /\ Len(answer) \in Nat
      /\ DOMAIN kept = 1..Len(kept)
      /\ \A j \in 1..Len(kept) : kept[j] \in Route!Known
  BY <1>2 DEF Places
<1>4. PICK all : all = [j \in DOMAIN kept |-> <<Route!CategoryOf(kept[j]), kept[j]>>]
  OBVIOUS
<1>5. ASSUME NEW n \in Route!Known
      PROVE  /\ n \in CategoryNames /\ Route!CategoryOf(n) \in Route!Kinds
             /\ n \in run.named[Route!CategoryOf(n)]
  <2>1. PICK k \in Route!Kinds : n \in run.named[k]
    BY <1>5 DEF Route!Known
  <2>2. n \in CategoryNames
    BY <2>1 DEF Routing
  <2> QED BY <2>1, <2>2 DEF Route!CategoryOf, Route!Kinds
<1>6. /\ all \in Seq(Route!Kinds \X CategoryNames) /\ Len(all) = Len(kept)
      /\ \A j \in 1..Len(all) : all[j][1] = Route!CategoryOf(kept[j]) /\ all[j][2] = kept[j]
  BY <1>3, <1>4, <1>5
<1>7. PICK r : r = Route!Routed(answer)
  OBVIOUS
<1>8. r = IF Len(all) > run.top THEN SubSeq(all, 1, run.top) ELSE all
  BY <1>1, <1>4, <1>7, SameFilter DEF Route!Routed
<1>9. run.top \in Nat /\ run.top > 0
  BY DEF Routing
<1>10. /\ r \in Seq(Route!Kinds \X CategoryNames)
       /\ Len(r) = IF Len(all) > run.top THEN run.top ELSE Len(all)
       /\ \A j \in 1..Len(r) : r[j] = all[j]
  <2>1. CASE Len(all) > run.top
    <3>1. /\ 1 \in 1..(Len(all) + 1) /\ run.top \in 1 - 1..Len(all)
          /\ \A j \in 1..run.top : (1 + j) - 1 = j
      BY <1>3, <1>6, <1>9, <2>1
    <3> QED BY <1>3, <1>6, <1>8, <1>9, <2>1, <3>1, SubSeqProperties
  <2>2. CASE ~(Len(all) > run.top)
    BY <1>6, <1>8, <2>2
  <2> QED BY <2>1, <2>2
<1>11. \A j \in 1..Len(r) : /\ r[j][1] = Route!CategoryOf(kept[j]) /\ r[j][2] = kept[j]
                            /\ j \in 1..Len(kept) /\ kept[j] \in Route!Known
  BY <1>3, <1>6, <1>9, <1>10
<1>12. \A j \in 1..Len(r) : r[j][2] \in run.named[r[j][1]]
  BY <1>5, <1>11
<1>13. ASSUME Route!Range(answer) \subseteq run.shown
       PROVE  /\ Len(r) = IF Len(answer) < run.top THEN Len(answer) ELSE run.top
              /\ \A j \in 1..Len(r) : r[j][2] = answer[j]
              /\ Distinct(run.named) => \A j \in 1..Len(r) : r[j][1] \in run.wanted
  <2>1. \A i \in 1..Len(answer) : answer[i] \in run.shown
    <3>1. DOMAIN answer = 1..Len(answer)
      OBVIOUS
    <3> QED BY <1>13, <3>1 DEF Route!Range
  <2>2. run.shown \subseteq Route!Known
    BY DEF Route!Known, Routing
  <2>3. Len(kept) = Len(answer) /\ \A j \in 1..Len(answer) : kept[j] = answer[j]
    BY <1>2, <2>1, <2>2 DEF Places
  <2>4. Len(r) = IF Len(answer) < run.top THEN Len(answer) ELSE run.top
    BY <1>3, <1>6, <1>9, <1>10, <2>3
  <2>5. \A j \in 1..Len(r) : j \in 1..Len(answer) /\ r[j][2] = answer[j]
    BY <1>11, <2>3
  <2>6. ASSUME Distinct(run.named), NEW j \in 1..Len(r)
        PROVE  r[j][1] \in run.wanted
    <3>1. answer[j] \in run.shown /\ kept[j] = answer[j]
      BY <2>1, <2>3, <2>5
    <3>2. PICK k \in run.wanted : answer[j] \in run.named[k]
      BY <3>1
    <3>3. k \in Route!Kinds
      BY <3>2 DEF Routing
    <3>4. r[j][1] \in Route!Kinds /\ answer[j] \in run.named[r[j][1]]
      BY <1>5, <1>11, <3>1
    <3>5. r[j][1] = k
      BY <2>6, <3>2, <3>3, <3>4 DEF Distinct
    <3> QED BY <3>5
  <2> QED BY <2>4, <2>5, <2>6
<1> QED BY <1>7, <1>10, <1>12, <1>13 DEF Leads

LEMMA RouteStep == RouteInv /\ Route!Next => RouteInv'
<1> SUFFICES ASSUME RouteInv, Route!Next
             PROVE  RouteInv'
  OBVIOUS
<1>0. run \in Routing
  BY DEF RouteInv
<1>1. CASE Route!Initialize
  <2>1. run.at = "start" /\ run.outcome = "none"
    BY <1>1 DEF RouteInv, Route!Initialize, Route!At
  <2>2. CASE run' = [run EXCEPT !.at = "ask", !.shown = UNION {run.named[k] : k \in run.wanted}]
    <3>0. PICK S : S = UNION {run.named[k] : k \in run.wanted}
      OBVIOUS
    <3>1. S \subseteq CategoryNames
      BY <1>0, <3>0 DEF Routing
    <3>2. run' = [run EXCEPT !.at = "ask", !.shown = S]
      BY <2>2, <3>0
    <3>3. /\ run' \in Routing /\ run'.at = "ask" /\ run'.shown = S /\ run'.named = run.named
          /\ run'.wanted = run.wanted /\ run'.outcome = "none"
      BY <1>0, <2>1, <3>1, <3>2 DEF Routing
    <3> QED BY <3>0, <3>3 DEF RouteInv
  <2>3. CASE run' = [run EXCEPT !.at = "done", !.outcome = "raised"]
    BY <1>0, <2>3 DEF RouteInv, Routing
  <2> QED BY <1>1, <2>2, <2>3 DEF Route!Initialize
<1>2. CASE Route!ModelNames
  <2>1. run.at = "ask"
    BY <1>2 DEF Route!ModelNames, Route!At
  <2>2. PICK n \in 0..MaxNamed : \E answer \in [1..n -> CategoryNames \cup {"unknown"}] :
         run' = [run EXCEPT !.at = "done", !.outcome = "returned",
                            !.answer = answer, !.result = Route!Routed(answer)]
    BY <1>2 DEF Route!ModelNames
  <2>3. PICK answer \in [1..n -> CategoryNames \cup {"unknown"}] :
         run' = [run EXCEPT !.at = "done", !.outcome = "returned",
                            !.answer = answer, !.result = Route!Routed(answer)]
    BY <2>2
  <2>4. n \in Nat /\ answer \in Seq(CategoryNames \cup {"unknown"})
    OBVIOUS
  <2>5. PICK r : r = Route!Routed(answer)
    OBVIOUS
  <2>6. r \in Seq(Route!Kinds \X CategoryNames) /\ Leads(r, answer, run)
    BY <1>0, <2>1, <2>4, <2>5, RoutedLeads DEF RouteInv
  <2>7. run' = [run EXCEPT !.at = "done", !.outcome = "returned", !.answer = answer, !.result = r]
    BY <2>3, <2>5
  <2>8. /\ run' \in Routing /\ run'.at = "done" /\ run'.answer = answer /\ run'.result = r
        /\ run'.named = run.named /\ run'.wanted = run.wanted /\ run'.shown = run.shown
        /\ run'.top = run.top
    BY <1>0, <2>4, <2>6, <2>7 DEF Routing
  <2>9. Leads(r, answer, run')
    BY <2>6, <2>8 DEF Leads
  <2> QED BY <2>8, <2>9 DEF RouteInv
<1>3. CASE Route!ModelRaises
  BY <1>0, <1>3 DEF RouteInv, Routing, Route!ModelRaises
<1> QED BY <1>1, <1>2, <1>3 DEF Route!Next

LEMMA RouteImplies == RouteInv => Route!TypeOK /\ Route!RoutesAreRegistered
<1> SUFFICES ASSUME RouteInv
             PROVE  Route!TypeOK /\ Route!RoutesAreRegistered
  OBVIOUS
<1>1. Route!TypeOK
  BY DEF RouteInv, Routing, Route!TypeOK
<1>2. DOMAIN run.result = 1..Len(run.result)
  BY DEF RouteInv, Routing
<1>3. Route!RoutesAreRegistered
  BY <1>2 DEF RouteInv, Leads, Distinct, Route!RoutesAreRegistered
<1> QED BY <1>1, <1>3
-----------------------------------------------------------------------------
(* Model selector.                                                         *)

LEMMA Product ==
  ASSUME NEW k \in Nat, NEW a \in Nat
  PROVE  k * a \in Nat /\ (k > 0 /\ a > 0 => k * a > 0)
OBVIOUS

LEMMA Grows ==
  ASSUME NEW k \in Nat, NEW a \in Nat, NEW b \in Nat, a <= b
  PROVE  k * a <= k * b /\ (k > 0 /\ a < b => k * a < k * b)
OBVIOUS

LEMMA Weighed ==
  ASSUME NEW p \in Nat, NEW a \in Nat, NEW b \in Nat, NEW w \in Nat, NEW u \in Nat,
         w > 0, u > 0, a <= b
  PROVE  /\ p * a * w * u \in Nat /\ p * b * w * u \in Nat
         /\ p * a * w * u <= p * b * w * u
         /\ p > 0 /\ a < b => p * a * w * u < p * b * w * u
<1>1. PICK c \in Nat : c = p * a
  OBVIOUS
<1>2. PICK d \in Nat : d = p * b
  OBVIOUS
<1>3. c <= d /\ (p > 0 /\ a < b => c < d)
  BY <1>1, <1>2, Grows
<1>4. PICK e \in Nat : e = w * u
  OBVIOUS
<1>5. e > 0
  BY <1>4, Product
<1>6. p * a * w * u = e * c /\ p * b * w * u = e * d
  BY <1>1, <1>2, <1>4
<1>7. e * c <= e * d /\ (c < d => e * c < e * d)
  BY <1>3, <1>5, Grows
<1>8. e * c \in Nat /\ e * d \in Nat
  OBVIOUS
<1> QED BY <1>3, <1>6, <1>7, <1>8

LEMMA LargestIs ==
  ASSUME NEW S, NEW a \in Nat, NEW b \in Nat, S = {a, b}
  PROVE  Choose!Max(S) \in S /\ \A x \in S : x <= Choose!Max(S)
<1>1. \E x \in S : \A y \in S : x >= y
  OBVIOUS
<1>2. PICK z : z = Choose!Max(S)
  OBVIOUS
<1>3. z = CHOOSE x \in S : \A y \in S : x >= y
  BY <1>2 DEF Choose!Max
<1>4. z \in S /\ \A y \in S : z >= y
  BY <1>1, <1>3
<1> QED BY <1>2, <1>4

Selection ==
  [kind : {"selector"}, at : {"start", "done"}, models : [1..2 -> Profiles],
   hinted : SUBSET (1..2), priority : [{"cost", "speed", "skill"} -> Priorities],
   chosen : 0..2, outcome : {"none", "returned", "raised"}]

ChooseInv ==
  /\ run \in Selection
  /\ run.at = "start" => run.outcome = "none"
  /\ Choose!ChoiceIsUndominated

LEMMA ChooseInit == Choose!Init => ChooseInv
BY DEF Choose!Init, Choose!Started, ChooseInv, Selection, Choose!ChoiceIsUndominated

LEMMA LargestOf ==
  ASSUME run \in Selection
  PROVE  /\ Choose!Largest("cost") \in Nat
         /\ \A m \in 1..2 : run.models[m].cost \in Nat /\ run.models[m].cost <= Choose!Largest("cost")
         /\ Choose!Scale("delay") \in Nat /\ Choose!Scale("delay") > 0
         /\ \A m \in 1..2 : run.models[m].delay \in Nat /\ run.models[m].delay <= Choose!Scale("delay")
         /\ Choose!Scale("rate") \in Nat /\ Choose!Scale("rate") > 0
         /\ \A m \in 1..2 : run.models[m].rate \in Nat
         /\ Choose!Scale("skill") \in Nat /\ Choose!Scale("skill") > 0
         /\ \A m \in 1..2 : run.models[m].skill \in Nat
<1>1. /\ run.models[1] \in [cost : Nat, blended : BOOLEAN, delay : Nat, rate : Nat, skill : Nat]
      /\ run.models[2] \in [cost : Nat, blended : BOOLEAN, delay : Nat, rate : Nat, skill : Nat]
      /\ Choose!Models = {1, 2} /\ 1..2 = {1, 2}
  BY ProfilesAssumption DEF Selection, Choose!Models
<1>2. /\ Choose!Largest("cost") \in Nat
      /\ \A m \in 1..2 : run.models[m].cost \in Nat /\ run.models[m].cost <= Choose!Largest("cost")
  <2>1. {run.models[m]["cost"] : m \in Choose!Models} = {run.models[1].cost, run.models[2].cost}
    BY <1>1
  <2> QED BY <1>1, <2>1, LargestIs DEF Choose!Largest
<1>3. /\ Choose!Largest("delay") \in Nat
      /\ \A m \in 1..2 : run.models[m].delay \in Nat /\ run.models[m].delay <= Choose!Largest("delay")
  <2>1. {run.models[m]["delay"] : m \in Choose!Models} = {run.models[1].delay, run.models[2].delay}
    BY <1>1
  <2> QED BY <1>1, <2>1, LargestIs DEF Choose!Largest
<1>4. /\ Choose!Largest("rate") \in Nat
      /\ \A m \in 1..2 : run.models[m].rate \in Nat
  <2>1. {run.models[m]["rate"] : m \in Choose!Models} = {run.models[1].rate, run.models[2].rate}
    BY <1>1
  <2> QED BY <1>1, <2>1, LargestIs DEF Choose!Largest
<1>5. /\ Choose!Largest("skill") \in Nat
      /\ \A m \in 1..2 : run.models[m].skill \in Nat
  <2>1. {run.models[m]["skill"] : m \in Choose!Models} = {run.models[1].skill, run.models[2].skill}
    BY <1>1
  <2> QED BY <1>1, <2>1, LargestIs DEF Choose!Largest
<1> QED BY <1>2, <1>3, <1>4, <1>5 DEF Choose!Scale

(* What is no worse in everything and better in something of weight scores *)
(* more.                                                                   *)
LEMMA BetterScores ==
  ASSUME run \in Selection, Choose!Largest("cost") > 0, NEW c \in 1..2, NEW m \in 1..2,
         run.models[m].cost <= run.models[c].cost, run.models[m].delay <= run.models[c].delay,
         run.models[m].rate >= run.models[c].rate, run.models[m].skill >= run.models[c].skill,
         \/ run.priority["cost"] > 0 /\ run.models[m].cost < run.models[c].cost
         \/ /\ run.priority["speed"] > 0
            /\ run.models[m].delay < run.models[c].delay \/ run.models[m].rate > run.models[c].rate
         \/ run.priority["skill"] > 0 /\ run.models[m].skill > run.models[c].skill
  PROVE  Choose!Score(c) < Choose!Score(m)
<1>1. PICK L \in Nat, D \in Nat, R \in Nat, K \in Nat :
         /\ L = Choose!Largest("cost") /\ D = Choose!Scale("delay")
         /\ R = Choose!Scale("rate") /\ K = Choose!Scale("skill")
         /\ L > 0 /\ D > 0 /\ R > 0 /\ K > 0
  BY LargestOf
<1>2. PICK p \in Nat, q \in Nat, r \in Nat :
         p = run.priority["cost"] /\ q = run.priority["speed"] /\ r = run.priority["skill"]
  BY ProfilesAssumption DEF Selection
<1>3. PICK mc \in Nat, md \in Nat, mr \in Nat, ms \in Nat :
         /\ mc = run.models[m].cost /\ md = run.models[m].delay
         /\ mr = run.models[m].rate /\ ms = run.models[m].skill
  BY LargestOf
<1>4. PICK cc \in Nat, cd \in Nat, cr \in Nat, cs \in Nat :
         /\ cc = run.models[c].cost /\ cd = run.models[c].delay
         /\ cr = run.models[c].rate /\ cs = run.models[c].skill
  BY LargestOf
<1>5. /\ mc <= L /\ cc <= L /\ md <= D /\ cd <= D
      /\ mc <= cc /\ md <= cd /\ mr >= cr /\ ms >= cs
      /\ \/ p > 0 /\ mc < cc
         \/ q > 0 /\ (md < cd \/ mr > cr)
         \/ r > 0 /\ ms > cs
  BY <1>1, <1>2, <1>3, <1>4, LargestOf
<1>6. PICK speed \in Nat : speed = 10 * D * R
  OBVIOUS
<1>7. speed > 0
  BY <1>1, <1>6, Product
<1>8. PICK ma \in Nat, ca \in Nat : ma = L - mc /\ ca = L - cc
  BY <1>5
<1>9. /\ Choose!CostScore(m) = ma /\ Choose!CostScore(c) = ca
      /\ ca <= ma /\ (mc < cc => ca < ma)
  BY <1>1, <1>3, <1>4, <1>5, <1>8 DEF Choose!CostScore
<1>10. PICK mx \in Nat, cx \in Nat : mx = D - md /\ cx = D - cd
  BY <1>5
<1>11. /\ 4 * R > 0 /\ 4 * R \in Nat /\ 6 * D > 0 /\ 6 * D \in Nat
       /\ cx <= mx /\ (md < cd => cx < mx)
  BY <1>1, <1>5, <1>10
<1>12. PICK x1 \in Nat, x2 \in Nat, y1 \in Nat, y2 \in Nat :
          x1 = (4 * R) * mx /\ x2 = (4 * R) * cx /\ y1 = (6 * D) * mr /\ y2 = (6 * D) * cr
  OBVIOUS
<1>13. x2 <= x1 /\ (cx < mx => x2 < x1) /\ y2 <= y1 /\ (cr < mr => y2 < y1)
  BY <1>5, <1>11, <1>12, Grows
<1>14. PICK mb \in Nat, cb \in Nat : mb = x1 + y1 /\ cb = x2 + y2
  OBVIOUS
<1>15. cb <= mb /\ (md < cd \/ mr > cr => cb < mb)
  BY <1>11, <1>13, <1>14
<1>16. Choose!SpeedScore(m) = mb /\ Choose!SpeedScore(c) = cb
  BY <1>1, <1>3, <1>4, <1>10, <1>12, <1>14 DEF Choose!SpeedScore
<1>17. /\ Choose!Score(m) = p * ma * speed * K + q * mb * L * K + r * ms * L * speed
       /\ Choose!Score(c) = p * ca * speed * K + q * cb * L * K + r * cs * L * speed
  BY <1>1, <1>2, <1>3, <1>4, <1>6, <1>9, <1>16 DEF Choose!Score
<1>18. /\ p * ca * speed * K \in Nat /\ p * ma * speed * K \in Nat
       /\ p * ca * speed * K <= p * ma * speed * K
       /\ p > 0 /\ ca < ma => p * ca * speed * K < p * ma * speed * K
  BY <1>1, <1>7, <1>9, Weighed
<1>19. /\ q * cb * L * K \in Nat /\ q * mb * L * K \in Nat
       /\ q * cb * L * K <= q * mb * L * K
       /\ q > 0 /\ cb < mb => q * cb * L * K < q * mb * L * K
  BY <1>1, <1>15, Weighed
<1>20. /\ r * cs * L * speed \in Nat /\ r * ms * L * speed \in Nat
       /\ r * cs * L * speed <= r * ms * L * speed
       /\ r > 0 /\ cs < ms => r * cs * L * speed < r * ms * L * speed
  BY <1>1, <1>5, <1>7, Weighed
<1>21. PICK a1 \in Nat, a2 \in Nat, b1 \in Nat, b2 \in Nat, c1 \in Nat, c2 \in Nat :
         /\ a1 = p * ma * speed * K /\ a2 = p * ca * speed * K
         /\ b1 = q * mb * L * K /\ b2 = q * cb * L * K
         /\ c1 = r * ms * L * speed /\ c2 = r * cs * L * speed
  BY <1>18, <1>19, <1>20
<1>22. /\ a2 <= a1 /\ b2 <= b1 /\ c2 <= c1
       /\ a2 < a1 \/ b2 < b1 \/ c2 < c1
  BY <1>5, <1>9, <1>15, <1>18, <1>19, <1>20, <1>21
<1>23. Choose!Score(m) = a1 + b1 + c1 /\ Choose!Score(c) = a2 + b2 + c2
  BY <1>17, <1>21
<1> QED BY <1>22, <1>23

LEMMA ScoreIsWhole ==
  ASSUME run \in Selection, NEW m \in 1..2
  PROVE  Choose!Score(m) \in Int
<1>1. /\ Choose!Largest("cost") \in Int /\ Choose!Scale("delay") \in Int
      /\ Choose!Scale("rate") \in Int /\ Choose!Scale("skill") \in Int
      /\ run.models[m].cost \in Int /\ run.models[m].delay \in Int
      /\ run.models[m].rate \in Int /\ run.models[m].skill \in Int
  BY LargestOf
<1>2. run.priority["cost"] \in Nat /\ run.priority["speed"] \in Nat /\ run.priority["skill"] \in Nat
  BY ProfilesAssumption DEF Selection
<1>3. Choose!CostScore(m) \in Int /\ Choose!SpeedScore(m) \in Int
  BY <1>1 DEF Choose!CostScore, Choose!SpeedScore
<1> QED BY <1>1, <1>2, <1>3 DEF Choose!Score

LEMMA ChooseStep == ChooseInv /\ Choose!Next => ChooseInv'
<1> SUFFICES ASSUME ChooseInv, Choose!Select
             PROVE  ChooseInv'
  BY DEF Choose!Next
<1>0. run \in Selection
  BY DEF ChooseInv
<1>1. CASE run' = [run EXCEPT !.at = "done", !.outcome = "raised"]
  BY <1>0, <1>1 DEF ChooseInv, Selection, Choose!ChoiceIsUndominated
<1>2. CASE /\ ~Choose!ScoreRaises
           /\ run' = [run EXCEPT !.at = "done", !.outcome = "returned", !.chosen = Choose!Best]
  <2>1. Choose!Candidates \subseteq {1, 2} /\ Choose!Candidates # {}
    BY <1>0 DEF Choose!Candidates, Choose!Models, Selection
  <2>2. PICK s1 \in Int, s2 \in Int : s1 = Choose!Score(1) /\ s2 = Choose!Score(2)
    BY <1>0, ScoreIsWhole
  <2>3. \E b \in Choose!Candidates :
           \A n \in Choose!Candidates : \/ Choose!Score(n) < Choose!Score(b)
                                        \/ Choose!Score(n) = Choose!Score(b) /\ b <= n
    <3>1. \A n \in Choose!Candidates : n = 1 \/ n = 2
      BY <2>1
    <3>2. CASE 1 \in Choose!Candidates /\ (2 \notin Choose!Candidates \/ s2 <= s1)
      BY <2>2, <3>1, <3>2
    <3>3. CASE 2 \in Choose!Candidates /\ (1 \notin Choose!Candidates \/ s1 < s2)
      BY <2>2, <3>1, <3>3
    <3>4. 1 \in Choose!Candidates \/ 2 \in Choose!Candidates
      BY <2>1, <3>1
    <3>5. s2 <= s1 \/ s1 < s2
      BY <2>2
    <3> QED BY <3>2, <3>3, <3>4, <3>5
  <2>4. PICK b : b = Choose!Best
    OBVIOUS
  <2>5. /\ b \in Choose!Candidates
        /\ \A n \in Choose!Candidates : \/ Choose!Score(n) < Choose!Score(b)
                                        \/ Choose!Score(n) = Choose!Score(b) /\ b <= n
    BY <2>3, <2>4 DEF Choose!Best
  <2>6. run' = [run EXCEPT !.at = "done", !.outcome = "returned", !.chosen = b]
    BY <1>2, <2>4
  <2>7. b \in 1..2 /\ b \in 0..2
    BY <2>1, <2>5
  <2>8. /\ run' \in Selection /\ run'.at = "done" /\ run'.chosen = b
        /\ run'.models = run.models /\ run'.hinted = run.hinted
        /\ run'.priority = run.priority
    BY <1>0, <2>6, <2>7 DEF Selection
  <2>9. Choose!Largest("cost") > 0
    BY <1>0, <1>2, LargestOf DEF Choose!ScoreRaises
  <2>10. ASSUME NEW m \in Choose!Candidates,
            run.models[m].cost <= run.models[b].cost, run.models[m].delay <= run.models[b].delay,
            run.models[m].rate >= run.models[b].rate, run.models[m].skill >= run.models[b].skill,
            \/ run.priority["cost"] > 0 /\ run.models[m].cost < run.models[b].cost
            \/ /\ run.priority["speed"] > 0
               /\ run.models[m].delay < run.models[b].delay \/ run.models[m].rate > run.models[b].rate
            \/ run.priority["skill"] > 0 /\ run.models[m].skill > run.models[b].skill
         PROVE FALSE
    <3>1. m \in 1..2
      BY <2>1
    <3>2. Choose!Score(b) < Choose!Score(m)
      BY <1>0, <2>7, <2>9, <2>10, <3>1, BetterScores
    <3>3. Choose!Score(b) \in Int /\ Choose!Score(m) \in Int
      BY <1>0, <2>7, <3>1, ScoreIsWhole
    <3> QED BY <2>5, <3>2, <3>3
  <2>11. Choose!Candidates' = Choose!Candidates
    BY <2>8 DEF Choose!Candidates, Choose!Models
  <2>12. Choose!ChoiceIsUndominated'
    BY <2>5, <2>8, <2>10, <2>11 DEF Choose!ChoiceIsUndominated
  <2> QED BY <2>8, <2>12 DEF ChooseInv
<1> QED BY <1>1, <1>2 DEF Choose!Select

LEMMA ChooseImplies == ChooseInv => Choose!TypeOK /\ Choose!ChoiceIsUndominated
<1> SUFFICES ASSUME ChooseInv
             PROVE  Choose!TypeOK
  BY DEF ChooseInv
<1>1. /\ run.models \in [1..2 -> Profiles] /\ run.at \in {"start", "done"}
      /\ run.hinted \subseteq 1..2 /\ run.chosen \in 0..2
      /\ run.outcome \in {"none", "returned", "raised"}
  BY DEF ChooseInv, Selection
<1>2. Choose!Models = 1..2 /\ {0} \cup 1..2 = 0..2
  BY <1>1 DEF Choose!Models
<1>3. run.models \in Seq(Profiles)
  <2>1. PICK n \in Nat : n = 2
    OBVIOUS
  <2>2. run.models \in [1..n -> Profiles]
    BY <1>1, <2>1
  <2> HIDE <2>1
  <2> QED BY <2>2
<1> QED BY <1>1, <1>2, <1>3 DEF Choose!TypeOK
-----------------------------------------------------------------------------
(* Augmented language model.                                               *)

Conversing ==
  [kind : {"llm"}, at : {"idle", "ask", "tools", "store", "done"},
   provider : {"openai", "anthropic"}, calls : 0..MaxCalls, requests : 0..MaxRequests,
   useHistory : BOOLEAN, history : Seq(Converse!MessageType),
   messages : Seq(Converse!MessageType),
   answered : SUBSET Converse!CallId, lost : SUBSET Converse!CallId]

(* The assistant message at a holds the call c. *)
Asks(m, a, c) ==
  m[a].role = "assistant" /\ \E i \in 1..Len(m[a].calls) : m[a].calls[i] = c

(* The result at t follows its call, in the order of the calls. *)
Follows(m, t) ==
  /\ \E a \in 1..(t - 1) : /\ Asks(m, a, m[t].calls[1])
                           /\ \A b \in (a + 1)..t : m[b].role = "tool"
  /\ m[t - 1].role = "tool" => m[t - 1].calls[1][3] < m[t].calls[1][3]

(* The call c has a result among the first l messages. *)
Replied(m, l, c) == \E t \in 1..l : m[t].role = "tool" /\ m[t].calls[1] = c

Sound(m, lost) ==
  /\ \A t \in 1..Len(m) : m[t].role = "tool" => Follows(m, t)
  /\ \A a \in 1..Len(m) : \A c : Asks(m, a, c) => (c \in lost <=> ~Replied(m, Len(m), c))

(* The call c was made before request r of call n of generate. *)
Before(c, n, r) == c[1] < n \/ (c[1] = n /\ c[2] < r)

(* The message at p holds the n calls of request y of call x. *)
CallsOf(m, p, n, x, y) ==
  /\ p \in 1..Len(m) /\ m[p].role = "assistant" /\ Len(m[p].calls) = n
  /\ \A k \in 1..n : m[p].calls[k] = <<x, y, k>>

(* What comes before p is sound, and of earlier requests. *)
Settled(m, p, x, y, lost) ==
  /\ \A t \in 1..(p - 1) : m[t].role = "tool" => Follows(m, t)
  /\ \A a \in 1..(p - 1) : \A c : Asks(m, a, c) =>
       Before(c, x, y) /\ (c \in lost <=> ~Replied(m, p - 1, c))

(* The calls of the message at p, n of them, are being worked on. *)
Working(m, p, n, b) ==
  /\ n \in 1..MaxTools
  /\ CallsOf(m, p, n, b.calls, b.requests)
  /\ Settled(m, p, b.calls, b.requests, b.lost)
  /\ \A t \in 1..Len(m) : t > p =>
       m[t].role = "tool" /\ m[t].calls[1] = <<b.calls, b.requests, t - p>>
  /\ b.provider = "openai" =>
       /\ p = Len(m)
       /\ \A k \in 1..n : ~(/\ <<b.calls, b.requests, k>> \in b.answered
                            /\ <<b.calls, b.requests, k>> \in b.lost)
  /\ b.provider = "anthropic" =>
       /\ Len(m) - p < n
       /\ \A k \in 1..n : <<b.calls, b.requests, k>> \notin b.lost

(* What was kept of earlier calls. *)
Remembered(b) ==
  /\ Sound(b.history, b.lost)
  /\ \A a \in 1..Len(b.history) : \A c : Asks(b.history, a, c) =>
       c[1] <= b.calls /\ (b.at \in {"ask", "tools", "store"} => c[1] < b.calls)
  /\ \A c \in b.lost \cup b.answered :
       /\ c[1] <= b.calls
       /\ b.at = "ask" => Before(c, b.calls, b.requests)
       /\ b.at = "tools" => Before(c, b.calls, b.requests + 1)

(* What is put to the model. *)
Talking(b) ==
  /\ b.at \in {"ask", "tools"} => b.requests < MaxRequests
  /\ b.at \in {"ask", "tools", "store"} => b.calls > 0
  /\ b.at \in {"ask", "store"} => Sound(b.messages, b.lost)
  /\ b.at = "ask" => \A a \in 1..Len(b.messages) : \A c : Asks(b.messages, a, c) =>
       Before(c, b.calls, b.requests)
  /\ b.at = "store" => \A a \in 1..Len(b.messages) : \A c : Asks(b.messages, a, c) =>
       c[1] <= b.calls
  /\ b.at = "tools" => \E p, n : Working(b.messages, p, n, b)

ConverseInv == run \in Conversing /\ Remembered(run) /\ Talking(run)

LEMMA ConverseInit == Converse!Init => ConverseInv
<1> SUFFICES ASSUME NEW p \in {"openai", "anthropic"}, run = Converse!Started(p)
             PROVE  ConverseInv
  BY DEF Converse!Init
<1>1. PICK e : e = <<>> /\ Len(e) = 0 /\ \A S : e \in Seq(S)
  BY NoElements
<1>2. run = [kind |-> "llm", at |-> "idle", provider |-> p, calls |-> 0,
     requests |-> 0, useHistory |-> FALSE, history |-> e, messages |-> e,
     answered |-> {}, lost |-> {}]
  BY <1>1 DEF Converse!Started
<1>3. Len(e) = 0 /\ \A S : e \in Seq(S)
  BY <1>1
<1>4. 0 \in 0..MaxCalls /\ 0 \in 0..MaxRequests
  BY CallsAssumption
<1>5. /\ run \in Conversing /\ run.at = "idle" /\ run.history = e
      /\ run.lost = {} /\ run.answered = {}
  BY <1>2, <1>3, <1>4 DEF Conversing
<1> QED BY <1>3, <1>5 DEF ConverseInv, Remembered, Talking, Sound

(* A message is of known type, and so is what it asks for. *)
LEMMA AsksFor ==
  ASSUME NEW m \in Seq(Converse!MessageType), NEW a \in 1..Len(m), NEW c, Asks(m, a, c)
  PROVE  /\ c \in Converse!CallId
         /\ c[1] \in Nat /\ c[2] \in Nat /\ c[3] \in Nat
<1>1. m[a] \in Converse!MessageType
  OBVIOUS
<1>2. m[a].calls \in Seq(Converse!CallId)
  BY <1>1 DEF Converse!MessageType
<1>3. c \in Converse!CallId
  BY <1>2 DEF Asks
<1> QED BY <1>3 DEF Converse!CallId

(* What holds of a place holds of it in a longer list. *)
LEMMA FollowsOn ==
  ASSUME NEW m, NEW q, NEW N \in Nat, \A j \in 1..N : q[j] = m[j],
         NEW t \in 1..N, Follows(m, t)
  PROVE  Follows(q, t)
<1>1. PICK a \in 1..(t - 1) : /\ Asks(m, a, m[t].calls[1])
                              /\ \A b \in (a + 1)..t : m[b].role = "tool"
  BY DEF Follows
<1>2. a \in 1..N /\ t - 1 \in 1..N /\ \A b \in (a + 1)..t : b \in 1..N
  OBVIOUS
<1>3. q[a] = m[a] /\ q[t] = m[t] /\ q[t - 1] = m[t - 1] /\ \A b \in (a + 1)..t : q[b] = m[b]
  BY <1>2
<1>4. Asks(q, a, q[t].calls[1])
  BY <1>1, <1>3 DEF Asks
<1>5. \A b \in (a + 1)..t : q[b].role = "tool"
  BY <1>1, <1>3
<1>6. q[t - 1].role = "tool" => q[t - 1].calls[1][3] < q[t].calls[1][3]
  BY <1>3 DEF Follows
<1> QED BY <1>4, <1>5, <1>6 DEF Follows

(* A result was asked for. *)
LEMMA RepliedIsAsked ==
  ASSUME NEW m \in Seq(Converse!MessageType), NEW t \in 1..Len(m), Follows(m, t)
  PROVE  \E a \in 1..Len(m) : a < t /\ Asks(m, a, m[t].calls[1])
<1>1. PICK a \in 1..(t - 1) : Asks(m, a, m[t].calls[1])
  BY DEF Follows
<1> QED BY <1>1

(* The history is put between a prompt and the new message. *)
LEMMA Framed ==
  ASSUME NEW X \in Seq(Converse!MessageType), NEW m, NEW d \in Nat, NEW lost,
         Len(m) = d + Len(X) + 1,
         \A j \in 1..Len(X) : m[d + j] = X[j],
         \A j \in 1..Len(m) : j <= d \/ j = Len(m) => m[j].role \notin {"tool", "assistant"},
         Sound(X, lost)
  PROVE  /\ Sound(m, lost)
         /\ \A a \in 1..Len(m) : \A c : Asks(m, a, c) => \E x \in 1..Len(X) : Asks(X, x, c)
<1>0. Len(X) \in Nat
  OBVIOUS
<1>1. ASSUME NEW j \in 1..Len(m), m[j].role \in {"tool", "assistant"}
      PROVE  j - d \in 1..Len(X) /\ m[j] = X[j - d]
  <2>1. ~(j <= d) /\ j # Len(m)
    BY <1>1
  <2>2. j - d \in 1..Len(X) /\ d + (j - d) = j
    BY <1>0, <2>1
  <2> QED BY <2>2
<1>2. ASSUME NEW a \in 1..Len(m), NEW c, Asks(m, a, c)
      PROVE  a - d \in 1..Len(X) /\ Asks(X, a - d, c)
  BY <1>1, <1>2 DEF Asks
<1>3. ASSUME NEW a \in 1..Len(X), NEW c, Asks(X, a, c)
      PROVE  d + a \in 1..Len(m) /\ Asks(m, d + a, c)
  BY <1>0, <1>3 DEF Asks
<1>4. ASSUME NEW c
      PROVE  Replied(m, Len(m), c) <=> Replied(X, Len(X), c)
  <2>1. ASSUME Replied(m, Len(m), c)
        PROVE  Replied(X, Len(X), c)
    <3>1. PICK t \in 1..Len(m) : m[t].role = "tool" /\ m[t].calls[1] = c
      BY <2>1 DEF Replied
    <3>2. t - d \in 1..Len(X) /\ m[t] = X[t - d]
      BY <1>1, <3>1
    <3> QED BY <3>1, <3>2 DEF Replied
  <2>2. ASSUME Replied(X, Len(X), c)
        PROVE  Replied(m, Len(m), c)
    <3>1. PICK t \in 1..Len(X) : X[t].role = "tool" /\ X[t].calls[1] = c
      BY <2>2 DEF Replied
    <3>2. d + t \in 1..Len(m) /\ m[d + t] = X[t]
      BY <1>0
    <3> QED BY <3>1, <3>2 DEF Replied
  <2> QED BY <2>1, <2>2
<1>5. ASSUME NEW t \in 1..Len(m), m[t].role = "tool"
      PROVE  Follows(m, t)
  <2>1. PICK s \in 1..Len(X) : s = t - d /\ m[t] = X[s]
    BY <1>1, <1>5
  <2>2. Follows(X, s)
    BY <1>5, <2>1 DEF Sound
  <2>3. PICK a \in 1..(s - 1) : /\ Asks(X, a, X[s].calls[1])
                                /\ \A b \in (a + 1)..s : X[b].role = "tool"
    BY <2>2 DEF Follows
  <2>4. a \in 1..Len(X) /\ d + a \in 1..(t - 1)
    BY <1>0, <2>1
  <2>5. Asks(m, d + a, m[t].calls[1])
    BY <1>3, <2>1, <2>3, <2>4
  <2>6. ASSUME NEW b \in ((d + a) + 1)..t
        PROVE  m[b].role = "tool"
    <3>1. b - d \in (a + 1)..s /\ b - d \in 1..Len(X) /\ d + (b - d) = b
      BY <1>0, <2>1, <2>4
    <3>2. m[b] = X[b - d]
      BY <3>1
    <3> QED BY <2>3, <3>1, <3>2
  <2>7. s - 1 \in 1..Len(X) /\ d + (s - 1) = t - 1
    BY <1>0, <2>1, <2>3
  <2>8. m[t - 1] = X[s - 1]
    BY <2>7
  <2>9. m[t - 1].role = "tool" => m[t - 1].calls[1][3] < m[t].calls[1][3]
    BY <2>1, <2>2, <2>8 DEF Follows
  <2> QED BY <2>4, <2>5, <2>6, <2>9 DEF Follows
<1>6. ASSUME NEW a \in 1..Len(m), NEW c, Asks(m, a, c)
      PROVE  c \in lost <=> ~Replied(m, Len(m), c)
  BY <1>2, <1>4, <1>6 DEF Sound
<1> QED BY <1>2, <1>5, <1>6 DEF Sound

(* What is settled stays so in a longer list. *)
LEMMA SettledOn ==
  ASSUME NEW m, NEW q, NEW p \in Nat \ {0}, NEW x, NEW y, NEW lost, NEW gone,
         \A j \in 1..(p - 1) : q[j] = m[j],
         \A c : Before(c, x, y) => (c \in gone <=> c \in lost),
         Settled(m, p, x, y, lost)
  PROVE  Settled(q, p, x, y, gone)
<1>1. ASSUME NEW t \in 1..(p - 1), q[t].role = "tool"
      PROVE  Follows(q, t)
  <2>1. p - 1 \in Nat /\ Follows(m, t)
    BY <1>1 DEF Settled
  <2> QED BY <2>1, FollowsOn
<1>2. ASSUME NEW a \in 1..(p - 1), NEW c, Asks(q, a, c)
      PROVE  Before(c, x, y) /\ (c \in gone <=> ~Replied(q, p - 1, c))
  <2>1. Asks(m, a, c)
    BY <1>2 DEF Asks
  <2>2. Before(c, x, y) /\ (c \in lost <=> ~Replied(m, p - 1, c))
    BY <2>1 DEF Settled
  <2>3. Replied(q, p - 1, c) <=> Replied(m, p - 1, c)
    BY DEF Replied
  <2> QED BY <2>2, <2>3
<1> QED BY <1>1, <1>2 DEF Settled

LEMMA SoundIsSettled ==
  ASSUME NEW m, NEW x, NEW y, NEW lost, Len(m) \in Nat, Sound(m, lost),
         \A a \in 1..Len(m) : \A c : Asks(m, a, c) => Before(c, x, y)
  PROVE  Settled(m, Len(m) + 1, x, y, lost)
<1>1. (Len(m) + 1) - 1 = Len(m)
  OBVIOUS
<1> QED BY <1>1 DEF Sound, Settled

(* The last message with calls, and the results after it. *)
LEMMA RoundIsSound ==
  ASSUME NEW q \in Seq(Converse!MessageType), NEW p \in 1..Len(q), NEW n \in Nat,
         NEW x \in Nat, NEW y \in Nat, NEW e, NEW lost,
         CallsOf(q, p, n, x, y), Settled(q, p, x, y, lost),
         \A t \in 1..Len(q) : t > p =>
            /\ q[t].role = "tool" /\ q[t].calls[1] = <<x, y, e[t - p]>>
            /\ e[t - p] \in 1..n /\ (t - 1 > p => e[(t - 1) - p] < e[t - p]),
         \A k \in 1..n : <<x, y, k>> \in lost <=> ~\E j \in 1..(Len(q) - p) : e[j] = k
  PROVE  /\ Sound(q, lost)
         /\ \A a \in 1..Len(q) : \A c : Asks(q, a, c) => Before(c, x, y + 1)
<1>0. Len(q) \in Nat /\ p \in Nat
  OBVIOUS
<1>1. ASSUME NEW t \in 1..Len(q), t > p
      PROVE  Follows(q, t)
  <2>1. e[t - p] \in 1..n /\ q[t].calls[1] = <<x, y, e[t - p]>>
    BY <1>1
  <2>2. Asks(q, p, q[t].calls[1])
    BY <2>1 DEF Asks, CallsOf
  <2>3. ASSUME NEW b \in (p + 1)..t
        PROVE  q[b].role = "tool"
    <3>1. b \in 1..Len(q) /\ b > p
      BY <1>0
    <3> QED BY <3>1
  <2>4. ASSUME q[t - 1].role = "tool"
        PROVE  q[t - 1].calls[1][3] < q[t].calls[1][3]
    <3>1. t - 1 # p
      BY <2>4 DEF CallsOf
    <3>2. t - 1 \in 1..Len(q) /\ t - 1 > p
      BY <1>0, <1>1, <3>1
    <3>3. q[t - 1].calls[1] = <<x, y, e[(t - 1) - p]>> /\ e[(t - 1) - p] < e[t - p]
      BY <1>1, <3>2
    <3> QED BY <2>1, <3>3
  <2>5. p \in 1..(t - 1)
    BY <1>0, <1>1
  <2> QED BY <2>2, <2>3, <2>4, <2>5 DEF Follows
<1>2. ASSUME NEW t \in 1..Len(q), q[t].role = "tool"
      PROVE  Follows(q, t)
  <2>1. t # p
    BY <1>2 DEF CallsOf
  <2>2. CASE t > p
    BY <1>1, <2>2
  <2>3. CASE t \in 1..(p - 1)
    BY <1>2, <2>3 DEF Settled
  <2> QED BY <1>0, <2>1, <2>2, <2>3
<1>3. ASSUME NEW c, Before(c, x, y)
      PROVE  Replied(q, Len(q), c) <=> Replied(q, p - 1, c)
  <2>1. ASSUME NEW t \in 1..Len(q), q[t].role = "tool", q[t].calls[1] = c
        PROVE  t \in 1..(p - 1)
    <3>1. t # p
      BY <2>1 DEF CallsOf
    <3>2. ~(t > p)
      <4>1. ASSUME t > p
            PROVE  FALSE
        <5>1. c = <<x, y, e[t - p]>>
          BY <2>1, <4>1
        <5>2. c[1] = x /\ c[2] = y
          BY <5>1
        <5> QED BY <1>3, <5>2 DEF Before
      <4> QED BY <4>1
    <3> QED BY <1>0, <3>1, <3>2
  <2>2. \A t \in 1..(p - 1) : t \in 1..Len(q)
    BY <1>0
  <2> QED BY <2>1, <2>2 DEF Replied
<1>4. ASSUME NEW k \in 1..n
      PROVE  Replied(q, Len(q), <<x, y, k>>) <=> \E j \in 1..(Len(q) - p) : e[j] = k
  <2>1. ASSUME NEW j \in 1..(Len(q) - p), e[j] = k
        PROVE  Replied(q, Len(q), <<x, y, k>>)
    <3>1. PICK t \in 1..Len(q) : t = p + j
      BY <1>0
    <3>2. t > p /\ t - p = j
      BY <1>0, <3>1
    <3>3. q[t].role = "tool" /\ q[t].calls[1] = <<x, y, k>>
      BY <2>1, <3>2
    <3> QED BY <3>3 DEF Replied
  <2>2. ASSUME Replied(q, Len(q), <<x, y, k>>)
        PROVE  \E j \in 1..(Len(q) - p) : e[j] = k
    <3>1. PICK t \in 1..Len(q) : q[t].role = "tool" /\ q[t].calls[1] = <<x, y, k>>
      BY <2>2 DEF Replied
    <3>2. t # p
      BY <3>1 DEF CallsOf
    <3>3. ~(t < p)
      <4>1. ASSUME t < p
            PROVE  FALSE
        <5>1. t \in 1..(p - 1)
          BY <1>0, <4>1
        <5>2. PICK a \in 1..(t - 1) : Asks(q, a, <<x, y, k>>)
          BY <3>1, <5>1 DEF Settled, Follows
        <5>3. a \in 1..(p - 1)
          BY <1>0, <5>1
        <5>4. Before(<<x, y, k>>, x, y)
          BY <5>2, <5>3 DEF Settled
        <5> QED BY <5>4 DEF Before
      <4> QED BY <4>1
    <3>4. t > p /\ t - p \in 1..(Len(q) - p)
      BY <1>0, <3>2, <3>3
    <3>5. <<x, y, e[t - p]>> = <<x, y, k>>
      BY <3>1, <3>4
    <3>6. e[t - p] = k
      BY <3>5
    <3> QED BY <3>4, <3>6
  <2> QED BY <2>1, <2>2
<1>5. ASSUME NEW a \in 1..Len(q), NEW c, Asks(q, a, c)
      PROVE  /\ c \in lost <=> ~Replied(q, Len(q), c)
             /\ Before(c, x, y + 1)
  <2>1. ~(a > p)
    BY <1>5 DEF Asks
  <2>2. CASE a = p
    <3>1. PICK k \in 1..n : c = <<x, y, k>>
      BY <1>5, <2>2 DEF Asks, CallsOf
    <3>2. c[1] = x /\ c[2] = y /\ y < y + 1
      BY <3>1
    <3> QED BY <1>4, <3>1, <3>2 DEF Before
  <2>3. CASE a \in 1..(p - 1)
    <3>1. Before(c, x, y) /\ (c \in lost <=> ~Replied(q, p - 1, c))
      BY <1>5, <2>3 DEF Settled
    <3>2. c[1] \in Nat /\ c[2] \in Nat
      BY <1>5, AsksFor
    <3>3. Before(c, x, y + 1)
      BY <3>1, <3>2 DEF Before
    <3> QED BY <1>3, <3>1, <3>3
  <2> QED BY <1>0, <2>1, <2>2, <2>3
<1> QED BY <1>2, <1>5 DEF Sound

LEMMA GenerateKeeps ==
  ASSUME ConverseInv, NEW h \in BOOLEAN, Converse!Generate(h)
  PROVE  ConverseInv'
<1> DEFINE T == Converse!MessageType
<1>0. run \in Conversing /\ run.at = "idle" /\ run.calls < MaxCalls
  BY DEF ConverseInv, Converse!Generate, Converse!At
<1>1. PICK X : X = IF h THEN run.history ELSE <<>>
  OBVIOUS
<1>2. /\ X \in Seq(T) /\ Sound(X, run.lost)
      /\ \A a \in 1..Len(X) : \A c : Asks(X, a, c) => c[1] <= run.calls
  <2>1. CASE h
    <3>1. X = run.history
      BY <1>1, <2>1
    <3> QED BY <1>0, <3>1 DEF ConverseInv, Remembered, Conversing
  <2>2. CASE ~h
    <3>1. X = <<>>
      BY <1>1, <2>2
    <3>2. Len(X) = 0 /\ X \in Seq(T)
      BY <3>1, EmptySeq
    <3> HIDE <1>1
    <3> QED BY <3>2 DEF Sound
  <2> QED BY <2>1, <2>2
<1>3. PICK P : P = Converse!Prefix
  OBVIOUS
<1>4. PICK s : /\ s \in T /\ s.role = "system" /\ s = Converse!Message("system", <<>>)
  <2>1. PICK e : e = <<>> /\ Len(e) = 0 /\ \A S : e \in Seq(S)
    BY NoElements
  <2>2. e \in Seq(Converse!CallId)
    BY <2>1
  <2>3. PICK z : z = [role |-> "system", calls |-> e]
    OBVIOUS
  <2>4. z \in T /\ z.role = "system"
    BY <2>2, <2>3 DEF Converse!MessageType
  <2>5. z = Converse!Message("system", <<>>)
    BY <2>1, <2>3, Zenon DEF Converse!Message
  <2> QED BY <2>4, <2>5
<1>5. PICK u : /\ u \in T /\ u.role = "user" /\ u = Converse!Message("user", <<>>)
  <2>1. PICK e : e = <<>> /\ Len(e) = 0 /\ \A S : e \in Seq(S)
    BY NoElements
  <2>2. e \in Seq(Converse!CallId)
    BY <2>1
  <2>3. PICK z : z = [role |-> "user", calls |-> e]
    OBVIOUS
  <2>4. z \in T /\ z.role = "user"
    BY <2>2, <2>3 DEF Converse!MessageType
  <2>5. z = Converse!Message("user", <<>>)
    BY <2>1, <2>3, Zenon DEF Converse!Message
  <2> QED BY <2>4, <2>5
<1>6. P \in Seq(T) /\ Len(P) \in 0..1 /\ \A j \in 1..Len(P) : P[j].role = "system"
  <2>1. CASE P = <<>>
    BY <2>1, EmptySeq
  <2>2. CASE P = <<s>>
    BY <1>4, <2>2
  <2> QED BY <1>3, <1>4, <2>1, <2>2 DEF Converse!Prefix
<1>7. PICK U : U = <<u>>
  OBVIOUS
<1>8. U \in Seq(T) /\ Len(U) = 1 /\ U[1] = u
  <2>1. u \in T
    BY <1>5, Zenon
  <2> HIDE DEF T
  <2> QED BY <1>7, <2>1
<1>9. PICK q : q = P \o X
  OBVIOUS
<1>10. /\ q \in Seq(T) /\ Len(q) = Len(P) + Len(X)
       /\ \A j \in 1..Len(P) : q[j] = P[j]
       /\ \A j \in 1..Len(X) : q[Len(P) + j] = X[j]
  BY <1>2, <1>6, <1>9, SeveralMore
<1>11. PICK m : m = q \o U
  OBVIOUS
<1>12. /\ m \in Seq(T) /\ Len(m) = Len(q) + 1
       /\ \A j \in 1..Len(q) : m[j] = q[j]
       /\ m[Len(q) + 1] = u
  <2>1. /\ q \o U \in Seq(T) /\ Len(q \o U) = Len(q) + Len(U)
        /\ \A j \in 1..Len(q) : (q \o U)[j] = q[j]
        /\ \A j \in 1..Len(U) : (q \o U)[Len(q) + j] = U[j]
    BY <1>8, <1>10, SeveralMore
  <2>2. 1 \in 1..Len(U)
    BY <1>8
  <2> QED BY <1>8, <1>11, <2>1, <2>2
<1>13. run' = [run EXCEPT !.at = "ask", !.calls = run.calls + 1, !.requests = 0,
                 !.useHistory = h, !.messages = m]
  BY <1>1, <1>3, <1>5, <1>7, <1>9, <1>11 DEF Converse!Generate
<1>14. /\ run.calls + 1 \in 0..MaxCalls /\ 0 \in 0..MaxRequests /\ run.calls \in Nat
       /\ 0 < MaxRequests /\ run.calls + 1 > 0 /\ run.calls < run.calls + 1
  BY <1>0, CallsAssumption DEF Conversing
<1>15. /\ run' \in Conversing /\ run'.at = "ask" /\ run'.calls = run.calls + 1
       /\ run'.requests = 0 /\ run'.messages = m /\ run'.history = run.history
       /\ run'.lost = run.lost /\ run'.answered = run.answered
  BY <1>0, <1>12, <1>13, <1>14 DEF Conversing
<1>16. Len(X) \in Nat /\ Len(P) \in Nat
  BY <1>2, <1>6
<1>17. Sound(m, run.lost) /\ \A a \in 1..Len(m) : \A c : Asks(m, a, c) =>
          \E x \in 1..Len(X) : Asks(X, x, c)
  <2>1. Len(m) = Len(P) + Len(X) + 1
    BY <1>10, <1>12
  <2>2. ASSUME NEW j \in 1..Len(X)
        PROVE  m[Len(P) + j] = X[j]
    <3>1. Len(P) + j \in 1..Len(q)
      BY <1>10, <1>16
    <3> QED BY <1>10, <1>12, <3>1
  <2>3. ASSUME NEW j \in 1..Len(m), j <= Len(P) \/ j = Len(m)
        PROVE  m[j].role \notin {"tool", "assistant"}
    <3>1. CASE j = Len(m)
      BY <1>5, <1>12, <3>1
    <3>2. CASE j <= Len(P)
      <4>1. j \in 1..Len(P) /\ j \in 1..Len(q)
        BY <1>10, <1>16, <3>2
      <4>2. m[j] = P[j]
        BY <1>10, <1>12, <4>1
      <4> QED BY <1>6, <4>1, <4>2
    <3> QED BY <2>3, <3>1, <3>2
  <2> QED BY <1>2, <1>16, <2>1, <2>2, <2>3, Framed
<1>18. ASSUME NEW a \in 1..Len(m), NEW c, Asks(m, a, c)
       PROVE  Before(c, run.calls + 1, 0)
  <2>1. PICK x \in 1..Len(X) : Asks(X, x, c)
    BY <1>17, <1>18
  <2>2. c[1] \in Nat /\ c[1] <= run.calls
    BY <1>2, <2>1, AsksFor
  <2> QED BY <1>14, <2>2 DEF Before
<1>19. Talking(run')
  BY <1>14, <1>15, <1>17, <1>18 DEF Talking
<1>20. Remembered(run')
  <2>1. \A c \in run.lost \cup run.answered : c[1] \in Nat /\ c[1] <= run.calls
    BY <1>0 DEF ConverseInv, Remembered, Conversing, Converse!CallId
  <2>2. \A c \in run.lost \cup run.answered : c[1] <= run.calls + 1 /\ Before(c, run.calls + 1, 0)
    BY <1>14, <2>1 DEF Before
  <2>3. run.history \in Seq(Converse!MessageType)
    BY <1>0 DEF Conversing
  <2>4. ASSUME NEW a \in 1..Len(run.history), NEW c, Asks(run.history, a, c)
        PROVE  c[1] <= run.calls + 1 /\ c[1] < run.calls + 1
    <3>1. c[1] \in Nat /\ c[1] <= run.calls
      BY <2>3, <2>4, AsksFor DEF ConverseInv, Remembered
    <3> QED BY <1>14, <3>1
  <2> QED BY <1>15, <2>2, <2>4 DEF ConverseInv, Remembered
<1> QED BY <1>15, <1>19, <1>20 DEF ConverseInv


(* The ways a round of the loop ends. *)
LEMMA RememberedOn ==
  ASSUME NEW b \in Conversing, NEW d \in Conversing, Remembered(b),
         b.at \in {"ask", "tools"}, d.history = b.history, d.calls = b.calls,
         \/ d.at = "store"
         \/ d.at = "tools" /\ d.requests = b.requests
         \/ d.at = "ask" /\ d.requests = b.requests + 1,
         b.lost \subseteq d.lost,
         \A c \in d.lost : c \in b.lost \/ c[1] = b.calls,
         \A c \in d.lost \cup d.answered :
            c \in b.lost \cup b.answered \/ (c[1] = b.calls /\ c[2] = b.requests)
  PROVE  Remembered(d)
<1>1. b.calls \in Nat /\ b.requests \in Nat /\ b.history \in Seq(Converse!MessageType)
  BY CallsAssumption DEF Conversing
<1>2. ASSUME NEW c \in b.lost \cup b.answered
      PROVE  /\ c[1] \in Nat /\ c[2] \in Nat /\ c[1] <= b.calls
             /\ b.at = "ask" => Before(c, b.calls, b.requests)
             /\ b.at = "tools" => Before(c, b.calls, b.requests + 1)
  <2>1. c \in Converse!CallId
    BY DEF Conversing
  <2>2. c[1] \in Nat /\ c[2] \in Nat
    BY <2>1 DEF Converse!CallId
  <2> QED BY <2>2 DEF Remembered
<1>3. ASSUME NEW c \in d.lost \cup d.answered
      PROVE  /\ c[1] <= b.calls
             /\ Before(c, b.calls, b.requests + 1)
             /\ d.at = "tools" => Before(c, d.calls, d.requests + 1)
             /\ d.at = "ask" => Before(c, d.calls, d.requests)
  <2>1. c[1] <= b.calls /\ Before(c, b.calls, b.requests + 1)
    <3>1. CASE c \in b.lost \cup b.answered
      <4>1. c[1] \in Nat /\ c[2] \in Nat /\ c[1] <= b.calls
        BY <1>2, <3>1
      <4>2. Before(c, b.calls, b.requests) \/ Before(c, b.calls, b.requests + 1)
        BY <1>2, <3>1
      <4> QED BY <1>1, <4>1, <4>2 DEF Before
    <3>2. CASE c[1] = b.calls /\ c[2] = b.requests
      BY <1>1, <3>2 DEF Before
    <3> QED BY <3>1, <3>2
  <2>2. d.at = "tools" => d.requests = b.requests
    OBVIOUS
  <2>3. d.at = "ask" => d.requests = b.requests + 1
    OBVIOUS
  <2> QED BY <2>1, <2>2, <2>3
<1>4. ASSUME NEW a \in 1..Len(b.history), NEW c, Asks(b.history, a, c)
      PROVE  c[1] < b.calls /\ c[1] <= b.calls /\ (c \in d.lost <=> c \in b.lost)
  <2>1. c[1] \in Nat
    BY <1>1, <1>4, AsksFor
  <2>2. c[1] < b.calls
    BY <1>4 DEF Remembered
  <2> QED BY <1>1, <2>1, <2>2
<1>5. Sound(d.history, d.lost)
  BY <1>4 DEF Remembered, Sound
<1> QED BY <1>3, <1>4, <1>5 DEF Remembered

LEMMA TalkingOn ==
  ASSUME NEW d \in Conversing, NEW y \in Nat, d.at \in {"ask", "store"}, d.calls > 0,
         Sound(d.messages, d.lost),
         \A a \in 1..Len(d.messages) : \A c : Asks(d.messages, a, c) => Before(c, d.calls, y),
         d.at = "ask" => d.requests = y /\ y < MaxRequests
  PROVE  Talking(d)
<1>1. d.messages \in Seq(Converse!MessageType) /\ d.calls \in Nat
  BY CallsAssumption DEF Conversing
<1>2. ASSUME NEW a \in 1..Len(d.messages), NEW c, Asks(d.messages, a, c)
      PROVE  Before(c, d.calls, y) /\ c[1] <= d.calls
  <2>1. c[1] \in Nat
    BY <1>1, <1>2, AsksFor
  <2>2. Before(c, d.calls, y)
    BY <1>2
  <2> QED BY <1>1, <2>1, <2>2 DEF Before
<1> QED BY <1>2 DEF Talking

(* How the steps of one call of generate leave the state. *)
LEMMA GenerateRaisesKeeps ==
  ASSUME ConverseInv, Converse!GenerateRaises
  PROVE  ConverseInv'
<1>1. run \in Conversing /\ run.at = "idle" /\ run.calls < MaxCalls
  BY DEF ConverseInv, Converse!GenerateRaises, Converse!At
<1>2. run' = [run EXCEPT !.calls = run.calls + 1]
  BY DEF Converse!GenerateRaises
<1>3. run.calls + 1 \in 0..MaxCalls /\ run.calls \in Nat
  BY <1>1, CallsAssumption DEF Conversing
<1>4. /\ run' \in Conversing /\ run'.at = "idle" /\ run'.calls = run.calls + 1
      /\ run'.history = run.history /\ run'.lost = run.lost /\ run'.answered = run.answered
  BY <1>1, <1>2, <1>3 DEF Conversing
<1>5. Talking(run')
  BY <1>4 DEF Talking
<1>6. ASSUME NEW c \in run.lost \cup run.answered
      PROVE  c[1] <= run.calls + 1
  <2>1. c \in Converse!CallId
    BY <1>1 DEF Conversing
  <2>2. c[1] \in Nat /\ c[1] <= run.calls
    BY <2>1 DEF ConverseInv, Remembered, Converse!CallId
  <2> QED BY <1>3, <2>2
<1>7. ASSUME NEW a \in 1..Len(run.history), NEW c, Asks(run.history, a, c)
      PROVE  c[1] <= run.calls + 1
  <2>1. run.history \in Seq(Converse!MessageType)
    BY <1>1 DEF Conversing
  <2>2. c[1] \in Nat /\ c[1] <= run.calls
    BY <1>7, <2>1, AsksFor DEF ConverseInv, Remembered
  <2> QED BY <1>3, <2>2
<1>8. Remembered(run')
  BY <1>4, <1>6, <1>7 DEF ConverseInv, Remembered
<1> QED BY <1>4, <1>5, <1>8 DEF ConverseInv

LEMMA EnoughKeeps ==
  ASSUME ConverseInv, Converse!Enough
  PROVE  ConverseInv'
<1>1. run \in Conversing /\ run' = [run EXCEPT !.at = "done"]
  BY DEF ConverseInv, Converse!Enough
<1>2. /\ run' \in Conversing /\ run'.at = "done" /\ run'.calls = run.calls
      /\ run'.history = run.history /\ run'.lost = run.lost /\ run'.answered = run.answered
  BY <1>1 DEF Conversing
<1> QED BY <1>2 DEF ConverseInv, Remembered, Talking

LEMMA RequestFailsKeeps ==
  ASSUME ConverseInv, Converse!RequestFails
  PROVE  ConverseInv'
<1>1. run \in Conversing /\ run.at = "ask" /\ run' = [run EXCEPT !.at = "store"]
  BY DEF ConverseInv, Converse!RequestFails, Converse!At
<1>2. /\ run' \in Conversing /\ run'.at = "store" /\ run'.calls = run.calls
      /\ run'.history = run.history /\ run'.lost = run.lost /\ run'.answered = run.answered
      /\ run'.messages = run.messages
  BY <1>1 DEF Conversing
<1>3. run.requests \in Nat
  BY <1>1, CallsAssumption DEF Conversing
<1>4. Remembered(run')
  BY <1>1, <1>2, RememberedOn DEF ConverseInv
<1>5. /\ Sound(run.messages, run.lost) /\ run.calls > 0
      /\ \A a \in 1..Len(run.messages) : \A c : Asks(run.messages, a, c) =>
            Before(c, run.calls, run.requests)
  BY <1>1 DEF ConverseInv, Talking
<1>6. Talking(run')
  BY <1>2, <1>3, <1>5, TalkingOn
<1> QED BY <1>2, <1>4, <1>6 DEF ConverseInv

LEMMA StoreKeeps ==
  ASSUME ConverseInv, Converse!Store
  PROVE  ConverseInv'
<1>1. run \in Conversing /\ run.at = "store"
  BY DEF ConverseInv, Converse!Store, Converse!At
<1>2. PICK h : h = IF run.useHistory THEN run.messages ELSE run.history
  OBVIOUS
<1>3. /\ h \in Seq(Converse!MessageType) /\ Sound(h, run.lost)
      /\ \A a \in 1..Len(h) : \A c : Asks(h, a, c) => c[1] <= run.calls
  <2>1. CASE run.useHistory
    <3>1. h = run.messages
      BY <1>2, <2>1
    <3> QED BY <1>1, <3>1 DEF ConverseInv, Talking, Conversing
  <2>2. CASE ~run.useHistory
    <3>1. h = run.history
      BY <1>2, <2>2
    <3> QED BY <1>1, <3>1 DEF ConverseInv, Remembered, Conversing
  <2> QED BY <2>1, <2>2
<1>4. PICK e : e = <<>> /\ Len(e) = 0 /\ \A S : e \in Seq(S)
  BY NoElements
<1>5. run' = [run EXCEPT !.at = "idle", !.messages = e, !.history = h]
  BY <1>2, <1>4 DEF Converse!Store
<1>6. e \in Seq(Converse!MessageType)
  BY <1>4
<1>7. /\ run' \in Conversing /\ run'.at = "idle" /\ run'.calls = run.calls
      /\ run'.history = h /\ run'.lost = run.lost /\ run'.answered = run.answered
  BY <1>1, <1>3, <1>5, <1>6 DEF Conversing
<1> QED BY <1>3, <1>7 DEF ConverseInv, Remembered, Talking

LEMMA ReplyKeeps ==
  ASSUME ConverseInv, NEW reason \in {"stop", "limit", "tools"}, NEW n \in 0..MaxTools,
         Converse!Reply(reason, n)
  PROVE  ConverseInv'
<1> DEFINE T == Converse!MessageType
           x == run.calls
           y == run.requests
           ran == reason = "tools" /\ n > 0
<1>1. /\ run \in Conversing /\ run.at = "ask" /\ Remembered(run)
      /\ y < MaxRequests /\ x > 0 /\ Sound(run.messages, run.lost)
      /\ \A a \in 1..Len(run.messages) : \A c : Asks(run.messages, a, c) => Before(c, x, y)
  BY DEF ConverseInv, Talking, Converse!Reply, Converse!At
<1>2. /\ x \in 1..MaxCalls /\ y \in 0..MaxRequests /\ x \in Nat /\ y \in Nat /\ n \in Nat
      /\ run.messages \in Seq(T) /\ run.lost \subseteq Converse!CallId
      /\ run.answered \subseteq Converse!CallId
  BY <1>1, CallsAssumption DEF Conversing
<1>27. /\ y \in Nat /\ y < MaxRequests /\ MaxRequests \in Nat
       /\ y + 1 \in 0..MaxRequests /\ y + 1 \in Nat
       /\ y + 1 # MaxRequests => y + 1 < MaxRequests
  <2>1. y \in Nat /\ y < MaxRequests /\ MaxRequests \in Nat
    BY <1>1, <1>2, CallsAssumption
  <2> HIDE DEF y
  <2> QED BY <2>1
<1>3. PICK I : I = Converse!Ids(n)
  OBVIOUS
<1>4. I = [k \in 1..n |-> <<x, y, k>>]
  BY <1>3 DEF Converse!Ids
<1>5. /\ I \in Seq(Converse!CallId) /\ Len(I) = n /\ \A k \in 1..n : I[k] = <<x, y, k>>
      /\ \A c : c \in Range(I) <=> \E k \in 1..n : c = <<x, y, k>>
  <2>1. \A k \in 1..n : <<x, y, k>> \in Converse!CallId
    BY <1>2, CallsAssumption DEF Converse!CallId
  <2>2. I \in [1..n -> Converse!CallId]
    BY <1>4, <2>1
  <2>3. I \in Seq(Converse!CallId) /\ Len(I) = n
    BY <1>2, <2>2
  <2>4. DOMAIN I = 1..n /\ \A k \in 1..n : I[k] = <<x, y, k>>
    BY <1>4
  <2> QED BY <2>3, <2>4 DEF Range
<1>6. PICK r : r = Converse!Message("assistant", I)
  OBVIOUS
<1>7. r \in T /\ r.role = "assistant" /\ r.calls = I
  BY <1>5, <1>6 DEF Converse!Message, Converse!MessageType
<1>8. PICK m : m = Append(run.messages, r)
  OBVIOUS
<1>9. /\ m \in Seq(T) /\ Len(m) = Len(run.messages) + 1 /\ Len(run.messages) \in Nat
      /\ \A j \in 1..Len(run.messages) : m[j] = run.messages[j]
      /\ m[Len(run.messages) + 1] = r
  BY <1>2, <1>7, <1>8, AppendProperties
<1>10. PICK p \in 1..Len(m) : p = Len(run.messages) + 1
  BY <1>9
<1>11. p \in Nat \ {0} /\ p - 1 = Len(run.messages) /\ p = Len(m)
  BY <1>9, <1>10
<1>12. CallsOf(m, p, n, x, y)
  BY <1>5, <1>7, <1>9, <1>10 DEF CallsOf
<1>13. Settled(run.messages, p, x, y, run.lost)
  BY <1>1, <1>9, <1>10, SoundIsSettled
<1>14. ASSUME NEW c, Before(c, x, y)
       PROVE  c \notin Range(I)
  <2>1. ASSUME NEW k \in 1..n, c = <<x, y, k>>
        PROVE  FALSE
    <3>1. c[1] = x /\ c[2] = y
      BY <2>1
    <3> QED BY <1>2, <1>14, <3>1 DEF Before
  <2> QED BY <1>5, <2>1
<1>15. \A k \in 1..n : <<x, y, k>> \notin run.lost \cup run.answered
  <2>1. ASSUME NEW k \in 1..n, NEW c, c = <<x, y, k>>, c \in run.lost \cup run.answered
        PROVE  FALSE
    <3>1. Before(c, x, y)
      BY <1>1, <2>1 DEF Remembered
    <3>2. c[1] = x /\ c[2] = y
      BY <2>1
    <3> QED BY <1>2, <3>1, <3>2 DEF Before
  <2> QED BY <2>1
<1>16. PICK l : l = IF ran THEN run.lost ELSE run.lost \cup Range(I)
  OBVIOUS
<1>17. PICK w : w = IF ran \/ reason # "tools" THEN y ELSE y + 1
  OBVIOUS
<1>18. PICK z : z = CASE ran -> "tools"
                      [] reason \in {"stop", "limit"} -> "store"
                      [] OTHER -> Converse!Continue
  OBVIOUS
<1>19. run' = [run EXCEPT !.messages = m, !.lost = l, !.requests = w, !.at = z]
  <2>1. run' = [run EXCEPT
             !.messages = Append(run.messages, Converse!Message("assistant", Converse!Ids(n))),
             !.lost = IF ran THEN run.lost ELSE run.lost \cup Converse!Range(Converse!Ids(n)),
             !.requests = IF ran \/ reason # "tools" THEN y ELSE y + 1,
             !.at = CASE ran -> "tools"
                      [] reason \in {"stop", "limit"} -> "store"
                      [] OTHER -> Converse!Continue]
    BY Zenon DEF Converse!Reply
  <2>2. Converse!Range(I) = Range(I)
    BY DEF Converse!Range, Range
  <2> QED BY <1>3, <1>6, <1>8, <1>16, <1>17, <1>18, <2>1, <2>2, Zenon
<1>20. /\ ran => z = "tools" /\ w = y
       /\ ~ran => z = "store" \/ (z = "ask" /\ w = y + 1 /\ y + 1 < MaxRequests)
  <2>1. CASE ran
    BY <1>17, <1>18, <2>1
  <2>2. CASE ~ran /\ reason \in {"stop", "limit"}
    BY <1>17, <1>18, <2>2
  <2>3. CASE ~ran /\ reason = "tools"
    <3>1. w = y + 1 /\ z = Converse!Continue
      BY <1>17, <1>18, <2>3
    <3>2. z = "store" \/ (z = "ask" /\ y + 1 # MaxRequests)
      BY <3>1 DEF Converse!Continue
    <3>3. y + 1 # MaxRequests => y + 1 < MaxRequests
      BY <1>27
    <3> QED BY <2>3, <3>1, <3>2, <3>3
  <2> QED BY <2>1, <2>2, <2>3
<1>21. w \in 0..MaxRequests /\ z \in {"ask", "tools", "store"}
  <2>1. y + 1 \in 0..MaxRequests
    BY <1>27
  <2>2. w \in {y, y + 1}
    BY <1>17
  <2> QED BY <1>2, <1>20, <2>1, <2>2
<1>22. l \subseteq Converse!CallId /\ run.lost \subseteq l
       /\ \A c \in l : c \in run.lost \/ (c[1] = x /\ c[2] = y)
  <2>1. \A c \in Range(I) : c \in Converse!CallId /\ c[1] = x /\ c[2] = y
    <3>1. \A k \in 1..n : <<x, y, k>> \in Converse!CallId
      BY <1>2, CallsAssumption DEF Converse!CallId
    <3> QED BY <1>5, <3>1
  <2> QED BY <1>2, <1>16, <2>1
<1>23. /\ run' \in Conversing /\ run'.at = z /\ run'.calls = x /\ run'.requests = w
       /\ run'.messages = m /\ run'.history = run.history /\ run'.lost = l
       /\ run'.answered = run.answered
  BY <1>1, <1>9, <1>19, <1>21, <1>22 DEF Conversing
<1>24. Remembered(run')
  BY <1>1, <1>20, <1>22, <1>23, RememberedOn
<1>25. CASE ran
  <2>1. l = run.lost /\ n \in 1..MaxTools
    BY <1>16, <1>25, CallsAssumption
  <2>2. Settled(m, p, x, y, l)
    BY <1>9, <1>11, <1>13, <2>1, SettledOn
  <2>3. Len(m) - p = 0 /\ \A t \in 1..Len(m) : ~(t > p)
    BY <1>9, <1>11
  <2>4. Working(m, p, n, run')
    BY <1>11, <1>12, <1>15, <1>20, <1>23, <1>25, <2>1, <2>2, <2>3 DEF Working
  <2>5. Talking(run')
    BY <1>1, <1>20, <1>23, <1>25, <2>4 DEF Talking
  <2> QED BY <1>23, <1>24, <2>5 DEF ConverseInv
<1>26. CASE ~ran
  <2>1. l = run.lost \cup Range(I)
    BY <1>16, <1>26
  <2>2. \A c : Before(c, x, y) => (c \in l <=> c \in run.lost)
    BY <1>14, <2>1
  <2>3. Settled(m, p, x, y, l)
    BY <1>9, <1>11, <1>13, <2>2, SettledOn
  <2>4. \A k \in 1..n : <<x, y, k>> \in l <=> ~\E j \in 1..(Len(m) - p) : I[j] = k
    <3>1. \A j \in 1..(Len(m) - p) : FALSE
      BY <1>9, <1>11
    <3>2. \A k \in 1..n : <<x, y, k>> \in l
      BY <1>5, <2>1
    <3> QED BY <3>1, <3>2
  <2>5. \A t \in 1..Len(m) : t > p =>
          /\ m[t].role = "tool" /\ m[t].calls[1] = <<x, y, I[t - p]>>
          /\ I[t - p] \in 1..n /\ (t - 1 > p => I[(t - 1) - p] < I[t - p])
    BY <1>11
  <2>6. /\ Sound(m, l)
        /\ \A a \in 1..Len(m) : \A c : Asks(m, a, c) => Before(c, x, y + 1)
    <3> HIDE DEF x, y, ran
    <3>1. x \in Nat /\ y \in Nat /\ n \in Nat /\ m \in Seq(T)
      BY <1>2, <1>9
    <3> QED BY <1>12, <2>3, <2>4, <2>5, <3>1, RoundIsSound
  <2>7. Talking(run')
    <3>1. run'.at \in {"ask", "store"} /\ run'.calls > 0
      BY <1>1, <1>20, <1>23, <1>26
    <3>2. /\ Sound(run'.messages, run'.lost)
          /\ \A a \in 1..Len(run'.messages) : \A c :
                Asks(run'.messages, a, c) => Before(c, run'.calls, y + 1)
      BY <1>23, <2>6
    <3>3. run'.at = "ask" => run'.requests = y + 1 /\ y + 1 < MaxRequests
      BY <1>20, <1>23, <1>26
    <3>4. y + 1 \in Nat /\ run' \in Conversing
      BY <1>23, <1>27
    <3> HIDE DEF y, ran
    <3> QED BY <3>1, <3>2, <3>3, <3>4, TalkingOn
  <2> QED BY <1>23, <1>24, <2>7 DEF ConverseInv
<1> QED BY <1>25, <1>26

(* The message being worked on is the last one that is not a result. *)
LEMMA LastReplyIs ==
  ASSUME NEW p, NEW n, run.messages \in Seq(Converse!MessageType),
         Working(run.messages, p, n, run)
  PROVE  Converse!LastReply = p /\ Converse!Pending = run.messages[p].calls
<1> DEFINE m == run.messages
           Is(j) == /\ m[j].role = "assistant"
                    /\ \A k \in DOMAIN m : k > j => m[k].role = "tool"
<1>1. p \in 1..Len(m) /\ m[p].role = "assistant" /\ \A t \in 1..Len(m) : t > p => m[t].role = "tool"
  BY DEF Working, CallsOf
<1>2. DOMAIN m = 1..Len(m) /\ Len(m) \in Nat
  BY LenProperties
<1>3. p \in DOMAIN m /\ Is(p)
  BY <1>1, <1>2
<1>4. ASSUME NEW j \in DOMAIN m, Is(j)
      PROVE  j = p
  <2>1. ~(j > p) /\ ~(p > j)
    BY <1>1, <1>2, <1>4
  <2> QED BY <1>1, <1>2, <2>1
<1>5. Converse!LastReply = CHOOSE j \in DOMAIN m : Is(j)
  BY DEF Converse!LastReply
<1>6. Converse!LastReply = p
  <2> HIDE DEF Is
  <2> QED BY <1>3, <1>4, <1>5
<1> QED BY <1>6 DEF Converse!Pending

(* The state in which the tools of a message run. *)
LEMMA AtTools ==
  ASSUME ConverseInv, run.at = "tools"
  PROVE  /\ run \in Conversing /\ Remembered(run) /\ run.calls > 0
         /\ run.calls \in 1..MaxCalls /\ run.requests \in 0..MaxRequests
         /\ run.calls \in Nat /\ run.requests \in Nat /\ run.requests + 1 \in Nat
         /\ run.requests + 1 \in 0..MaxRequests
         /\ run.messages \in Seq(Converse!MessageType) /\ Len(run.messages) \in Nat
         /\ \/ Converse!Continue = "store"
            \/ Converse!Continue = "ask" /\ run.requests + 1 < MaxRequests
         /\ \E p, n : Working(run.messages, p, n, run)
<1>1. run \in Conversing /\ Remembered(run) /\ run.calls > 0 /\ run.requests < MaxRequests
  BY DEF ConverseInv, Talking
<1>2. \E p, n : Working(run.messages, p, n, run)
  BY DEF ConverseInv, Talking
<1>3. /\ run.calls \in 0..MaxCalls /\ run.requests \in 0..MaxRequests
      /\ run.messages \in Seq(Converse!MessageType)
  BY <1>1 DEF Conversing
<1>4. /\ run.calls \in 1..MaxCalls /\ run.calls \in Nat /\ run.requests \in Nat
      /\ run.requests + 1 \in Nat /\ run.requests + 1 \in 0..MaxRequests
      /\ run.requests + 1 # MaxRequests => run.requests + 1 < MaxRequests
  <2>1. PICK x, y : x = run.calls /\ y = run.requests
    OBVIOUS
  <2>2. /\ x \in 0..MaxCalls /\ x > 0 /\ y \in 0..MaxRequests /\ y < MaxRequests
        /\ MaxCalls \in Nat /\ MaxRequests \in Nat
    BY <1>1, <1>3, <2>1, CallsAssumption
  <2>3. /\ x \in 1..MaxCalls /\ x \in Nat /\ y \in Nat /\ y + 1 \in Nat
        /\ y + 1 \in 0..MaxRequests /\ (y + 1 # MaxRequests => y + 1 < MaxRequests)
    <3> HIDE <2>1
    <3> QED BY <2>2
  <2> QED BY <1>3, <2>1, <2>3
<1>5. \/ Converse!Continue = "store"
      \/ Converse!Continue = "ask" /\ run.requests + 1 # MaxRequests
  BY DEF Converse!Continue
<1> QED BY <1>1, <1>2, <1>3, <1>4, <1>5

LEMMA ToolEndsKeeps ==
  ASSUME ConverseInv, NEW k \in 1..MaxTools, NEW content \in BOOLEAN,
         Converse!ToolEnds(k, content)
  PROVE  ConverseInv'
<1> DEFINE x == run.calls
           y == run.requests
<1>1. run.at = "tools" /\ run.provider = "openai"
  BY DEF Converse!ToolEnds, Converse!At
<1>2. PICK p, n : Working(run.messages, p, n, run)
  BY <1>1, AtTools
<1>3. /\ p \in 1..Len(run.messages) /\ n \in 1..MaxTools
      /\ Converse!Pending = run.messages[p].calls
      /\ Len(run.messages[p].calls) = n
      /\ run.messages[p].calls \in Seq(Converse!CallId)
  <2>1. run.messages \in Seq(Converse!MessageType)
    BY <1>1, AtTools
  <2>2. p \in 1..Len(run.messages) /\ n \in 1..MaxTools /\ Len(run.messages[p].calls) = n
    BY <1>2 DEF Working, CallsOf
  <2>3. run.messages[p] \in Converse!MessageType
    BY <2>1, <2>2
  <2> QED BY <1>2, <2>1, <2>2, <2>3, LastReplyIs DEF Converse!MessageType
<1>4. DOMAIN Converse!Pending = 1..n
  BY <1>3, LenProperties
<1>5. k \in 1..n
  BY <1>4 DEF Converse!ToolEnds
<1>6. PICK c : c = <<x, y, k>>
  OBVIOUS
<1>7. Converse!Pending[k] = c
  BY <1>2, <1>3, <1>5, <1>6 DEF Working, CallsOf
<1>8. c[1] = x /\ c[2] = y /\ c \notin run.answered \cup run.lost
  BY <1>6, <1>7 DEF Converse!ToolEnds
<1>9. PICK l : l = IF content THEN run.lost ELSE run.lost \cup {c}
  OBVIOUS
<1>10. PICK s : s = IF content THEN run.answered \cup {c} ELSE run.answered
  OBVIOUS
<1>11. run' = [run EXCEPT !.answered = s, !.lost = l]
  BY <1>7, <1>9, <1>10 DEF Converse!ToolEnds
<1>12. c \in Converse!CallId
  <2>1. x \in 1..MaxCalls /\ y \in 0..MaxRequests
    BY <1>1, AtTools
  <2> QED BY <1>6, <2>1 DEF Converse!CallId
<1>13. /\ run \in Conversing /\ run.lost \subseteq l
       /\ l \subseteq run.lost \cup {c} /\ s \subseteq run.answered \cup {c}
       /\ ~(c \in l /\ c \in s)
  BY <1>1, <1>8, <1>9, <1>10, AtTools
<1>14. /\ run' \in Conversing /\ run'.at = "tools" /\ run'.calls = x /\ run'.requests = y
       /\ run'.messages = run.messages /\ run'.history = run.history
       /\ run'.lost = l /\ run'.answered = s /\ run'.provider = "openai"
  BY <1>1, <1>11, <1>12, <1>13 DEF Conversing
<1>15. Remembered(run')
  <2>1. \A d \in l : d \in run.lost \/ d[1] = x
    BY <1>8, <1>13
  <2>2. \A d \in l \cup s : d \in run.lost \cup run.answered \/ (d[1] = x /\ d[2] = y)
    BY <1>8, <1>13
  <2>3. Remembered(run)
    BY DEF ConverseInv
  <2> QED BY <1>1, <1>13, <1>14, <2>1, <2>2, <2>3, RememberedOn
<1>16. Settled(run.messages, p, x, y, l)
  <2>1. ~Before(c, x, y)
    <3>1. x \in Nat /\ y \in Nat
      BY <1>1, AtTools
    <3> QED BY <1>8, <3>1 DEF Before
  <2>2. \A d : Before(d, x, y) => (d \in l <=> d \in run.lost)
    BY <1>13, <2>1
  <2>3. Settled(run.messages, p, x, y, run.lost)
    BY <1>2 DEF Working
  <2>4. p \in Nat \ {0}
    BY <1>3
  <2> QED BY <2>2, <2>3, <2>4, SettledOn
<1>17. \A i \in 1..n : ~(<<x, y, i>> \in s /\ <<x, y, i>> \in l)
  <2>1. ASSUME NEW i \in 1..n, NEW d, d = <<x, y, i>>, d \in s, d \in l
        PROVE  FALSE
    <3>1. d # c
      BY <1>13, <2>1
    <3>2. d \in run.answered /\ d \in run.lost
      BY <1>13, <2>1, <3>1
    <3>3. ~(<<x, y, i>> \in run.answered /\ <<x, y, i>> \in run.lost)
      BY <1>1, <1>2 DEF Working
    <3> QED BY <2>1, <3>2, <3>3
  <2> QED BY <2>1
<1>18. Working(run.messages, p, n, run')
  <2>1. /\ CallsOf(run.messages, p, n, x, y) /\ p = Len(run.messages)
        /\ \A t \in 1..Len(run.messages) : t > p =>
              run.messages[t].role = "tool" /\ run.messages[t].calls[1] = <<x, y, t - p>>
    BY <1>1, <1>2 DEF Working
  <2> QED BY <1>3, <1>14, <1>16, <1>17, <2>1 DEF Working
<1>19. Talking(run')
  <2>1. run.requests < MaxRequests /\ run.calls > 0
    BY <1>1 DEF ConverseInv, Talking
  <2> QED BY <1>14, <1>18, <2>1 DEF Talking
<1> QED BY <1>14, <1>15, <1>19 DEF ConverseInv

LEMMA AppendResultsKeeps ==
  ASSUME ConverseInv, Converse!AppendResults
  PROVE  ConverseInv'
<1> DEFINE T == Converse!MessageType
<1>1. run.at = "tools" /\ run.provider = "openai"
  BY DEF Converse!AppendResults, Converse!At
<1>2. PICK p, n : Working(run.messages, p, n, run)
  BY <1>1, AtTools
<1>3. PICK x, y : x = run.calls /\ y = run.requests
  OBVIOUS
<1>4. /\ run \in Conversing /\ Remembered(run) /\ x > 0 /\ run.messages \in Seq(T)
      /\ x \in Nat /\ y \in Nat /\ y + 1 \in Nat /\ y + 1 \in 0..MaxRequests
      /\ \/ Converse!Continue = "store"
         \/ Converse!Continue = "ask" /\ y + 1 < MaxRequests
  BY <1>1, <1>3, AtTools
<1>5. /\ CallsOf(run.messages, p, n, x, y) /\ Settled(run.messages, p, x, y, run.lost)
      /\ p = Len(run.messages) /\ n \in 1..MaxTools
      /\ \A k \in 1..n : ~(<<x, y, k>> \in run.answered /\ <<x, y, k>> \in run.lost)
  BY <1>1, <1>2, <1>3 DEF Working
<1>6. PICK C : C = Converse!Pending
  OBVIOUS
<1>7. /\ C \in Seq(Converse!CallId) /\ Len(C) = n /\ n \in Nat /\ p \in Nat /\ p > 0
      /\ p \in 1..Len(run.messages)
      /\ \A k \in 1..n : C[k] = <<x, y, k>>
  <2>1. p \in 1..Len(run.messages) /\ C = run.messages[p].calls
    BY <1>2, <1>4, <1>5, <1>6, LastReplyIs DEF CallsOf
  <2>2. run.messages[p] \in T
    BY <1>4, <2>1
  <2> QED BY <1>5, <2>1, <2>2 DEF CallsOf, Converse!MessageType
<1>8. \A k \in 1..n : C[k] \in run.answered \cup run.lost
  <2>1. DOMAIN C = 1..n
    BY <1>7, LenProperties
  <2> QED BY <1>6, <2>1 DEF Converse!AppendResults, Converse!Range
<1>9. PICK kept : kept = Filtered(C, run.answered)
  OBVIOUS
<1>10. PICK e : Places(kept, e, C, run.answered, n)
  BY <1>7, <1>9, FilteredPlaces
<1>11. /\ kept \in Seq(run.answered) /\ Len(kept) \in Nat /\ DOMAIN kept = 1..Len(kept)
       /\ \A j \in 1..Len(kept) : kept[j] \in run.answered
       /\ \A j \in 1..Len(kept) : e[j] \in 1..n
       /\ \A i, j \in 1..Len(kept) : i < j => e[i] < e[j]
       /\ \A j \in 1..Len(kept) : kept[j] = C[e[j]]
       /\ \A i \in 1..n : C[i] \in run.answered => \E j \in 1..Len(kept) : e[j] = i
  BY <1>10, LenProperties DEF Places
<1>12. PICK R : R = Converse!Results
  OBVIOUS
<1>13. R = [j \in 1..Len(kept) |-> Converse!Message("tool", <<kept[j]>>)]
  <2>1. Converse!Filtered(C, run.answered) = kept
    BY <1>9 DEF Converse!Filtered, Filtered
  <2> QED BY <1>6, <1>11, <1>12, <2>1 DEF Converse!Results
<1>14. ASSUME NEW j \in 1..Len(kept)
       PROVE  R[j] \in T /\ R[j].role = "tool" /\ R[j].calls[1] = kept[j]
  <2>1. kept[j] \in Converse!CallId
    BY <1>7, <1>11
  <2>2. PICK d : d = <<kept[j]>>
    OBVIOUS
  <2>3. d \in Seq(Converse!CallId) /\ d[1] = kept[j]
    BY <2>1, <2>2
  <2>4. R[j] = [role |-> "tool", calls |-> d]
    BY <1>13, <2>2 DEF Converse!Message
  <2> QED BY <2>3, <2>4 DEF Converse!MessageType
<1>15. R \in Seq(T) /\ Len(R) = Len(kept)
  <2>1. PICK N \in Nat : N = Len(kept)
    BY <1>11
  <2>2. R \in [1..N -> T]
    BY <1>13, <1>14, <2>1
  <2> QED BY <2>1, <2>2
<1>16. PICK q : q = run.messages \o R
  OBVIOUS
<1>17. /\ q \in Seq(T) /\ Len(q) = p + Len(kept)
       /\ \A j \in 1..p : q[j] = run.messages[j]
       /\ \A j \in 1..Len(kept) : q[p + j] = R[j]
  <2>1. PICK m : m = run.messages
    OBVIOUS
  <2>2. m \in Seq(T) /\ Len(m) = p
    BY <1>4, <1>5, <2>1
  <2>3. /\ m \o R \in Seq(T) /\ Len(m \o R) = Len(m) + Len(R)
        /\ \A j \in 1..Len(m) : (m \o R)[j] = m[j]
        /\ \A j \in 1..Len(R) : (m \o R)[Len(m) + j] = R[j]
    <3>1. m \in Seq(T) /\ R \in Seq(T)
      BY <1>15, <2>2
    <3> HIDE DEF T
    <3> QED BY <3>1, SeveralMore
  <2>4. q = m \o R
    BY <1>16, <2>1
  <2> QED BY <1>15, <2>1, <2>2, <2>3, <2>4
<1>18. CallsOf(q, p, n, x, y) /\ p \in 1..Len(q)
  <2>1. p \in 1..p /\ p \in 1..Len(q)
    BY <1>7, <1>11, <1>17
  <2>2. q[p] = run.messages[p]
    BY <1>17, <2>1
  <2> QED BY <1>5, <2>1, <2>2 DEF CallsOf
<1>19. Settled(q, p, x, y, run.lost)
  <2>1. \A j \in 1..(p - 1) : q[j] = run.messages[j]
    BY <1>7, <1>17
  <2>2. p \in Nat \ {0} /\ Settled(run.messages, p, x, y, run.lost)
    BY <1>5, <1>7
  <2>3. \A c : Before(c, x, y) => (c \in run.lost <=> c \in run.lost)
    OBVIOUS
  <2> QED BY <2>1, <2>2, <2>3, SettledOn
<1>20. ASSUME NEW t \in 1..Len(q), t > p
       PROVE  /\ q[t].role = "tool" /\ q[t].calls[1] = <<x, y, e[t - p]>>
              /\ e[t - p] \in 1..n /\ (t - 1 > p => e[(t - 1) - p] < e[t - p])
  <2>1. PICK j \in 1..Len(kept) : j = t - p /\ p + j = t
    BY <1>7, <1>11, <1>17, <1>20
  <2>2. q[t] = R[j] /\ e[j] \in 1..n /\ kept[j] = <<x, y, e[j]>>
    BY <1>7, <1>11, <1>17, <2>1
  <2>3. ASSUME t - 1 > p
        PROVE  e[(t - 1) - p] < e[t - p]
    <3>1. j - 1 \in 1..Len(kept) /\ j - 1 < j /\ (t - 1) - p = j - 1
      BY <1>7, <1>11, <2>1, <2>3
    <3> QED BY <1>11, <2>1, <3>1
  <2> QED BY <1>14, <2>1, <2>2, <2>3
<1>21. ASSUME NEW k \in 1..n
       PROVE  <<x, y, k>> \in run.lost <=> ~\E j \in 1..(Len(q) - p) : e[j] = k
  <2>1. Len(q) - p = Len(kept)
    BY <1>7, <1>11, <1>17
  <2>2. C[k] = <<x, y, k>>
    BY <1>7
  <2>3. ASSUME C[k] \in run.lost, NEW j \in 1..Len(kept), e[j] = k
        PROVE  FALSE
    <3>1. C[k] \in run.answered
      BY <1>11, <2>3
    <3> QED BY <1>5, <2>2, <2>3, <3>1
  <2>4. ASSUME C[k] \notin run.lost
        PROVE  \E j \in 1..Len(kept) : e[j] = k
    <3>1. C[k] \in run.answered
      BY <1>8, <2>4
    <3> QED BY <1>11, <3>1
  <2> QED BY <2>1, <2>2, <2>3, <2>4
<1>22. /\ Sound(q, run.lost)
       /\ \A a \in 1..Len(q) : \A c : Asks(q, a, c) => Before(c, x, y + 1)
  <2>1. q \in Seq(T) /\ x \in Nat /\ y \in Nat /\ n \in Nat /\ p \in 1..Len(q)
    BY <1>4, <1>7, <1>17, <1>18
  <2>2. \A t \in 1..Len(q) : t > p =>
            /\ q[t].role = "tool" /\ q[t].calls[1] = <<x, y, e[t - p]>>
            /\ e[t - p] \in 1..n /\ (t - 1 > p => e[(t - 1) - p] < e[t - p])
    BY <1>20
  <2>3. \A k \in 1..n : <<x, y, k>> \in run.lost <=> ~\E j \in 1..(Len(q) - p) : e[j] = k
    BY <1>21
  <2> QED BY <1>18, <1>19, <2>1, <2>2, <2>3, RoundIsSound
<1>23. PICK z : z = Converse!Continue
  OBVIOUS
<1>24. run' = [run EXCEPT !.messages = q, !.at = z, !.requests = y + 1]
  BY <1>3, <1>12, <1>16, <1>23 DEF Converse!AppendResults
<1>25. z \in {"ask", "store"} /\ (z = "ask" => y + 1 < MaxRequests)
  BY <1>4, <1>23
<1>26. /\ run' \in Conversing /\ run'.at = z /\ run'.calls = x /\ run'.requests = y + 1
       /\ run'.messages = q /\ run'.history = run.history
       /\ run'.lost = run.lost /\ run'.answered = run.answered
  BY <1>3, <1>4, <1>17, <1>24, <1>25 DEF Conversing
<1>27. Remembered(run')
  BY <1>1, <1>3, <1>4, <1>25, <1>26, RememberedOn
<1>28. Talking(run')
  <2>1. run'.at \in {"ask", "store"} /\ run'.calls > 0 /\ run' \in Conversing
    BY <1>4, <1>25, <1>26
  <2>2. /\ Sound(run'.messages, run'.lost)
        /\ \A a \in 1..Len(run'.messages) : \A c :
              Asks(run'.messages, a, c) => Before(c, run'.calls, y + 1)
    BY <1>22, <1>26
  <2>3. run'.at = "ask" => run'.requests = y + 1 /\ y + 1 < MaxRequests
    BY <1>25, <1>26
  <2> QED BY <1>4, <2>1, <2>2, <2>3, TalkingOn
<1> QED BY <1>26, <1>27, <1>28 DEF ConverseInv

LEMMA RunToolKeeps ==
  ASSUME ConverseInv, Converse!RunTool
  PROVE  ConverseInv'
<1> DEFINE T == Converse!MessageType
<1>1. run.at = "tools" /\ run.provider = "anthropic"
  BY DEF Converse!RunTool, Converse!At
<1>2. PICK p, n : Working(run.messages, p, n, run)
  BY <1>1, AtTools
<1>3. PICK x, y : x = run.calls /\ y = run.requests
  OBVIOUS
<1>4. /\ run \in Conversing /\ Remembered(run) /\ x > 0 /\ run.messages \in Seq(T)
      /\ x \in Nat /\ y \in Nat /\ y + 1 \in Nat /\ y + 1 \in 0..MaxRequests
      /\ x \in 1..MaxCalls /\ y \in 0..MaxRequests
      /\ \/ Converse!Continue = "store"
         \/ Converse!Continue = "ask" /\ y + 1 < MaxRequests
  BY <1>1, <1>3, AtTools
<1>5. PICK M : M = run.messages
  OBVIOUS
<1>6. /\ M \in Seq(T) /\ Len(M) \in Nat /\ p \in 1..Len(M) /\ n \in 1..MaxTools
      /\ CallsOf(M, p, n, x, y) /\ Settled(M, p, x, y, run.lost)
      /\ Len(M) - p < n
      /\ \A k \in 1..n : <<x, y, k>> \notin run.lost
      /\ \A t \in 1..Len(M) : t > p =>
            M[t].role = "tool" /\ M[t].calls[1] = <<x, y, t - p>>
  BY <1>1, <1>2, <1>3, <1>4, <1>5 DEF Working, CallsOf
<1>7. Converse!LastReply = p /\ Converse!Pending = M[p].calls
  BY <1>2, <1>4, <1>5, LastReplyIs
<1>8. PICK k : k = (Len(M) - p) + 1
  OBVIOUS
<1>9. n \in Nat /\ p \in Nat \ {0} /\ k \in 1..n /\ p + k = Len(M) + 1
  BY <1>6, <1>8
<1>10. PICK c : c = <<x, y, k>>
  OBVIOUS
<1>11. /\ Len(M[p].calls) = n /\ M[p].calls[k] = c
       /\ c \in Converse!CallId /\ c[1] = x /\ c[2] = y
  <2>1. c \in Converse!CallId
    BY <1>4, <1>6, <1>9, <1>10, CallsAssumption DEF Converse!CallId
  <2> QED BY <1>6, <1>9, <1>10, <2>1 DEF CallsOf
<1>12. PICK r : r = Converse!Message("tool", <<c>>)
  OBVIOUS
<1>13. r \in T /\ r.role = "tool" /\ r.calls[1] = c
  <2>1. PICK d : d = <<c>>
    OBVIOUS
  <2>2. d \in Seq(Converse!CallId) /\ d[1] = c
    BY <1>11, <2>1
  <2>3. r = [role |-> "tool", calls |-> d]
    BY <1>12, <2>1 DEF Converse!Message
  <2> QED BY <2>2, <2>3 DEF Converse!MessageType
<1>14. PICK q : q = Append(M, r)
  OBVIOUS
<1>15. /\ q \in Seq(T) /\ Len(q) = Len(M) + 1
       /\ \A j \in 1..Len(M) : q[j] = M[j]
       /\ q[Len(M) + 1] = r
  BY <1>6, <1>13, <1>14, AppendProperties
<1>28. Len(M) \in Nat /\ p \in 1..Len(M) /\ Len(q) = Len(M) + 1
  BY <1>6, <1>15
<1>29. \A j \in 1..Len(M) : q[j] = M[j]
  BY <1>15
<1>16. CallsOf(q, p, n, x, y) /\ p \in 1..Len(q)
  <2>1. p \in 1..Len(q) /\ q[p] = M[p]
    BY <1>28, <1>29
  <2> QED BY <1>6, <2>1 DEF CallsOf
<1>17. Settled(q, p, x, y, run.lost)
  <2>1. \A j \in 1..(p - 1) : q[j] = M[j]
    BY <1>28, <1>29
  <2>2. \A d : Before(d, x, y) => (d \in run.lost <=> d \in run.lost)
    OBVIOUS
  <2> QED BY <1>6, <1>9, <2>1, <2>2, SettledOn
<1>18. ASSUME NEW t \in 1..Len(q), t > p
       PROVE  q[t].role = "tool" /\ q[t].calls[1] = <<x, y, t - p>> /\ t - p \in 1..k
  <2>1. CASE t \in 1..Len(M)
    <3>1. q[t] = M[t] /\ t - p \in 1..k
      BY <1>6, <1>8, <1>15, <1>18, <2>1
    <3> QED BY <1>6, <1>18, <2>1, <3>1
  <2>2. CASE t = Len(M) + 1
    <3>1. q[t] = r /\ t - p = k
      BY <1>6, <1>9, <1>15, <2>2
    <3> QED BY <1>9, <1>10, <1>13, <3>1
  <2>3. t \in 1..Len(M) \/ t = Len(M) + 1
    BY <1>28
  <2> QED BY <2>1, <2>2, <2>3
<1>19. PICK z, w : /\ z = IF k = n THEN Converse!Continue ELSE "tools"
                   /\ w = IF k = n THEN y + 1 ELSE y
  OBVIOUS
<1>20. PICK s : s = run.answered \cup {c}
  OBVIOUS
<1>21. run' = [run EXCEPT !.messages = q, !.answered = s, !.at = z, !.requests = w]
  <2>1. (Len(M) - p) + 1 = Len(M) - p + 1
    OBVIOUS
  <2>2. Len(run.messages) - Converse!LastReply + 1 = k /\ Converse!Pending[k] = c
        /\ Len(Converse!Pending) = n
    BY <1>5, <1>7, <1>8, <1>11
  <2> QED BY <1>3, <1>5, <1>12, <1>14, <1>19, <1>20, <2>2 DEF Converse!RunTool
<1>22. /\ k = n => w = y + 1 /\ (z = "store" \/ (z = "ask" /\ y + 1 < MaxRequests))
       /\ k # n => w = y /\ z = "tools"
  BY <1>4, <1>19
<1>23. w \in 0..MaxRequests /\ z \in {"ask", "tools", "store"} /\ s \subseteq Converse!CallId
  <2>1. run.answered \subseteq Converse!CallId
    BY <1>4 DEF Conversing
  <2> QED BY <1>4, <1>11, <1>20, <1>22, <2>1
<1>24. /\ run' \in Conversing /\ run'.at = z /\ run'.calls = x /\ run'.requests = w
       /\ run'.messages = q /\ run'.history = run.history /\ run'.provider = "anthropic"
       /\ run'.lost = run.lost /\ run'.answered = s
  BY <1>1, <1>3, <1>4, <1>15, <1>21, <1>23 DEF Conversing
<1>25. Remembered(run')
  <2>1. \A d \in run.lost \cup s :
           d \in run.lost \cup run.answered \/ (d[1] = run.calls /\ d[2] = run.requests)
    BY <1>3, <1>11, <1>20
  <2>2. \/ z = "store"
        \/ z = "tools" /\ w = run.requests
        \/ z = "ask" /\ w = run.requests + 1
    BY <1>3, <1>22
  <2> QED BY <1>1, <1>3, <1>4, <1>24, <2>1, <2>2, RememberedOn
<1>26. CASE k # n
  <2>1. Len(q) - p < n
    <3>1. k < n
      BY <1>9, <1>26
    <3>2. Len(q) - p = k
      BY <1>8, <1>9, <1>28
    <3> QED BY <3>1, <3>2
  <2>2. \A t \in 1..Len(q) : t > p =>
            q[t].role = "tool" /\ q[t].calls[1] = <<x, y, t - p>>
    BY <1>18
  <2>3. Working(q, p, n, run')
    BY <1>6, <1>16, <1>17, <1>22, <1>24, <1>26, <2>1, <2>2 DEF Working
  <2>4. run.requests < MaxRequests
    BY <1>1 DEF ConverseInv, Talking
  <2>5. Talking(run')
    BY <1>3, <1>4, <1>22, <1>24, <1>26, <2>3, <2>4 DEF Talking
  <2> QED BY <1>24, <1>25, <2>5 DEF ConverseInv
<1>27. CASE k = n
  <2>1. PICK e : e = [j \in 1..n |-> j]
    OBVIOUS
  <2>2. \A j \in 1..n : e[j] = j
    BY <2>1
  <2>3. ASSUME NEW t \in 1..Len(q), t > p
        PROVE  /\ q[t].role = "tool" /\ q[t].calls[1] = <<x, y, e[t - p]>>
               /\ e[t - p] \in 1..n /\ (t - 1 > p => e[(t - 1) - p] < e[t - p])
    <3>1. t - p \in 1..n /\ e[t - p] = t - p
      BY <1>18, <1>27, <2>2, <2>3
    <3>2. ASSUME t - 1 > p
          PROVE  e[(t - 1) - p] < e[t - p]
      <4>1. (t - 1) - p \in 1..n /\ (t - 1) - p < t - p
        BY <1>9, <1>15, <3>1, <3>2
      <4> QED BY <2>2, <3>1, <4>1
    <3> QED BY <1>18, <2>3, <3>1, <3>2
  <2>4. ASSUME NEW i \in 1..n
        PROVE  <<x, y, i>> \in run.lost <=> ~\E j \in 1..(Len(q) - p) : e[j] = i
    <3>1. Len(q) - p = n
      BY <1>6, <1>8, <1>9, <1>15, <1>27
    <3> QED BY <1>6, <2>2, <3>1
  <2>5. /\ Sound(q, run.lost)
        /\ \A a \in 1..Len(q) : \A d : Asks(q, a, d) => Before(d, x, y + 1)
    <3>1. q \in Seq(T) /\ x \in Nat /\ y \in Nat /\ n \in Nat
      BY <1>4, <1>9, <1>15
    <3>2. \A t \in 1..Len(q) : t > p =>
            /\ q[t].role = "tool" /\ q[t].calls[1] = <<x, y, e[t - p]>>
            /\ e[t - p] \in 1..n /\ (t - 1 > p => e[(t - 1) - p] < e[t - p])
      BY <2>3
    <3>3. \A i \in 1..n : <<x, y, i>> \in run.lost <=> ~\E j \in 1..(Len(q) - p) : e[j] = i
      BY <2>4
    <3> QED BY <1>16, <1>17, <3>1, <3>2, <3>3, RoundIsSound
  <2>6. run'.at \in {"ask", "store"} /\ run'.calls > 0 /\ run' \in Conversing
    BY <1>4, <1>22, <1>24, <1>27
  <2>7. /\ Sound(run'.messages, run'.lost)
        /\ \A a \in 1..Len(run'.messages) : \A d :
              Asks(run'.messages, a, d) => Before(d, run'.calls, y + 1)
    BY <1>24, <2>5
  <2>8. run'.at = "ask" => run'.requests = y + 1 /\ y + 1 < MaxRequests
    BY <1>22, <1>24, <1>27
  <2>9. Talking(run')
    BY <1>4, <2>6, <2>7, <2>8, TalkingOn
  <2> QED BY <1>24, <1>25, <2>9 DEF ConverseInv
<1> QED BY <1>26, <1>27

LEMMA ConverseStep == ConverseInv /\ Converse!Next => ConverseInv'
<1> SUFFICES ASSUME ConverseInv, Converse!Next
             PROVE  ConverseInv'
  OBVIOUS
<1>1. CASE \E h \in BOOLEAN : Converse!Generate(h)
  BY <1>1, GenerateKeeps
<1>2. CASE Converse!GenerateRaises
  BY <1>2, GenerateRaisesKeeps
<1>3. CASE Converse!Enough
  BY <1>3, EnoughKeeps
<1>4. CASE Converse!RequestFails
  BY <1>4, RequestFailsKeeps
<1>5. CASE \E r \in {"stop", "limit", "tools"}, n \in 0..MaxTools : Converse!Reply(r, n)
  BY <1>5, ReplyKeeps
<1>6. CASE \E k \in 1..MaxTools, c \in BOOLEAN : Converse!ToolEnds(k, c)
  BY <1>6, ToolEndsKeeps
<1>7. CASE Converse!AppendResults
  BY <1>7, AppendResultsKeeps
<1>8. CASE Converse!RunTool
  BY <1>8, RunToolKeeps
<1>9. CASE Converse!Store
  BY <1>9, StoreKeeps
<1> QED BY <1>1, <1>2, <1>3, <1>4, <1>5, <1>6, <1>7, <1>8, <1>9, Zenon DEF Converse!Next

LEMMA ConverseImplies ==
  ConverseInv => Converse!TypeOK /\ Converse!AnswersFollowTheirCalls
<1> SUFFICES ASSUME ConverseInv
             PROVE  Converse!TypeOK /\ Converse!AnswersFollowTheirCalls
  OBVIOUS
<1>1. run \in Conversing
  BY DEF ConverseInv
<1>2. /\ run.at \in {"idle", "ask", "tools", "store", "done"}
      /\ run.provider \in {"openai", "anthropic"} /\ run.calls \in 0..MaxCalls
      /\ run.requests \in 0..MaxRequests /\ run.useHistory \in BOOLEAN
      /\ run.answered \subseteq Converse!CallId /\ run.lost \subseteq Converse!CallId
      /\ run.history \in Seq(Converse!MessageType)
      /\ run.messages \in Seq(Converse!MessageType)
  BY <1>1 DEF Conversing
<1>3. Converse!TypeOK
  <2>1. PICK q : q = run.history \o run.messages
    OBVIOUS
  <2>2. run.history \o run.messages \in Seq(Converse!MessageType)
    BY <1>2, SeveralMore
  <2>3. q \in Seq(Converse!MessageType) /\ DOMAIN q = 1..Len(q)
    BY <2>1, <2>2, LenProperties
  <2>4. \A m \in Converse!Range(q) : m \in Converse!MessageType
    BY <2>3 DEF Converse!Range
  <2> QED BY <1>2, <2>1, <2>4 DEF Converse!TypeOK
<1>4. ASSUME run.at = "ask"
      PROVE  Converse!AnswersFollowTheirCalls
  <2> DEFINE m == run.messages
  <2>2. Sound(m, run.lost) /\ m \in Seq(Converse!MessageType)
    BY <1>2, <1>4 DEF ConverseInv, Talking
  <2>3. DOMAIN m = 1..Len(m) /\ Len(m) \in Nat
    BY <2>2, LenProperties
  <2>4. ASSUME NEW a \in 1..Len(m), NEW c
        PROVE  Asks(m, a, c) <=> m[a].role = "assistant" /\ c \in Converse!Range(m[a].calls)
    <3>1. m[a] \in Converse!MessageType
      BY <2>2
    <3>2. m[a].calls \in Seq(Converse!CallId)
      BY <3>1 DEF Converse!MessageType
    <3>3. DOMAIN m[a].calls = 1..Len(m[a].calls)
      BY <3>2, LenProperties
    <3> QED BY <3>3 DEF Asks, Converse!Range
  <2>5. ASSUME NEW t \in DOMAIN m, m[t].role = "tool"
        PROVE  /\ \E a \in {a \in DOMAIN m : /\ m[a].role = "assistant"
                                             /\ m[t].calls[1] \in Converse!Range(m[a].calls)} :
                     a < t /\ \A b \in (a + 1)..t : m[b].role = "tool"
               /\ m[t - 1].role = "tool" => m[t - 1].calls[1][3] < m[t].calls[1][3]
    <3>1. t \in 1..Len(m) /\ Follows(m, t)
      BY <2>2, <2>3, <2>5 DEF Sound
    <3>2. PICK a \in 1..(t - 1) : /\ Asks(m, a, m[t].calls[1])
                                  /\ \A b \in (a + 1)..t : m[b].role = "tool"
      BY <3>1 DEF Follows
    <3>3. a \in 1..Len(m) /\ a < t
      BY <2>3, <3>1
    <3>4. m[a].role = "assistant" /\ m[t].calls[1] \in Converse!Range(m[a].calls)
      BY <2>4, <3>2, <3>3
    <3>5. m[t - 1].role = "tool" => m[t - 1].calls[1][3] < m[t].calls[1][3]
      BY <3>1 DEF Follows
    <3> QED BY <2>3, <3>2, <3>3, <3>4, <3>5
  <2>6. ASSUME NEW a \in DOMAIN m, m[a].role = "assistant",
               NEW c \in Converse!Range(m[a].calls)
        PROVE  c \in run.lost <=> {t \in DOMAIN m : m[t].role = "tool" /\ m[t].calls[1] = c} = {}
    <3>1. a \in 1..Len(m) /\ Asks(m, a, c)
      BY <2>3, <2>4, <2>6
    <3>2. c \in run.lost <=> ~Replied(m, Len(m), c)
      BY <2>2, <3>1 DEF Sound
    <3> QED BY <2>3, <3>2 DEF Replied
  <2> QED BY <2>5, <2>6, Zenon DEF Converse!AnswersFollowTheirCalls
<1>5. ASSUME run.at # "ask"
      PROVE  Converse!AnswersFollowTheirCalls
  BY <1>5 DEF Converse!AnswersFollowTheirCalls, Converse!At
<1> QED BY <1>3, <1>4, <1>5

-----------------------------------------------------------------------------
(* All the workflows.  Each is known by its kind, so a step of one of them *)
(* starts in a state of its own invariant.                                 *)

WorkflowsInv ==
  \/ OrchestrateInv \/ ParallelInv \/ OptimizeInv \/ ConverseInv
  \/ HandOverInv \/ RouteInv \/ ChooseInv

LEMMA KindOfState ==
  /\ OrchestrateInv => run.kind = "orchestrator"
  /\ ParallelInv => run.kind = "parallel"
  /\ OptimizeInv => run.kind = "evaluator"
  /\ ConverseInv => run.kind = "llm"
  /\ HandOverInv => run.kind = "swarm"
  /\ RouteInv => run.kind = "router"
  /\ ChooseInv => run.kind = "selector"
<1>1. OrchestrateInv => run.kind = "orchestrator"
  BY DEF OrchestrateInv, Orchestration
<1>2. ParallelInv => run.kind = "parallel"
  BY DEF ParallelInv, Fan
<1>3. OptimizeInv => run.kind = "evaluator"
  BY DEF OptimizeInv, Refinement
<1>4. ConverseInv => run.kind = "llm"
  BY DEF ConverseInv, Conversing
<1>5. HandOverInv => run.kind = "swarm"
  BY DEF HandOverInv, Handing
<1>6. RouteInv => run.kind = "router"
  BY DEF RouteInv, Routing
<1>7. ChooseInv => run.kind = "selector"
  BY DEF ChooseInv, Selection
<1> QED BY <1>1, <1>2, <1>3, <1>4, <1>5, <1>6, <1>7

LEMMA KindOfStep ==
  /\ Orchestrate!Next => run.kind = "orchestrator"
  /\ Parallel!Next => run.kind = "parallel"
  /\ Optimize!Next => run.kind = "evaluator"
  /\ Converse!Next => run.kind = "llm"
  /\ HandOver!Next => run.kind = "swarm"
  /\ Route!Next => run.kind = "router"
  /\ Choose!Next => run.kind = "selector"
<1>1. Orchestrate!Next => run.kind = "orchestrator"
  <2>1. CASE Orchestrate!GetPlan
    <3>1. Orchestrate!MayTurn
      BY <2>1, Zenon DEF Orchestrate!GetPlan
    <3> QED BY <3>1 DEF Orchestrate!MayTurn, Orchestrate!At
  <2>2. CASE Orchestrate!GiveUp
    BY <2>2 DEF Orchestrate!At, Orchestrate!GiveUp, Orchestrate!MayTurn
  <2>3. CASE Orchestrate!EnterAgent
    BY <2>3 DEF Orchestrate!At, Orchestrate!EnterAgent
  <2>4. CASE Orchestrate!EnterRaises
    BY <2>4 DEF Orchestrate!At, Orchestrate!EnterRaises
  <2>5. CASE Orchestrate!Execute
    BY <2>5 DEF Orchestrate!At, Orchestrate!Execute
  <2>6. CASE \E k \in 1..MaxTasks : Orchestrate!TaskEnds(k)
    BY <2>6 DEF Orchestrate!At, Orchestrate!TaskEnds
  <2>7. CASE Orchestrate!StoreResults
    BY <2>7 DEF Orchestrate!At, Orchestrate!StoreResults
  <2>8. CASE Orchestrate!Synthesize
    BY <2>8 DEF Orchestrate!At, Orchestrate!Synthesize
  <2>9. CASE Orchestrate!Extract
    BY <2>9 DEF Orchestrate!At, Orchestrate!Extract
  <2>10. CASE Orchestrate!PlannerRaises
    BY <2>10 DEF Orchestrate!At, Orchestrate!PlannerRaises, Orchestrate!MayTurn
  <2> QED BY <2>1, <2>2, <2>3, <2>4, <2>5, <2>6, <2>7, <2>8, <2>9, <2>10 DEF Orchestrate!Next
<1>2. Parallel!Next => run.kind = "parallel"
  <2>1. CASE Parallel!EnterBranch
    BY <2>1 DEF Parallel!At, Parallel!EnterBranch
  <2>2. CASE Parallel!EnterRaises
    BY <2>2 DEF Parallel!At, Parallel!EnterRaises
  <2>3. CASE Parallel!Execute
    BY <2>3 DEF Parallel!At, Parallel!Execute
  <2>4. CASE \E b \in Branches, v \in Parallel!Value : Parallel!BranchEnds(b, v)
    BY <2>4 DEF Parallel!At, Parallel!BranchEnds
  <2>5. CASE Parallel!CloseBranches
    BY <2>5 DEF Parallel!At, Parallel!CloseBranches
  <2>6. CASE Parallel!Aggregate
    BY <2>6 DEF Parallel!At, Parallel!Aggregate
  <2>7. CASE Parallel!AggregateRaises
    BY <2>7 DEF Parallel!At, Parallel!AggregateRaises
  <2>8. CASE Parallel!Answer
    BY <2>8 DEF Parallel!At, Parallel!Answer
  <2>9. CASE Parallel!AnswerRaises
    BY <2>9 DEF Parallel!At, Parallel!AnswerRaises
  <2> QED BY <2>1, <2>2, <2>3, <2>4, <2>5, <2>6, <2>7, <2>8, <2>9 DEF Parallel!Next
<1>3. Optimize!Next => run.kind = "evaluator"
  <2>1. CASE Optimize!Enter
    BY <2>1 DEF Optimize!At, Optimize!Enter
  <2>2. CASE Optimize!Generate
    BY <2>2 DEF Optimize!At, Optimize!Generate, Optimize!Ready
  <2>3. CASE \E r \in Optimize!Rating, n \in BOOLEAN : Optimize!Evaluate(r, n)
    BY <2>3 DEF Optimize!At, Optimize!Evaluate, Optimize!Ready
  <2>4. CASE Optimize!Refine
    BY <2>4 DEF Optimize!At, Optimize!Refine, Optimize!Ready
  <2>5. CASE Optimize!Extract
    BY <2>5 DEF Optimize!At, Optimize!Extract
  <2>6. CASE Optimize!RequestRaises
    BY <2>6 DEF Optimize!At, Optimize!RequestRaises
  <2> QED BY <2>1, <2>2, <2>3, <2>4, <2>5, <2>6 DEF Optimize!Next
<1>4. Converse!Next => run.kind = "llm"
  <2>1. CASE \E h \in BOOLEAN : Converse!Generate(h)
    BY <2>1 DEF Converse!At, Converse!Generate
  <2>2. CASE Converse!GenerateRaises
    BY <2>2 DEF Converse!At, Converse!GenerateRaises
  <2>3. CASE Converse!Enough
    BY <2>3 DEF Converse!At, Converse!Enough
  <2>4. CASE Converse!RequestFails
    BY <2>4 DEF Converse!At, Converse!RequestFails
  <2>5. CASE \E r \in {"stop", "limit", "tools"}, n \in 0..MaxTools : Converse!Reply(r, n)
    BY <2>5 DEF Converse!At, Converse!Reply
  <2>6. CASE \E k \in 1..MaxTools, c \in BOOLEAN : Converse!ToolEnds(k, c)
    BY <2>6 DEF Converse!At, Converse!ToolEnds
  <2>7. CASE Converse!AppendResults
    BY <2>7 DEF Converse!At, Converse!AppendResults
  <2>8. CASE Converse!RunTool
    BY <2>8 DEF Converse!At, Converse!RunTool
  <2>9. CASE Converse!Store
    BY <2>9 DEF Converse!At, Converse!Store
  <2> QED BY <2>1, <2>2, <2>3, <2>4, <2>5, <2>6, <2>7, <2>8, <2>9 DEF Converse!Next
<1>5. HandOver!Next => run.kind = "swarm"
  <2>1. CASE HandOver!Ask
    BY <2>1 DEF HandOver!At, HandOver!Ask
  <2>2. CASE HandOver!Return
    BY <2>2 DEF HandOver!At, HandOver!Return
  <2>3. CASE HandOver!AskRaises
    BY <2>3 DEF HandOver!At, HandOver!AskRaises
  <2>4. CASE \E k \in 1..MaxHandovers :
               \/ HandOver!RunTool(k) \/ HandOver!BeginSwitch(k)
               \/ HandOver!FinishSwitch(k) \/ HandOver!SwitchFails(k)
    BY <2>4 DEF HandOver!At, HandOver!RunTool, HandOver!BeginSwitch, HandOver!FinishSwitch,
                HandOver!SwitchFails, HandOver!MayStart
  <2>5. CASE HandOver!EndTurn
    BY <2>5 DEF HandOver!At, HandOver!EndTurn
  <2> QED BY <2>1, <2>2, <2>3, <2>4, <2>5 DEF HandOver!Next
<1>6. Route!Next => run.kind = "router"
  <2>1. CASE Route!Initialize
    BY <2>1 DEF Route!At, Route!Initialize
  <2>2. CASE Route!ModelNames
    BY <2>2 DEF Route!At, Route!ModelNames
  <2>3. CASE Route!ModelRaises
    BY <2>3 DEF Route!At, Route!ModelRaises
  <2> QED BY <2>1, <2>2, <2>3 DEF Route!Next
<1>7. Choose!Next => run.kind = "selector"
  <2>1. CASE Choose!Select
    BY <2>1 DEF Choose!At, Choose!Select
  <2> QED BY <2>1 DEF Choose!Next
<1> QED BY <1>1, <1>2, <1>3, <1>4, <1>5, <1>6, <1>7

LEMMA WorkflowsInit == Init => WorkflowsInv
BY OrchestrateInit, ParallelInit, OptimizeInit, ConverseInit, HandOverInit, RouteInit,
   ChooseInit DEF Init, WorkflowsInv

LEMMA WorkflowsStep == WorkflowsInv /\ [Next]_run => WorkflowsInv'
<1> SUFFICES ASSUME WorkflowsInv, [Next]_run
             PROVE  WorkflowsInv'
  OBVIOUS
<1>1. CASE Orchestrate!Next
  BY <1>1, KindOfState, KindOfStep, OrchestrateStep DEF WorkflowsInv
<1>2. CASE Parallel!Next
  BY <1>2, KindOfState, KindOfStep, ParallelStep DEF WorkflowsInv
<1>3. CASE Optimize!Next
  BY <1>3, KindOfState, KindOfStep, OptimizeStep DEF WorkflowsInv
<1>4. CASE Converse!Next
  BY <1>4, KindOfState, KindOfStep, ConverseStep DEF WorkflowsInv
<1>5. CASE HandOver!Next
  BY <1>5, KindOfState, KindOfStep, HandOverStep DEF WorkflowsInv
<1>6. CASE Route!Next
  BY <1>6, KindOfState, KindOfStep, RouteStep DEF WorkflowsInv
<1>7. CASE Choose!Next
  BY <1>7, KindOfState, KindOfStep, ChooseStep DEF WorkflowsInv
<1>8. CASE UNCHANGED run
  <2>1. /\ OrchestrateInv => OrchestrateInv'
        /\ ParallelInv => ParallelInv'
        /\ OptimizeInv => OptimizeInv'
        /\ ConverseInv => ConverseInv'
    BY <1>8 DEF OrchestrateInv, ParallelInv, OptimizeInv, Counts, ConverseInv
  <2>2. HandOverInv => HandOverInv'
    BY <1>8 DEF HandOverInv
  <2>3. RouteInv => RouteInv'
    BY <1>8 DEF RouteInv
  <2>4. ChooseInv => ChooseInv'
    BY <1>8 DEF ChooseInv, Choose!ChoiceIsUndominated, Choose!Candidates, Choose!Models
  <2> QED BY <2>1, <2>2, <2>3, <2>4 DEF WorkflowsInv
<1> QED BY <1>1, <1>2, <1>3, <1>4, <1>5, <1>6, <1>7, <1>8 DEF Next

LEMMA WorkflowsImplies ==
  WorkflowsInv => /\ TypeOK /\ AnswersKeepTheirNames /\ PicksTheBest
                  /\ ConversationIsSound /\ AgentsAreClosed
<1> SUFFICES ASSUME WorkflowsInv
             PROVE  /\ TypeOK /\ AnswersKeepTheirNames /\ PicksTheBest
                    /\ ConversationIsSound /\ AgentsAreClosed
  OBVIOUS
<1>1. /\ Orchestrate!TypeOK /\ Orchestrate!ResultsFollowThePlan
      /\ Orchestrate!AgentsAreClosed
  <2>1. CASE run.kind = "orchestrator"
    BY <2>1, KindOfState, OrchestrateImplies DEF WorkflowsInv
  <2>2. CASE run.kind # "orchestrator"
    BY <2>2 DEF Orchestrate!TypeOK, Orchestrate!ResultsFollowThePlan, Orchestrate!AgentsAreClosed
  <2> QED BY <2>1, <2>2
<1>2. Parallel!TypeOK /\ Parallel!EveryBranchIsHeard /\ Parallel!AgentsAreClosed
  <2>1. CASE run.kind = "parallel"
    BY <2>1, KindOfState, ParallelImplies DEF WorkflowsInv
  <2>2. CASE run.kind # "parallel"
    BY <2>2 DEF Parallel!TypeOK, Parallel!EveryBranchIsHeard, Parallel!AgentsAreClosed
  <2> QED BY <2>1, <2>2
<1>3. Optimize!TypeOK /\ Optimize!BestWasRated /\ Optimize!AgentsAreClosed
  <2>1. CASE run.kind = "evaluator"
    BY <2>1, KindOfState, OptimizeImplies DEF WorkflowsInv
  <2>2. CASE run.kind # "evaluator"
    BY <2>2 DEF Optimize!TypeOK, Optimize!BestWasRated, Optimize!AgentsAreClosed
  <2> QED BY <2>1, <2>2
<1>4. Converse!TypeOK /\ Converse!AnswersFollowTheirCalls
  <2>1. CASE run.kind = "llm"
    BY <2>1, KindOfState, ConverseImplies DEF WorkflowsInv
  <2>2. CASE run.kind # "llm"
    BY <2>2 DEF Converse!TypeOK, Converse!AnswersFollowTheirCalls, Converse!At
  <2> QED BY <2>1, <2>2
<1>5. HandOver!TypeOK /\ HandOver!InstructionIsAgents
  <2>1. CASE run.kind = "swarm"
    BY <2>1, KindOfState, HandOverImplies DEF WorkflowsInv
  <2>2. CASE run.kind # "swarm"
    BY <2>2 DEF HandOver!TypeOK, HandOver!InstructionIsAgents, HandOver!At
  <2> QED BY <2>1, <2>2
<1>6. Route!TypeOK /\ Route!RoutesAreRegistered
  <2>1. CASE run.kind = "router"
    BY <2>1, KindOfState, RouteImplies DEF WorkflowsInv
  <2>2. CASE run.kind # "router"
    BY <2>2 DEF Route!TypeOK, Route!RoutesAreRegistered
  <2> QED BY <2>1, <2>2
<1>7. Choose!TypeOK /\ Choose!ChoiceIsUndominated
  <2>1. CASE run.kind = "selector"
    BY <2>1, KindOfState, ChooseImplies DEF WorkflowsInv
  <2>2. CASE run.kind # "selector"
    BY <2>2 DEF Choose!TypeOK, Choose!ChoiceIsUndominated
  <2> QED BY <2>1, <2>2
<1> QED BY <1>1, <1>2, <1>3, <1>4, <1>5, <1>6, <1>7
        DEF TypeOK, AnswersKeepTheirNames, PicksTheBest, ConversationIsSound, AgentsAreClosed

(* The inductive invariant holds of every call of every workflow.          *)
THEOREM WorkflowsInvHolds == Spec => []WorkflowsInv
BY WorkflowsInit, WorkflowsStep, PTL DEF Spec

(* The orchestrator files every result under the step and the task that    *)
(* gave it, and the parallel workflow asks its aggregator with the answers *)
(* under the names of the branches that gave them, whichever task or       *)
(* branch ended first (orchestrator.py:224-330, fan_out.py, fan_in.py).    *)
THEOREM NamesAreKept == Spec => []AnswersKeepTheirNames
<1>1. WorkflowsInv => AnswersKeepTheirNames
  BY WorkflowsImplies
<1> QED BY <1>1, WorkflowsInvHolds, PTL

(* The evaluator returns an answer that none it rated was rated above, the *)
(* router only what is registered under the names the model gave, in the   *)
(* model's order, and the selector a model that no candidate is better     *)
(* than in all that counts (evaluator_optimizer.py:166-258,                *)
(* router_llm.py:215-235, llm_selector.py:118-171).                        *)
THEOREM TheBestIsPicked == Spec => []PicksTheBest
<1>1. WorkflowsInv => PicksTheBest
  BY WorkflowsImplies
<1> QED BY <1>1, WorkflowsInvHolds, PTL

(* In every list that generate sends, each tool result comes after the     *)
(* message that asked for it with only results between, in the order of    *)
(* the calls, and every call is answered or known to be lost; and a swarm  *)
(* asks with the instruction of its current agent, unless two handovers    *)
(* ran at once or one failed (augmented_llm_openai.py:146-236,             *)
(* augmented_llm_anthropic.py:95-199, swarm.py:269-292).                   *)
THEOREM ConversationsAreSound == Spec => []ConversationIsSound
<1>1. WorkflowsInv => ConversationIsSound
  BY WorkflowsImplies
<1> QED BY <1>1, WorkflowsInvHolds, PTL

(* No workflow ends, by returning or by raising, with an agent still open  *)
(* that it entered, and no loop leaves its bound (orchestrator.py:224-330, *)
(* parallel_llm.py, evaluator_optimizer.py:166-258).                       *)
THEOREM AgentsEndClosed == Spec => []AgentsAreClosed
<1>1. WorkflowsInv => AgentsAreClosed
  BY WorkflowsImplies
<1> QED BY <1>1, WorkflowsInvHolds, PTL
=============================================================================
