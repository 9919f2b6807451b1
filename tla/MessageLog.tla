----------------------------- MODULE MessageLog -----------------------------
(***************************************************************************)
(* What SqliteMemory promises to the processes that only add: a log of     *)
(* numbered messages, to which messages are appended in batches. The first *)
(* message of a batch takes an index that was the next one at some moment  *)
(* of the call, the others the indexes above all that are in use. Nothing  *)
(* else ever happens to a message than being marked as uploaded.           *)
(***************************************************************************)
EXTENDS Naturals

CONSTANTS Conv, Msg, MaxBatch, NoRow

VARIABLE log

IndexesIn(c) == {log[m].idx : m \in {n \in Msg : log[n] # NoRow /\ log[n].conv = c}}

(* The number of messages numbered so far.                                 *)
Size(c) == CHOOSE n \in {0} \cup {i + 1 : i \in IndexesIn(c)} :
             \A i \in IndexesIn(c) : i < n

(* Where the i-th message of a batch goes when the first goes to k.        *)
Position(c, k, i) ==
  IF i = 1 THEN k
  ELSE (IF k = Size(c) THEN k + 1 ELSE Size(c)) + i - 2

Init == log = [m \in Msg |-> NoRow]

Append(c, k, ms) ==
  /\ \A i \in DOMAIN ms : log[ms[i]] = NoRow
  /\ \A i, j \in DOMAIN ms : ms[i] = ms[j] => i = j
  /\ log' = [m \in Msg |->
       IF \E i \in DOMAIN ms : ms[i] = m
       THEN [conv |-> c, up |-> FALSE,
             idx |-> Position(c, k, CHOOSE i \in DOMAIN ms : ms[i] = m)]
       ELSE log[m]]

(* One call's marks: they go by conversation and index.                    *)
Mark(c, I) ==
  log' = [m \in Msg |->
    IF log[m] # NoRow /\ log[m].conv = c /\ log[m].idx \in I
    THEN [log[m] EXCEPT !.up = TRUE]
    ELSE log[m]]

Next ==
  \E c \in Conv :
    \/ \E k \in 0..Size(c), n \in 1..MaxBatch : \E ms \in [1..n -> Msg] : Append(c, k, ms)
    \/ \E I \in SUBSET IndexesIn(c) : Mark(c, I)

Spec == Init /\ [][Next]_log
=============================================================================
