--------------------------- MODULE ModelSelector ----------------------------
(* ModelSelector.select_best_model (workflows/llm/llm_selector.py).  The   *)
(* scores are fractions of the largest value any model has; they are       *)
(* compared here multiplied by all the denominators, so in whole numbers.  *)
EXTENDS Integers, Sequences, SequencesExt, FiniteSetsExt

CONSTANTS
    Profiles,     \* what a model may measure: records of the fields below
    Priorities    \* values of costPriority, speedPriority, intelligencePriority

VARIABLE run

At(l) == run.kind = "selector" /\ run.at = l

(* cost; blended, whether the data give it as one number; delay, the time  *)
(* to the first token; rate, tokens per second; skill, the benchmarks.     *)
Models == DOMAIN run.models

Largest(f) == Max({run.models[m][f] : m \in Models})

(* max_values of everything but the cost is kept above zero.               *)
Scale(f) == IF Largest(f) = 0 THEN 1 ELSE Largest(f)

TypeOK == run.kind = "selector" =>
    /\ run.at \in {"start", "done"}
    /\ run.models \in Seq(Profiles)
    /\ run.hinted \subseteq Models
    /\ run.chosen \in {0} \cup Models
    /\ run.outcome \in {"none", "returned", "raised"}

Started(models, hinted, priority) ==
    [kind |-> "selector", at |-> "start", models |-> models, hinted |-> hinted,
     priority |-> priority, chosen |-> 0, outcome |-> "none"]

(* The models of one provider, those that match a hint, the preferences.   *)
Init == \E models \in [1..2 -> Profiles], hinted \in SUBSET (1..2),
           p \in [{"cost", "speed", "skill"} -> Priorities] :
          run = Started(models, hinted, p)

(* When no hint matches, every model is a candidate.                       *)
Candidates == IF run.hinted = {} THEN Models ELSE run.hinted

(* 1 - cost / max                                                          *)
CostScore(m) == Largest("cost") - run.models[m].cost

SpeedScoreBySlowness(m) ==
    4 * run.models[m].delay * Scale("rate") + 6 * run.models[m].rate * Scale("delay")

(* 0.4 (1 - delay / max) + 0.6 rate / max, in tenths over both maxima      *)
SpeedScore(m) ==
    4 * (Scale("delay") - run.models[m].delay) * Scale("rate")
      + 6 * run.models[m].rate * Scale("delay")

Score(m) ==
    LET cost  == Largest("cost")
        speed == 10 * Scale("delay") * Scale("rate")
        skill == Scale("skill")
    IN  run.priority["cost"] * CostScore(m) * speed * skill
          + run.priority["speed"] * SpeedScore(m) * cost * skill
          + run.priority["skill"] * run.models[m].skill * cost * speed

(* The score of a candidate without a blended price multiplies that price  *)
(* by the preferences, and when every model is free it divides by zero.    *)
ScoreRaises ==
    \/ \E m \in Candidates : ~run.models[m].blended
    \/ Largest("cost") = 0

(* max keeps the first of equals.                                          *)
Best ==
    CHOOSE m \in Candidates :
        \A n \in Candidates : Score(n) < Score(m) \/ (Score(n) = Score(m) /\ m <= n)

Select ==
    /\ At("start")
    /\ run' = IF ScoreRaises THEN [run EXCEPT !.at = "done", !.outcome = "raised"]
              ELSE [run EXCEPT !.at = "done", !.outcome = "returned", !.chosen = Best]

Next == Select

Spec == Init /\ [][Next]_run

-----------------------------------------------------------------------------
(* No candidate is at least as cheap, as quick to start, as fast and as    *)
(* skilled as the model chosen, and better in something the caller gives   *)
(* weight to (select_best_model, lines 118-171).                           *)
ChoiceIsUndominated == run.kind = "selector" /\ run.outcome = "returned" =>
    LET c == run.models[run.chosen]
        NoWorse(d) == d.cost <= c.cost /\ d.delay <= c.delay /\ d.rate >= c.rate
                        /\ d.skill >= c.skill
        Better(d) == \/ run.priority["cost"] > 0 /\ d.cost < c.cost
                     \/ run.priority["speed"] > 0 /\ (d.delay < c.delay \/ d.rate > c.rate)
                     \/ run.priority["skill"] > 0 /\ d.skill > c.skill
    IN  /\ run.chosen \in Candidates
        /\ ~\E m \in Candidates : NoWorse(run.models[m]) /\ Better(run.models[m])
=============================================================================
