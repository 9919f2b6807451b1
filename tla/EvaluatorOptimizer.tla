------------------------- MODULE EvaluatorOptimizer -------------------------
(* One call of EvaluatorOptimizerLLM.generate or generate_structured       *)
(* (workflows/evaluator_optimizer): an optimizer answers, an evaluator     *)
(* rates the answer, and the optimizer refines it until the rating is good *)
(* enough or the refinements are used up.  The answers are numbered in the *)
(* order they are generated.                                               *)
EXTENDS Naturals, Sequences, SequencesExt

CONSTANT MaxRefinements   \* max_refinements of the largest call followed

VARIABLE run

At(l) == run.kind = "evaluator" /\ run.at = l

(* QualityRating: POOR, FAIR, GOOD, EXCELLENT.                             *)
Rating == 0..3

TypeOK == run.kind = "evaluator" =>
    /\ run.at \in {"generate", "evaluate", "refine", "extract", "done"}
    /\ run.outcome \in {"none", "returned", "raised"}
    /\ run.agents \in [{"optimizer", "evaluator"} -> BOOLEAN]
    /\ run.structured \in BOOLEAN
    /\ {run.minRating, run.bestRating} \subseteq Rating
    /\ run.refinements \in 0..run.limit
    /\ run.response \in 0..(MaxRefinements + 1)
    /\ run.open \subseteq {"optimizer", "evaluator"}
    /\ run.history \in Seq(Rating)

(* agents says which of the two is an Agent, entered for each request, and *)
(* which a language model already.                                         *)
Started(agents, structured, minRating, limit) ==
    [kind |-> "evaluator", at |-> "generate", agents |-> agents,
     structured |-> structured, minRating |-> minRating, limit |-> limit,
     refinements |-> 0, response |-> 0, best |-> 0, bestRating |-> 0,
     open |-> {}, history |-> <<>>, outcome |-> "none"]

Init == \E agents \in [{"optimizer", "evaluator"} -> BOOLEAN], s \in BOOLEAN,
           r \in Rating, n \in 0..MaxRefinements : run = Started(agents, s, r, n)

Finish == IF run.structured THEN "extract" ELSE "done"

Ends == IF run.structured THEN "none" ELSE "returned"

(* Who is asked at this point of the loop.                                 *)
Asked == IF run.at = "evaluate" THEN "evaluator" ELSE "optimizer"

Enter ==
    /\ \E l \in {"generate", "evaluate", "refine"} : At(l)
    /\ run.agents[Asked] /\ Asked \notin run.open
    /\ run' = [run EXCEPT !.open = {Asked}]

Ready(l) == At(l) /\ (run.agents[Asked] => Asked \in run.open)

(* The first answer is the best so far, rated as POOR.                     *)
Generate ==
    /\ Ready("generate")
    /\ run' = [run EXCEPT !.response = 1, !.best = 1, !.open = {},
                 !.at = IF run.limit = 0 THEN Finish ELSE "evaluate",
                 !.outcome = IF run.limit = 0 THEN Ends ELSE "none"]

(* Only a strictly better rating replaces the best answer.                 *)
Better(r) == r > run.bestRating

Evaluate(r, needsImprovement) ==
    /\ Ready("evaluate")
    /\ LET stop == r >= run.minRating \/ ~needsImprovement IN
         run' = [run EXCEPT !.open = {}, !.history = Append(@, r),
                   !.best = IF Better(r) THEN run.response ELSE @,
                   !.bestRating = IF Better(r) THEN r ELSE @,
                   !.at = IF stop THEN Finish ELSE "refine",
                   !.outcome = IF stop THEN Ends ELSE "none"]

(* The answer of the last refinement is never rated.                       *)
Refine ==
    /\ Ready("refine")
    /\ LET stop == run.refinements + 1 = run.limit IN
         run' = [run EXCEPT !.open = {}, !.response = @ + 1,
                   !.refinements = @ + 1,
                   !.at = IF stop THEN Finish ELSE "evaluate",
                   !.outcome = IF stop THEN Ends ELSE "none"]

(* generate_structured asks the optimizer it was given: a language model   *)
(* answers, an Agent has no such method.                                   *)
Extract ==
    /\ At("extract")
    /\ run' = [run EXCEPT !.at = "done",
                 !.outcome = IF run.agents["optimizer"] THEN "raised" ELSE "returned"]

(* No request of the loop is guarded; the exit stack closes the agent.     *)
RequestRaises ==
    /\ \E l \in {"generate", "evaluate", "refine", "extract"} : At(l)
    /\ run' = [run EXCEPT !.at = "done", !.outcome = "raised", !.open = {}]

Next ==
    \/ Enter
    \/ Generate
    \/ \E r \in Rating, n \in BOOLEAN : Evaluate(r, n)
    \/ Refine
    \/ Extract
    \/ RequestRaises

Spec == Init /\ [][Next]_run

-----------------------------------------------------------------------------
(* The answer returned is one the evaluator saw, unless it was never       *)
(* asked, and none it saw was rated higher; if any reached the wanted      *)
(* rating, the one returned did (generate, lines 166-258).                 *)
BestWasRated == run.kind = "evaluator" /\ run.outcome = "returned" =>
    IF run.history = <<>> THEN run.best = 1
    ELSE /\ run.best \in DOMAIN run.history
         /\ \A j \in DOMAIN run.history : run.history[j] <= run.history[run.best]

AgentsAreClosed == run.kind = "evaluator" =>
    /\ run.at = "done" => run.open = {}
    /\ ~({"optimizer", "evaluator"} \subseteq run.open)
=============================================================================
