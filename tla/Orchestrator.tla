---------------------------- MODULE Orchestrator ----------------------------
(* One call of Orchestrator.generate or generate_structured                *)
(* (workflows/orchestrator): a planner proposes steps, the tasks of a step *)
(* run in parallel on the agents they name, and the planner is asked again *)
(* with what came back.  The planner and the agents are language models:   *)
(* what they answer is a choice.  An exception of a task reaches the code  *)
(* as the value of that task and is stored as its text, so an answer and a *)
(* failure are one thing here; an exception anywhere else ends the call.   *)
EXTENDS Naturals, Sequences, SequencesExt

CONSTANTS
    Registered,      \* the names of available_agents
    Flows,           \* those of them that are AugmentedLLMs already
    Unregistered,    \* a name the planner may make up
    MaxIterations,   \* params.max_iterations
    MaxSteps,        \* bound: steps of one plan
    MaxTasks         \* bound: tasks of one step

VARIABLE run

At(l) == run.kind = "orchestrator" /\ run.at = l

(* A step is the sequence of the agents its tasks name.                    *)
Step == UNION {[1..n -> Registered \cup {Unregistered}] : n \in 0..MaxTasks}

Plan == UNION {[1..n -> Step] : n \in 1..MaxSteps}

(* The step being executed: planned but without a result.                  *)
Current == run.planned[Len(run.results) + 1]

Tasks == DOMAIN Current

TypeOK == run.kind = "orchestrator" =>
    /\ run.at \in {"plan", "enter", "gather", "synthesize", "extract", "done"}
    /\ run.outcome \in {"none", "returned", "raised"}
    /\ run.type \in {"full", "iterative"}
    /\ run.structured \in BOOLEAN
    /\ run.iterations \in 0..MaxIterations
    /\ run.planned \in Seq(Step)
    /\ run.open \in Seq(Registered \ Flows)
    /\ run.finished \in Seq(1..MaxTasks)

Started(type, structured) ==
    [kind |-> "orchestrator", at |-> "plan", type |-> type,
     structured |-> structured, iterations |-> 0, planned |-> <<>>,
     results |-> <<>>, entered |-> 0, open |-> <<>>, finished |-> <<>>,
     outcome |-> "none"]

(* History is not supported: use_history makes generate raise at once, so  *)
(* the calls followed are those without it.                                *)
Init == \E t \in {"full", "iterative"}, s \in BOOLEAN : run = Started(t, s)

RaiseUnclosed == run' = [run EXCEPT !.at = "done", !.outcome = "raised"]

(* An exception leaves the call; the exit stack closes what it entered.    *)
Raise == run' = [run EXCEPT !.at = "done", !.outcome = "raised", !.open = <<>>]

(* The loop's condition.                                                   *)
MayTurn == At("plan") /\ run.iterations < MaxIterations

(* One turn of the loop asks for a plan: a full one, or the next step.     *)
(* The steps of a complete plan are not executed, and a full plan may be   *)
(* empty.                                                                  *)
GetPlan ==
    /\ MayTurn
    /\ \/ run' = [run EXCEPT !.at = "synthesize"]
       \/ run.type = "full" /\ run' = [run EXCEPT !.iterations = @ + 1]
       \/ \E plan \in Plan :
             /\ run.type = "iterative" => Len(plan) = 1
             /\ run' = [run EXCEPT !.at = "enter", !.planned = @ \o plan]

GiveUp == At("plan") /\ ~MayTurn /\ Raise

(* _execute_step, first half: the agent of each task is looked up, entered *)
(* and given a language model.  A workflow is used as it is.               *)
EnterAgent ==
    /\ At("enter")
    /\ run.entered < Len(Current)
    /\ LET a == Current[run.entered + 1] IN
         /\ a \in Registered
         /\ run' = [run EXCEPT !.entered = @ + 1,
                      !.open = IF a \in Flows THEN @ ELSE Append(@, a)]

(* The name is unknown, or the agent's servers do not start.               *)
EnterRaises ==
    /\ At("enter")
    /\ run.entered < Len(Current)
    /\ Current[run.entered + 1] \notin Flows
    /\ Raise

Execute ==
    /\ At("enter")
    /\ run.entered = Len(Current)
    /\ run' = [run EXCEPT !.at = "gather"]

(* The tasks of a step end in any order.                                   *)
TaskEnds(k) ==
    /\ At("gather")
    /\ k \in Tasks \ Range(run.finished)
    /\ run' = [run EXCEPT !.finished = Append(@, k)]

PairedAsFinished == run.finished

(* gather returns the answers in the order the tasks were given in, and    *)
(* zip pairs them with the tasks of the step.                              *)
Paired == [k \in Tasks |-> k]

(* _execute_step, second half: the stack is closed, the results stored and *)
(* added to the plan's; the next step, or the next turn of the loop.       *)
StoreResults ==
    /\ At("gather")
    /\ Range(run.finished) = Tasks
    /\ LET last == Len(run.results) + 1 = Len(run.planned) IN
         run' = [run EXCEPT
                   !.results = Append(@, [step |-> Current, answers |-> Paired]),
                   !.open = <<>>, !.entered = 0, !.finished = <<>>,
                   !.at = IF last THEN "plan" ELSE "enter",
                   !.iterations = IF last THEN @ + 1 ELSE @]

Synthesize ==
    /\ At("synthesize")
    /\ run' = IF run.structured THEN [run EXCEPT !.at = "extract"]
              ELSE [run EXCEPT !.at = "done", !.outcome = "returned"]

(* generate_structured makes an Agent without the runtime it requires.     *)
Extract == At("extract") /\ Raise

(* The planner's own requests may fail, and nothing catches that.          *)
PlannerRaises ==
    /\ MayTurn \/ At("synthesize")
    /\ Raise

Next ==
    \/ GetPlan
    \/ GiveUp
    \/ EnterAgent
    \/ EnterRaises
    \/ Execute
    \/ \E k \in 1..MaxTasks : TaskEnds(k)
    \/ StoreResults
    \/ Synthesize
    \/ Extract
    \/ PlannerRaises

Spec == Init /\ [][Next]_run

-----------------------------------------------------------------------------
(* The planner is shown, in order, one result for every step it asked for  *)
(* in earlier turns and none else, and the answer filed under a task is    *)
(* the answer to that task, whichever task ended first (execute, lines     *)
(* 224-234, and _execute_step).                                            *)
ResultsFollowThePlan == run.kind = "orchestrator" =>
    /\ Len(run.results) <= Len(run.planned)
    /\ At("plan") => Len(run.results) = Len(run.planned)
    /\ \A j \in DOMAIN run.results :
         /\ run.results[j].step = run.planned[j]
         /\ \A k \in DOMAIN run.planned[j] : run.results[j].answers[k] = k

(* No agent of a step stays open once the step is over or the call raises. *)
AgentsAreClosed == run.kind = "orchestrator" =>
    (run.at \in {"plan", "synthesize", "done"} => run.open = <<>>)
=============================================================================
