---------------------------- MODULE MCWorkflows -----------------------------
(* The workflows over language models, for TLC: one variable holds one     *)
(* call of one of them, chosen at the start.                               *)
EXTENDS Naturals, Sequences

CONSTANTS
    Registered, Flows, Unregistered, MaxIterations, MaxSteps, MaxTasks,
    Branches, Names, MaxRefinements, MaxCalls, MaxRequests, MaxTools,
    SwarmAgents, MaxTurns, MaxHandovers, CategoryNames, Configured, MaxTop,
    MaxNamed, Profiles, Priorities

(* What the proofs need of them.                                           *)
ASSUME IterationsAssumption == MaxIterations \in Nat /\ MaxTasks \in Nat
ASSUME BranchesAssumption == Branches \subseteq Nat
ASSUME RefinementsAssumption == MaxRefinements \in Nat
ASSUME TurnsAssumption == MaxTurns \in Nat
ASSUME CallsAssumption ==
    MaxCalls \in Nat /\ MaxRequests \in Nat \ {0} /\ MaxTools \in Nat
ASSUME ProfilesAssumption ==
    /\ Profiles \subseteq [cost : Nat, blended : BOOLEAN, delay : Nat, rate : Nat, skill : Nat]
    /\ Priorities \subseteq Nat

VARIABLE run

Orchestrate == INSTANCE Orchestrator
Parallel    == INSTANCE ParallelLLM
Optimize    == INSTANCE EvaluatorOptimizer
Converse    == INSTANCE AugmentedLLM
HandOver    == INSTANCE Swarm
Route       == INSTANCE Router
Choose      == INSTANCE ModelSelector

(* Instances of the larger constants.                                      *)
ThreeBranches == 1..3

Measured(cost, blended, delay, rate, skill) ==
    [cost |-> cost, blended |-> blended, delay |-> delay, rate |-> rate, skill |-> skill]

SomeProfiles ==
    {Measured(c, TRUE, d, r, s) : c \in {0, 2}, d \in {1, 2}, r \in {1, 3}, s \in {0, 2}}
      \cup {Measured(1, FALSE, 1, 1, 1), Measured(1, TRUE, 0, 0, 1)}

Init ==
    \/ Orchestrate!Init \/ Parallel!Init \/ Optimize!Init \/ Converse!Init
    \/ HandOver!Init \/ Route!Init \/ Choose!Init

Next ==
    \/ Orchestrate!Next \/ Parallel!Next \/ Optimize!Next \/ Converse!Next
    \/ HandOver!Next \/ Route!Next \/ Choose!Next

(* A coroutine that is not waiting for another goes on; the models, agents *)
(* and tools that are waited for answer or raise.                          *)
Spec == Init /\ [][Next]_run /\ WF_run(Next)

-----------------------------------------------------------------------------
TypeOK ==
    /\ Orchestrate!TypeOK /\ Parallel!TypeOK /\ Optimize!TypeOK
    /\ Converse!TypeOK /\ HandOver!TypeOK /\ Route!TypeOK /\ Choose!TypeOK

(* Of what ran in parallel, every answer ends up under the task or the     *)
(* branch that gave it, and none is missing.                               *)
AnswersKeepTheirNames ==
    Orchestrate!ResultsFollowThePlan /\ Parallel!EveryBranchIsHeard

(* Where a workflow picks among answers, categories or models, nothing it  *)
(* passed over was better.                                                 *)
PicksTheBest ==
    /\ Optimize!BestWasRated
    /\ Route!RoutesAreRegistered
    /\ Choose!ChoiceIsUndominated

(* What is put to a model fits together: the tool results with the calls,  *)
(* the instruction with the agent.                                         *)
ConversationIsSound ==
    Converse!AnswersFollowTheirCalls /\ HandOver!InstructionIsAgents

(* A workflow closes the agents it opened, also when it raises, and the    *)
(* state of each workflow keeps its type: loops stay within their bounds.  *)
AgentsAreClosed ==
    /\ TypeOK
    /\ Orchestrate!AgentsAreClosed
    /\ Parallel!AgentsAreClosed
    /\ Optimize!AgentsAreClosed

(* Every call ends: by returning, by raising, or out of iterations.        *)
CallEnds == <>(run.at = "done")
=============================================================================
