----------------------------- MODULE ParallelLLM ----------------------------
(* One call of ParallelLLM.generate (workflows/parallel): FanOut puts the  *)
(* same request to several branches at once, FanIn writes the answers into *)
(* one prompt under the names of their branches and puts it to the         *)
(* aggregator.  Branches are agents, workflows that are language models    *)
(* already, and plain functions, in that order.                            *)
EXTENDS Naturals, Sequences, SequencesExt

CONSTANTS
    Branches,   \* 1..n, the agents and functions of the fan-out
    Names       \* what they may be called

VARIABLE run

At(l) == run.kind = "parallel" /\ run.at = l

(* generate returns a list of messages; a function returns what it likes,  *)
(* and an exception is returned as a value by the executor.                *)
Value == {"list", "string", "exception"}

TypeOK == run.kind = "parallel" =>
    /\ run.at \in {"enter", "gather", "aggregate", "ask", "done"}
    /\ run.outcome \in {"none", "returned", "raised"}
    /\ run.branch \in [Branches -> {"agent", "flow", "function"}]
    /\ run.name \in [Branches -> Names]
    /\ run.fanIn \in {"agent", "flow", "function"}
    /\ run.open \in SUBSET ({0} \cup Branches)
    /\ run.value \in [Branches -> Value \cup {"none"}]
    /\ run.finished \in Seq(Branches)

(* 0 stands for the aggregator among the agents that are open.             *)
Started(branch, name, fanIn) ==
    [kind |-> "parallel", at |-> "enter", branch |-> branch, name |-> name,
     fanIn |-> fanIn, entered |-> 0, open |-> {}, finished |-> <<>>,
     value |-> [b \in Branches |-> "none"], prompt |-> {}, outcome |-> "none"]

FunctionsLast(branch) ==
    \A b, c \in Branches : b < c /\ branch[b] = "function" => branch[c] = "function"

Init == \E branch \in [Branches -> {"agent", "flow", "function"}],
           name \in [Branches -> Names], f \in {"agent", "flow", "function"} :
          FunctionsLast(branch) /\ run = Started(branch, name, f)

Raise == run' = [run EXCEPT !.at = "done", !.outcome = "raised", !.open = {}]

(* FanOut.generate: every agent is entered on the exit stack and given its *)
(* language model before anything runs.                                    *)
EnterBranch ==
    /\ At("enter")
    /\ LET b == run.entered + 1 IN
         /\ b \in Branches
         /\ run' = [run EXCEPT !.entered = b,
                      !.open = IF run.branch[b] = "agent" THEN @ \cup {b} ELSE @]

EnterRaises ==
    /\ \/ At("enter") /\ run.entered + 1 \in Branches /\ run.branch[run.entered + 1] = "agent"
       \/ At("aggregate") /\ run.fanIn = "agent"
    /\ Raise

Execute ==
    /\ At("enter")
    /\ run.entered + 1 \notin Branches
    /\ run' = [run EXCEPT !.at = "gather"]

(* A branch ends, in any order; only a function answers with a string.     *)
BranchEnds(b, v) ==
    /\ At("gather")
    /\ b \notin Range(run.finished)
    /\ v = "string" => run.branch[b] = "function"
    /\ run' = [run EXCEPT !.finished = Append(@, b), !.value[b] = v]

(* The position at which a branch's answer comes back: gather keeps the    *)
(* order of the tasks.                                                     *)
ResultAt(b) == b

(* dict(zip(task_names, task_results)): a later branch replaces an earlier *)
(* one of the same name.                                                   *)
Responses ==
    {<<run.name[b], ResultAt(b)>> : b \in
        {b \in Branches : \A c \in Branches : c > b => run.name[c] # run.name[b]}}

CloseBranches ==
    /\ At("gather")
    /\ Range(run.finished) = Branches
    /\ run' = [run EXCEPT !.at = "aggregate", !.open = {}]

(* aggregate_messages: all the answers must be lists, or all strings.      *)
OneKind ==
    \E v \in {"list", "string"} : \A r \in Responses : run.value[r[2]] = v

(* FanIn.generate with an aggregator, or the caller's own function.        *)
Aggregate ==
    /\ At("aggregate")
    /\ run.fanIn = "function" \/ OneKind
    /\ run' = [run EXCEPT !.at = "ask", !.prompt = Responses,
                 !.open = IF run.fanIn = "agent" THEN {0} ELSE {}]

AggregateRaises == At("aggregate") /\ run.fanIn # "function" /\ ~OneKind /\ Raise

Answer ==
    /\ At("ask")
    /\ run' = [run EXCEPT !.at = "done", !.outcome = "returned", !.open = {}]

AnswerRaises == At("ask") /\ Raise

Next ==
    \/ EnterBranch
    \/ EnterRaises
    \/ Execute
    \/ \E b \in Branches, v \in Value : BranchEnds(b, v)
    \/ CloseBranches
    \/ Aggregate
    \/ AggregateRaises
    \/ Answer
    \/ AnswerRaises

Spec == Init /\ [][Next]_run

-----------------------------------------------------------------------------
(* The aggregator is asked only with answers of one kind, never with the   *)
(* exception of a branch; every branch that shares its name with no other  *)
(* is in its prompt, and an answer stands under the name of the branch     *)
(* that gave it, whichever branch ended first (fan_out.py, fan_in.py).     *)
EveryBranchIsHeard == run.kind = "parallel" /\ run.prompt # {} =>
    /\ run.fanIn # "function" => \A r \in run.prompt : run.value[r[2]] # "exception"
    /\ \A r \in run.prompt : r[1] = run.name[r[2]]
    /\ \A b \in Branches :
         (\A c \in Branches \ {b} : run.name[c] # run.name[b])
            => <<run.name[b], b>> \in run.prompt

(* No branch is open while the aggregator answers, and nothing at the end. *)
AgentsAreClosed == run.kind = "parallel" =>
    /\ run.at \in {"aggregate", "done"} => run.open = {}
    /\ run.at = "ask" => run.open \subseteq {0}
=============================================================================
