------------------------------- MODULE Swarm --------------------------------
(* One call of OpenAISwarm.generate or AnthropicSwarm.generate             *)
(* (workflows/swarm): the loop of requests in which a tool may hand the    *)
(* conversation to another agent.  Each turn is one request of             *)
(* AugmentedLLM with the current agent's tools and instruction.            *)
(*                                                                         *)
(* The tools that hand nothing over are one: an ordinary tool, one that    *)
(* raises, one that returns an AgentFunctionResult (post_tool_call looks   *)
(* for that type, but call_tool has wrapped it in a resource) and one that *)
(* means to end the workflow (DoneAgent cannot be constructed).            *)
EXTENDS Naturals, Sequences

CONSTANTS
    SwarmAgents,   \* the agents the functions may return
    MaxTurns,      \* params.max_iterations
    MaxHandovers   \* bound: tool calls in one message

VARIABLE run

At(l) == run.kind = "swarm" /\ run.at = l

(* What a tool call returns: an agent, or none.                            *)
Tool == SwarmAgents \cup {"none"}

Phase == {"waiting", "switching", "ended"}

TypeOK == run.kind = "swarm" =>
    /\ run.at \in {"ask", "tools", "done"}
    /\ run.parallel \in BOOLEAN
    /\ {run.agent, run.instruction} \subseteq SwarmAgents
    /\ run.turns \in 0..MaxTurns
    /\ run.tools \in Seq(Tool)
    /\ run.phase \in Seq(Phase)
    /\ run.failed \in BOOLEAN

(* parallel: the calls of a message run at once, which takes OpenAI and a  *)
(* caller that asks for it; otherwise they run one after the other.        *)
Started(agent, parallel) ==
    [kind |-> "swarm", at |-> "ask", parallel |-> parallel, agent |-> agent,
     instruction |-> agent, turns |-> 0, tools |-> <<>>, phase |-> <<>>,
     failed |-> FALSE]

Init == \E a \in SwarmAgents, p \in BOOLEAN : run = Started(a, p)

(* One request.  Nothing ends the loop early: should_continue is false     *)
(* only for DoneAgent, and a model that ends its turn is asked again.      *)
Ask ==
    /\ At("ask")
    /\ run.turns < MaxTurns
    /\ \E n \in 0..MaxHandovers : \E tools \in [1..n -> Tool] :
         run' = [run EXCEPT !.at = "tools", !.tools = tools,
                            !.phase = [k \in 1..n |-> "waiting"]]

Return == At("ask") /\ run.turns = MaxTurns /\ run' = [run EXCEPT !.at = "done"]

(* The current agent's tools cannot be listed.                             *)
AskRaises == At("ask") /\ run.turns < MaxTurns /\ run' = [run EXCEPT !.at = "done"]

MayStart(k) ==
    /\ At("tools")
    /\ k \in DOMAIN run.tools
    /\ run.phase[k] = "waiting"
    /\ run.parallel \/ \A j \in 1..(k - 1) : run.phase[j] = "ended"

(* call_tool ends without handing over.                                    *)
RunTool(k) ==
    /\ MayStart(k)
    /\ run.tools[k] = "none"
    /\ run' = [run EXCEPT !.phase[k] = "ended"]

SwitchNotAwaited == "ended"

(* Where a handover leaves its call until the new agent is initialized.    *)
SwitchPhase == "switching"

(* post_tool_call and set_agent up to its await: the old agent is shut     *)
(* down and the new one is the aggregator before it is initialized.        *)
BeginSwitch(k) ==
    /\ MayStart(k)
    /\ run.tools[k] \in SwarmAgents
    /\ run' = [run EXCEPT !.agent = run.tools[k], !.phase[k] = SwitchPhase]

(* set_agent after its await: the instruction of the agent it was given.   *)
FinishSwitch(k) ==
    /\ At("tools")
    /\ k \in DOMAIN run.tools
    /\ run.phase[k] = "switching"
    /\ run' = [run EXCEPT !.instruction = run.tools[k], !.phase[k] = "ended",
                          !.failed = FALSE]

(* Initialization raises; call_tool turns that into an error result.       *)
SwitchFails(k) ==
    /\ At("tools")
    /\ k \in DOMAIN run.tools
    /\ run.phase[k] = "switching"
    /\ run' = [run EXCEPT !.failed = TRUE, !.phase[k] = "ended"]

NotCounted == run.turns

Counted == run.turns + 1

EndTurn ==
    /\ At("tools")
    /\ \A k \in DOMAIN run.tools : run.phase[k] = "ended"
    /\ run' = [run EXCEPT !.at = "ask", !.turns = Counted, !.tools = <<>>,
                          !.phase = <<>>]

Next ==
    \/ Ask
    \/ Return
    \/ AskRaises
    \/ \E k \in 1..MaxHandovers :
         RunTool(k) \/ BeginSwitch(k) \/ FinishSwitch(k) \/ SwitchFails(k)
    \/ EndTurn

Spec == Init /\ [][Next]_run

-----------------------------------------------------------------------------
(* A request that offers an agent's tools carries that agent's             *)
(* instruction, unless the agent failed to initialize when it took over or *)
(* two handovers ran at once (set_agent, lines 269-292).                   *)
InstructionIsAgents ==
    At("ask") /\ ~run.parallel /\ ~run.failed => run.instruction = run.agent
=============================================================================
