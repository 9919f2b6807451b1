----------------------------- MODULE MCRuntime ------------------------------
(* What runs inside an agent's process, for TLC: one of its parts, chosen  *)
(* at the start; the variables of the others keep their first values.      *)
EXTENDS Naturals, Sequences

CONSTANTS
    Listeners, MaxEvents, BatchSize, MaxStarts,
    Waiters, Requests, MaxSignals,
    Servers, Callers, Host, MaxConnections,
    Kinds, MaxFailures

(* Each request for input is a coroutine of its own; its answer is signal 1. *)
ASSUME SignalsAssumption ==
    MaxSignals \in Nat \ {0} /\ Waiters \cap Requests = {}

ASSUME ConnectionsAssumption == MaxConnections \in Nat

ASSUME EventsAssumption == MaxEvents \in Nat

(* The heartbeat survives one failure (_max_failures is 5, and 3 for tools). *)
ASSUME LifeAssumption ==
    MaxFailures \in Nat \ {0, 1} /\ Kinds \subseteq {"full", "tool", "sse"}

VARIABLES
    active,
    queue, unfinished, hand, todo, task, running, stopping, starts, emitted,
    batch, posting, handled, cut, drained, slow, bound,
    waiter, pending, value, since, sent, callback,
    group, current, conn, caller,
    agent

Bus  == INSTANCE EventBus
Sig  == INSTANCE Signals
Conn == INSTANCE McpConnections
Life == INSTANCE AgentLifecycle

busVars  == <<queue, unfinished, hand, todo, task, running, stopping, starts,
              emitted, batch, posting, handled, cut, drained, slow, bound>>
sigVars  == <<waiter, pending, value, since, sent, callback>>
connVars == <<group, current, conn, caller>>
allVars  == <<active, busVars, sigVars, connVars, agent>>

Init ==
    /\ active \in {"bus", "signals", "connections", "agent"}
    /\ Bus!Init /\ Sig!Init /\ Conn!Init
    /\ Life!Init /\ (active # "agent" => agent.kind = "full")

OnlyBus  == active = "bus" /\ UNCHANGED <<active, sigVars, connVars, agent>>
OnlySig  == active = "signals" /\ UNCHANGED <<active, busVars, connVars, agent>>
OnlyConn == active = "connections" /\ UNCHANGED <<active, busVars, sigVars, agent>>
OnlyLife == active = "agent" /\ UNCHANGED <<active, busVars, sigVars, connVars>>

Next ==
    \/ OnlyBus /\ Bus!Next
    \/ OnlySig /\ Sig!Next
    \/ OnlyConn /\ Conn!Next
    \/ OnlyLife /\ Life!Next

(* The fairness of each part, as its module states it.                     *)
Spec ==
    /\ Init /\ [][Next]_allVars
    /\ WF_allVars(OnlyBus /\ Bus!Process) /\ WF_allVars(OnlyBus /\ Bus!StopStep)
    /\ \A w \in Waiters \cup Requests : WF_allVars(OnlySig /\ Sig!Resume(w))
    /\ \A c \in Callers : WF_allVars(OnlyConn /\ Conn!Resumes(c))
    /\ \A i \in 1..MaxConnections : WF_allVars(OnlyConn /\ Conn!LifecycleOf(i))
    /\ WF_allVars(OnlyConn /\ Conn!Leave)
    /\ WF_allVars(OnlyLife /\ Life!Initialize) /\ WF_allVars(OnlyLife /\ Life!Heartbeat)
    /\ WF_allVars(OnlyLife /\ agent.kind # "sse" /\ Life!Stopping("user"))

-----------------------------------------------------------------------------
TypeOK ==
    /\ Bus!TypeOK /\ Sig!TypeOK /\ Conn!TypeOK /\ Life!TypeOK

(* No event that was due is missed by a listener.                          *)
EventsAreHandled == Bus!EventsAreHandled

(* A wait for a signal ends with a signal sent after it began.             *)
SignalsAreNotStale == Sig!SignalsAreNotStale

(* What was closed or stopped is down, whoever else was about it.          *)
NothingStaysBehind == Conn!OneConnectionPerServer /\ Life!StopStops

(* Every stop and close that was begun ends.                               *)
StopsReturn == Bus!StopReturns /\ Conn!CloseReturns /\ Life!StopEnds

(* Whoever waits for an answer or for a connection goes on.                *)
WaitersReturn == Sig!AnswerReturns /\ Conn!GetServerReturns
=============================================================================
