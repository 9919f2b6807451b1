--------------------------- MODULE AgentLifecycle ---------------------------
(* The wrappers that run an agent in a worker runtime                      *)
(* (aip_agent/agents/full_agent.py, tool_agent.py, sse_tool_agent.py):     *)
(* initialize, the heartbeat task, the registration in the hub, and stop,  *)
(* which the user calls, and also the heartbeat when it fails too often.   *)
(*                                                                         *)
(* stop tells the hub, cancels the heartbeat and stops the runtime, the    *)
(* full wrapper in that order, the tool wrapper with the first two         *)
(* exchanged, the SSE wrapper without a heartbeat; the full one survives a *)
(* hub that fails.  The parts between two waits are operators on the       *)
(* record, so that a step is one run of the coroutine.                     *)
EXTENDS Naturals

CONSTANTS
    Kinds,          \* the kinds of wrapper, of "full", "tool" and "sse"
    MaxFailures     \* _max_failures

(* kind; init, where initialize is; runtime, the worker runtime ("half" is *)
(* neither running nor closed); held, whether _runtime is set; alive for   *)
(* _running; initialized; hub, what the hub has of the agent; beat, the    *)
(* heartbeat task; kept, whether _heartbeat_task is set; failures; again,  *)
(* whether the heartbeat's stop is called anew if it raises; stop, where   *)
(* the calls of stop by the user and by the heartbeat are.                 *)
VARIABLE agent

Over == {"done", "raised"}

TypeOK ==
    agent \in [kind : Kinds,
               init : {"no", "start", "prepare", "hub", "load"} \cup Over,
               runtime : {"made", "running", "stopping", "half", "stopped"},
               held : BOOLEAN, alive : BOOLEAN, initialized : BOOLEAN,
               hub : {"none", "running", "stopped"},
               beat : {"none", "ready", "sending", "sleeping", "stopping", "ended", "died"},
               kept : BOOLEAN, failures : 0..MaxFailures + 1, again : BOOLEAN,
               stop : [{"user", "beat"} -> {"no", "hub", "await", "closing"} \cup Over]]

(* The full wrapper gets its runtime when it is built.                     *)
Init ==
    agent \in [kind : Kinds, init : {"no"}, runtime : {"made"}, held : BOOLEAN,
               alive : {TRUE}, initialized : {FALSE}, hub : {"none"},
               beat : {"none"}, kept : {FALSE}, failures : {0}, again : {FALSE},
               stop : {[p \in {"user", "beat"} |-> "no"]}]
    /\ agent.held = (agent.kind = "full")

Full == agent.kind = "full"

-----------------------------------------------------------------------------
(* initialize.  A step that raises leaves what was done before as it is.   *)

Raise == agent' = [agent EXCEPT !.init = "raised"]

StartBeat(r) == [r EXCEPT !.beat = "ready", !.kept = TRUE]

(* Registering on the chain, up to the start of the runtime.               *)
Begin ==
    /\ agent.init = "no"
    /\ Raise \/ agent' = [agent EXCEPT !.init = "start", !.held = TRUE]

RuntimeStarts ==
    /\ agent.init = "start"
    /\ Raise \/ agent' = [agent EXCEPT !.runtime = "running",
                            !.init = IF agent.kind = "sse" THEN "hub" ELSE "prepare"]

(* The model is attached (full) and the agent registered; the heartbeat of *)
(* the tool wrapper starts here.                                           *)
Prepare ==
    /\ agent.init = "prepare"
    /\ LET r == [agent EXCEPT !.init = "hub"] IN
         Raise \/ agent' = IF Full THEN r ELSE StartBeat(r)

(* update_in_hub("running") answers, raises or is out of time: the wrapper *)
(* goes on.                                                                *)
Register ==
    /\ agent.init = "hub"
    /\ \E answer \in {agent.hub, "running"} :
         agent' = [agent EXCEPT !.hub = answer, !.init = IF Full THEN "load" ELSE "done"]

(* The hub's servers are loaded, or not.                                   *)
LoadServers ==
    /\ agent.init = "load"
    /\ agent' = StartBeat([agent EXCEPT !.init = "done", !.initialized = TRUE])

Initialize == Begin \/ RuntimeStarts \/ Prepare \/ Register \/ LoadServers

-----------------------------------------------------------------------------
(* The heartbeat.                                                          *)

FailedForever(timedOut) ==
    [agent EXCEPT !.failures = @ + 1, !.beat = "sleeping", !.again = FALSE]

(* A failure is counted; the last one calls stop, and if it was a time out *)
(* it does so inside the try whose handler counts and calls stop too.      *)
Failed(timedOut) ==
    LET last == agent.failures + 1 >= MaxFailures IN
    [agent EXCEPT !.failures = @ + 1,
                  !.beat = IF last THEN "stopping" ELSE "sleeping",
                  !.again = last /\ timedOut]

Beat ==
    /\ agent.beat = "ready"
    /\ agent' =
         IF ~agent.alive THEN [agent EXCEPT !.beat = "ended"]
         ELSE IF agent.held /\ (Full => agent.initialized) /\ agent.runtime = "running"
         THEN [agent EXCEPT !.beat = "sending"]
         ELSE Failed(FALSE)

BeatEnds ==
    /\ agent.beat = "sending"
    /\ \/ agent' = [agent EXCEPT !.beat = "sleeping", !.failures = 0]
       \/ \E timedOut \in BOOLEAN : agent' = Failed(timedOut)

(* The tool wrapper sleeps at least as long as initialize, which may still *)
(* be waiting for the hub, has time to.                                    *)
Wake ==
    /\ agent.beat = "sleeping" /\ agent.init \in Over
    /\ agent' = [agent EXCEPT !.beat = "ready"]

-----------------------------------------------------------------------------
(* stop, called by p.                                                      *)

At(r, p, where) == [r EXCEPT !.stop[p] = where]

(* A runtime that does not run raises.                                     *)
CloseRuntime(r, p) ==
    LET s == IF r.kind = "full" THEN [r EXCEPT !.alive = FALSE, !.initialized = FALSE] ELSE r IN
    IF ~s.held THEN At(s, p, "done")
    ELSE IF s.runtime # "running" THEN At(s, p, "raised")
    ELSE [At(s, p, "closing") EXCEPT !.runtime = "stopping"]

CancelNothing(r, cut) == r

(* cancel of the heartbeat task.  Within its own stop it is interrupted    *)
(* while it waits for the hub or, if cut, for the runtime; where it waits  *)
(* for itself it has been cancelled already, and goes on.                  *)
CancelBeat(r, cut) ==
    LET at == r.stop["beat"] IN
    IF r.beat \in {"ended", "died"} \/ at = "await" \/ (at = "closing" /\ ~cut) THEN r
    ELSE [r EXCEPT !.beat = "ended",
                   !.runtime = IF at = "closing" THEN "half" ELSE @,
                   !.stop["beat"] = IF r.beat = "stopping" THEN "raised" ELSE @]

AwaitBeat(r, p, cut) == At(IF p = "user" THEN CancelBeat(r, cut) ELSE r, p, "await")

AwaitIfKept(r, p, cut) ==
    IF r.kept THEN AwaitBeat(r, p, cut) ELSE CloseRuntime(r, p)

AfterHub(r, p, cut) ==
    IF r.kind = "full" THEN AwaitIfKept(r, p, cut) ELSE CloseRuntime(r, p)

HubFails(r, p, cut) ==
    IF r.kind = "full" THEN AwaitIfKept(r, p, cut) ELSE At(r, p, "raised")

(* update_in_hub("stopped"), which raises at once if the runtime does not  *)
(* run.                                                                    *)
TellHub(r, p, cut) ==
    IF r.kind = "full" /\ ~r.initialized THEN AwaitIfKept(r, p, cut)
    ELSE IF r.kind # "full" /\ ~r.held THEN At(r, p, "done")
    ELSE IF r.held /\ r.runtime = "running" THEN At(r, p, "hub")
    ELSE HubFails(r, p, cut)

(* The user calls stop when initialize is over, the heartbeat from its     *)
(* handlers.                                                               *)
Stop(p) ==
    /\ agent.stop[p] = "no"
    /\ IF p = "user" THEN agent.init \in Over ELSE agent.beat = "stopping"
    /\ \E cut \in BOOLEAN :
         agent' = IF agent.kind # "tool" THEN TellHub(agent, p, cut)
                  ELSE LET r == [agent EXCEPT !.alive = FALSE] IN
                       IF r.kept THEN AwaitBeat(r, p, cut) ELSE TellHub(r, p, cut)

HubEnds(p) ==
    /\ agent.stop[p] = "hub"
    /\ \E cut \in BOOLEAN :
         \/ /\ agent.runtime = "running"
            /\ agent' = AfterHub([agent EXCEPT !.hub = "stopped"], p, cut)
         \/ agent' = HubFails(agent, p, cut)

(* The heartbeat task has ended, or waited for itself.  If it died of an   *)
(* exception, so does the call that waits for it.                          *)
AwaitEnds(p) ==
    /\ agent.stop[p] = "await"
    /\ p = "user" => agent.beat \in {"ended", "died"}
    /\ agent' =
         IF agent.beat = "died" THEN At(agent, p, "raised")
         ELSE IF Full THEN CloseRuntime([agent EXCEPT !.kept = FALSE], p)
         ELSE TellHub(agent, p, FALSE)

RuntimeStops(p) ==
    /\ agent.stop[p] = "closing"
    /\ agent' = [At(agent, p, "done") EXCEPT !.runtime = "stopped", !.held = ~Full]

(* The heartbeat goes on after its stop: it breaks off, or the outer       *)
(* handler calls stop again, or it dies.                                   *)
BeatStopped ==
    /\ agent.beat = "stopping" /\ agent.stop["beat"] \in Over
    /\ agent' =
         IF agent.stop["beat"] = "done" THEN [agent EXCEPT !.beat = "ended"]
         ELSE IF agent.again
         THEN [At(agent, "beat", "no") EXCEPT !.again = FALSE, !.failures = @ + 1]
         ELSE [agent EXCEPT !.beat = "died"]

Stopping(p) == HubEnds(p) \/ AwaitEnds(p) \/ RuntimeStops(p)

Heartbeat == Beat \/ BeatEnds \/ Wake \/ Stop("beat") \/ Stopping("beat") \/ BeatStopped

Next == Initialize \/ Heartbeat \/ Stop("user") \/ Stopping("user")

(* Calls of the hub have a time limit (the SSE wrapper's have none), and   *)
(* the runtime's stop ends.                                                *)
Fairness ==
    /\ WF_agent(Initialize) /\ WF_agent(Heartbeat)
    /\ WF_agent(agent.kind # "sse" /\ Stopping("user"))

Spec == Init /\ [][Next]_agent /\ Fairness

-----------------------------------------------------------------------------
(* When stop has returned, to the user or to the heartbeat, the runtime is *)
(* down, whatever the other call did meanwhile, no heartbeat goes on, and  *)
(* the hub of a tool was told; the kinds whose stop can raise leave the    *)
(* runtime running only then (stop, full_agent.py 400-416, tool_agent.py   *)
(* 179-189, sse_tool_agent.py 210-215).                                    *)
StopStops ==
    \A p \in {"user", "beat"} : agent.stop[p] = "done" =>
        /\ agent.runtime \in {"made", "stopped"}
        /\ agent.beat \in {"none", "ended", "stopping"}
        /\ agent.kind # "full" /\ agent.runtime = "stopped" => agent.hub = "stopped"

(* stop ends for its caller, although it waits for a heartbeat that may be *)
(* stopping too; and a full agent whose heartbeat gave up is taken down.   *)
StopEnds ==
    /\ agent.kind # "sse" /\ agent.stop["user"] \notin Over \cup {"no"}
         ~> agent.stop["user"] \in Over
    /\ Full /\ agent.beat = "stopping" ~> agent.runtime = "stopped"
=============================================================================
