------------------------------ MODULE Signals -------------------------------
(* Signals between coroutines (aip_agent/executor/workflow_signal.py and   *)
(* executor.py) and the requests for human input built on them             *)
(* (agents/agent.py).  A coroutine waits for a signal under a name; a      *)
(* signal sets the value of every waiter of its name and wakes it.  A      *)
(* request for human input makes up a name of its own, starts a task that  *)
(* asks the human and signals the name, and waits for it.                  *)
(*                                                                         *)
(* The executor drops the time limit it is given, so only waits made       *)
(* directly at the handler have one.                                       *)
EXTENDS Naturals, FiniteSets

CONSTANTS
    Waiters,      \* coroutines that wait under a shared name
    Requests,     \* requests for human input, each with a name of its own
    MaxSignals    \* bound: signals sent under the shared name

VARIABLES
    waiter,       \* what each coroutine is doing, Waiters and Requests alike
    pending,      \* _pending_signals: those whose signal has not been removed
    value,        \* PendingSignal.value
    since,        \* signals sent when the wait began
    sent,         \* signals sent under the shared name
    callback      \* the task of a request: "none", "asking" or "ended"

sigVars == <<waiter, pending, value, since, sent, callback>>

(* A signal carries its number; a request's signal carries 1.              *)
TypeOK ==
    /\ waiter \in [Waiters \cup Requests -> {"idle", "waiting", "woken", "returned", "timedOut"}]
    /\ pending \subseteq Waiters \cup Requests
    /\ value \in [Waiters \cup Requests -> 0..MaxSignals]
    /\ since \in [Waiters \cup Requests -> 0..MaxSignals]
    /\ sent \in 0..MaxSignals
    /\ callback \in [Requests -> {"none", "asking", "ended"}]

Init ==
    /\ waiter = [w \in Waiters \cup Requests |-> "idle"]
    /\ pending = {}
    /\ value = [w \in Waiters \cup Requests |-> 0]
    /\ since = [w \in Waiters \cup Requests |-> 0]
    /\ sent = 0
    /\ callback = [r \in Requests |-> "none"]

(* wait_for_signal up to its await: the lock is free whenever a coroutine  *)
(* runs, so the wait is registered before anything else happens.           *)
Register(w) ==
    /\ waiter' = [waiter EXCEPT ![w] = "waiting"]
    /\ pending' = pending \cup {w}
    /\ value' = [value EXCEPT ![w] = 0]
    /\ since' = [since EXCEPT ![w] = sent]

Wait(w) ==
    /\ w \in Waiters
    /\ waiter[w] \in {"idle", "returned", "timedOut"}
    /\ Register(w)
    /\ UNCHANGED <<sent, callback>>

WakeOne(ws, v) ==
    LET one == IF ws = {} THEN {} ELSE {CHOOSE w \in ws : TRUE} IN
    /\ value' = [w \in DOMAIN value |-> IF w \in one THEN v ELSE value[w]]
    /\ waiter' = [w \in DOMAIN waiter |-> IF w \in one THEN "woken" ELSE waiter[w]]

(* What signal does with the waiters it finds: the value is set and the    *)
(* event with it.  A waiter already woken by an earlier signal and not yet *)
(* resumed is still listed, and its value is replaced.                     *)
Wake(ws, v) ==
    /\ value' = [w \in DOMAIN value |-> IF w \in ws THEN v ELSE value[w]]
    /\ waiter' = [w \in DOMAIN waiter |-> IF w \in ws THEN "woken" ELSE waiter[w]]

Signal ==
    /\ sent < MaxSignals
    /\ sent' = sent + 1
    /\ Wake(pending \cap Waiters, sent')
    /\ UNCHANGED <<pending, since, callback>>

(* The rest of wait_for_signal: the registration is removed, the value of  *)
(* the moment returned.                                                    *)
Resume(w) ==
    /\ waiter[w] = "woken"
    /\ waiter' = [waiter EXCEPT ![w] = "returned"]
    /\ pending' = pending \ {w}
    /\ UNCHANGED <<value, since, sent, callback>>

(* A wait with a limit gives up, and removes its registration.             *)
TimeOut(w) ==
    /\ w \in Waiters
    /\ waiter[w] = "waiting"
    /\ waiter' = [waiter EXCEPT ![w] = "timedOut"]
    /\ pending' = pending \ {w}
    /\ UNCHANGED <<value, since, sent, callback>>

(* cleanup forgets the waiters of the shared name without waking them.     *)
Cleanup ==
    /\ pending \cap Waiters # {}
    /\ pending' = pending \ Waiters
    /\ UNCHANGED <<waiter, value, since, sent, callback>>

(* request_human_input: the task is created and the wait registered before *)
(* the task first runs.                                                    *)
RequestHumanInput(r) ==
    /\ waiter[r] = "idle"
    /\ callback' = [callback EXCEPT ![r] = "asking"]
    /\ Register(r)
    /\ UNCHANGED sent

AnswerReachesNobody(r) == {}

(* Whom the signal of a request reaches.                                   *)
AnswerReaches(r) == pending \cap {r}

(* The callback returns, or raises (the console callback also when its own *)
(* time is up), and the answer or the text of the error is signalled.      *)
CallbackEnds(r) ==
    /\ callback[r] = "asking"
    /\ callback' = [callback EXCEPT ![r] = "ended"]
    /\ Wake(AnswerReaches(r), 1)
    /\ UNCHANGED <<pending, since, sent>>

Next ==
    \/ \E w \in Waiters : Wait(w) \/ TimeOut(w)
    \/ \E w \in Waiters \cup Requests : Resume(w)
    \/ Signal
    \/ Cleanup
    \/ \E r \in Requests : RequestHumanInput(r) \/ CallbackEnds(r)

(* A coroutine that was woken runs; humans and signallers need not.        *)
Spec == Init /\ [][Next]_sigVars /\ \A w \in Waiters \cup Requests : WF_sigVars(Resume(w))

-----------------------------------------------------------------------------
(* A wait never returns a signal sent before it began, and a coroutine     *)
(* that is registered and not woken has missed no signal of its name       *)
(* (AsyncioSignalHandler, lines 197-265).                                  *)
SignalsAreNotStale ==
    /\ \A w \in Waiters : waiter[w] \in {"woken", "returned"} => value[w] > since[w]
    /\ \A w \in Waiters \cap pending : waiter[w] = "waiting" => since[w] = sent

(* Once the human has answered, or the callback has failed, the request    *)
(* returns, whatever else is signalled or cleaned up meanwhile.            *)
AnswerReturns ==
    \A r \in Requests : callback[r] = "ended" ~> waiter[r] = "returned"
=============================================================================
