------------------------------ MODULE EventBus ------------------------------
(* The asynchronous event bus of aip_agent/logging: loggers emit events,   *)
(* which go to a transport and then into a queue; one task hands each      *)
(* queued event to all listeners; LoggingConfig starts and stops the bus.  *)
(* The transport is the HTTP one, which sends batches; the bus never stops *)
(* it, so the last batch stays unsent.                                     *)
EXTENDS Naturals, Sequences, SequencesExt, FiniteSets

CONSTANTS
    Listeners,    \* the names under which listeners are added
    MaxEvents,    \* bound: events emitted
    BatchSize,    \* batch_size of the transport
    MaxStarts     \* bound: times the bus is configured

VARIABLES
    queue,        \* AsyncEventBus._queue
    unfinished,   \* the queue's count of events put and not marked done
    hand,         \* the event the task holds, 0 for none
    todo,         \* the listeners that have not finished with it
    task,         \* _process_events: "none", "loop", "drain" or "ended"
    running,      \* _running
    stopping,     \* where stop is: "no", "join", "cancel", "wait", "listeners"
    starts,
    emitted,      \* events emitted so far; they are numbered
    batch,        \* HTTPTransport.batch
    posting,      \* the event whose emit waits for the batch to be sent, or 0
    handled,      \* what each listener has finished, in order
    cut,          \* events whose handling was cut off
    drained,      \* events thrown away unseen
    slow,         \* a listener was at work when the limit of join ran out
    bound         \* events in the queue or in hand when stop was called

busVars == <<queue, unfinished, hand, todo, task, running, stopping, starts,
             emitted, batch, posting, handled, cut, drained, slow, bound>>

TypeOK ==
    /\ queue \in Seq(1..MaxEvents) /\ batch \in Seq(1..MaxEvents)
    /\ unfinished \in 0..MaxEvents
    /\ hand \in 0..MaxEvents /\ posting \in 0..MaxEvents
    /\ todo \subseteq Listeners
    /\ task \in {"none", "loop", "drain", "ended"}
    /\ running \in BOOLEAN
    /\ stopping \in {"no", "join", "cancel", "wait", "listeners"}
    /\ handled \in [Listeners -> Seq(1..MaxEvents)]
    /\ cut \cup drained \subseteq 1..MaxEvents /\ slow \in BOOLEAN /\ bound \subseteq 1..MaxEvents

Init ==
    /\ queue = <<>> /\ unfinished = 0 /\ hand = 0 /\ todo = {}
    /\ task = "none" /\ running = FALSE /\ stopping = "no" /\ starts = 0
    /\ emitted = 0 /\ batch = <<>> /\ posting = 0
    /\ handled = [l \in Listeners |-> <<>>] /\ cut = {} /\ drained = {}
    /\ slow = FALSE /\ bound = {}

(* LoggingConfig.configure and AsyncEventBus.start.  The flag _initialized *)
(* is cleared when stop has returned.                                      *)
Configure ==
    /\ ~running /\ stopping = "no" /\ starts < MaxStarts
    /\ running' = TRUE /\ task' = "loop" /\ starts' = starts + 1
    /\ UNCHANGED <<queue, unfinished, hand, todo, stopping, emitted, batch,
                   posting, handled, cut, drained, slow, bound>>

Put(e) == queue' = Append(queue, e) /\ unfinished' = unfinished + 1

(* emit, up to its first wait: the event joins the batch under the lock of *)
(* the transport, and one that fills the batch waits for it to be sent.    *)
(* Loggers emit whether the bus runs or not.                               *)
Emit ==
    /\ emitted < MaxEvents /\ posting = 0
    /\ emitted' = emitted + 1
    /\ batch' = Append(batch, emitted')
    /\ IF Len(batch') >= BatchSize
       THEN posting' = emitted' /\ UNCHANGED <<queue, unfinished>>
       ELSE Put(emitted') /\ UNCHANGED posting
    /\ UNCHANGED <<hand, todo, task, running, stopping, starts, handled, cut, drained, slow, bound>>

(* _flush ends, well or not; the batch is cleared, the event queued.       *)
PostEnds ==
    /\ posting # 0
    /\ batch' = <<>> /\ posting' = 0 /\ Put(posting)
    /\ UNCHANGED <<hand, todo, task, running, stopping, starts, emitted, handled,
                   cut, drained, slow, bound>>

(* _process_events takes the next event, while running or in its last loop *)
(* over what is left.                                                      *)
Take ==
    /\ \/ task = "loop" /\ running
       \/ task = "drain"
    /\ hand = 0 /\ queue # <<>>
    /\ hand' = Head(queue) /\ queue' = Tail(queue) /\ todo' = Listeners
    /\ UNCHANGED <<unfinished, task, running, stopping, starts, emitted, batch,
                   posting, handled, cut, drained, slow, bound>>

(* gather: the listeners finish with the event in any order.               *)
Handle(l) ==
    /\ hand # 0 /\ l \in todo
    /\ todo' = todo \ {l}
    /\ handled' = [handled EXCEPT ![l] = Append(@, hand)]
    /\ UNCHANGED <<queue, unfinished, hand, task, running, stopping, starts,
                   emitted, batch, posting, cut, drained, slow, bound>>

(* task_done; the last one lets a stop that waits in join go on.           *)
TaskDone ==
    /\ hand # 0 /\ todo = {}
    /\ hand' = 0 /\ unfinished' = unfinished - 1
    /\ stopping' = IF stopping = "join" /\ unfinished' = 0 THEN "cancel" ELSE stopping
    /\ UNCHANGED <<queue, todo, task, running, starts, emitted, batch, posting,
                   handled, cut, drained, slow, bound>>

AfterLoopNothing == "ended"

(* What follows the loop: the events still queued.                         *)
AfterLoop == "drain"

LoopEnds ==
    /\ task = "loop" /\ ~running /\ hand = 0
    /\ task' = AfterLoop
    /\ UNCHANGED <<queue, unfinished, hand, todo, running, stopping, starts,
                   emitted, batch, posting, handled, cut, drained, slow, bound>>

DrainEnds ==
    /\ task = "drain" /\ hand = 0 /\ queue = <<>>
    /\ task' = "ended"
    /\ UNCHANGED <<queue, unfinished, hand, todo, running, stopping, starts,
                   emitted, batch, posting, handled, cut, drained, slow, bound>>

(* LoggingConfig.shutdown and AsyncEventBus.stop, up to its first wait.    *)
Stop ==
    /\ running /\ stopping = "no"
    /\ running' = FALSE
    /\ stopping' = IF queue = <<>> THEN "cancel" ELSE "join"
    /\ bound' = Range(queue) \cup ({hand} \ {0})
    /\ UNCHANGED <<queue, unfinished, hand, todo, task, starts, emitted, batch,
                   posting, handled, cut, drained, slow>>

(* queue.join is given five seconds, which pass while a listener is at     *)
(* work or when nobody is left to take an event.                           *)
JoinLimit == stopping = "join" /\ unfinished > 0 /\ (todo # {} \/ task = "ended")

(* They are over: what is queued is thrown away.                           *)
JoinTimesOut ==
    /\ JoinLimit
    /\ stopping' = "cancel"
    /\ drained' = drained \cup Range(queue)
    /\ slow' = (slow \/ todo # {})
    /\ unfinished' = unfinished - Len(queue)
    /\ queue' = <<>>
    /\ UNCHANGED <<hand, todo, task, running, starts, emitted, batch, posting,
                   handled, cut, bound>>

CutOff ==
    /\ cut' = cut \cup ({hand} \ {0})
    /\ hand' = 0 /\ todo' = {}

(* The task is cancelled.  The listeners at work on an event are cut off,  *)
(* and the event is never marked done; the loop then passes to what is     *)
(* left, but a cancelled last loop ends the task.                          *)
Cancel ==
    /\ stopping = "cancel"
    /\ task = "drain" => hand # 0
    /\ IF task = "ended"
       THEN stopping' = "listeners" /\ UNCHANGED <<task, hand, todo, cut>>
       ELSE /\ stopping' = "wait"
            /\ task' = IF task = "loop" THEN AfterLoop ELSE "ended"
            /\ CutOff
    /\ UNCHANGED <<queue, unfinished, running, starts, emitted, batch, posting,
                   handled, drained, slow, bound>>

(* stop waits five seconds for the task, and cancels it once more.         *)
TaskEnded ==
    /\ stopping = "wait" /\ task = "ended"
    /\ stopping' = "listeners"
    /\ UNCHANGED <<queue, unfinished, hand, todo, task, running, starts, emitted,
                   batch, posting, handled, cut, drained, slow, bound>>

WaitTimesOut ==
    /\ stopping = "wait" /\ task = "drain" /\ hand # 0
    /\ stopping' = "listeners" /\ task' = "ended"
    /\ CutOff
    /\ UNCHANGED <<queue, unfinished, running, starts, emitted, batch, posting,
                   handled, drained, slow, bound>>

(* Each listener is stopped, which takes three seconds at most.            *)
StopListeners ==
    /\ stopping = "listeners"
    /\ stopping' = "no" /\ bound' = {}
    /\ UNCHANGED <<queue, unfinished, hand, todo, task, running, starts, emitted,
                   batch, posting, handled, cut, drained, slow>>

StopStep ==
    \/ JoinTimesOut \/ Cancel \/ TaskEnded \/ WaitTimesOut \/ StopListeners

Process == Take \/ (\E l \in Listeners : Handle(l)) \/ TaskDone \/ LoopEnds \/ DrainEnds

Next == Configure \/ Emit \/ PostEnds \/ Process \/ Stop \/ StopStep

(* The loop, a stop that was begun and a post under way go on.             *)
Spec == Init /\ [][Next]_busVars /\ WF_busVars(Process) /\ WF_busVars(StopStep)

-----------------------------------------------------------------------------
(* Every listener gets the events in the order they were queued, none      *)
(* twice.  When stop comes to the listeners, each event that was queued or *)
(* in hand when it was called has reached every listener, unless it was    *)
(* cut off in hand or thrown away; and events are thrown away only when a  *)
(* listener used up the limit, or after an event was cut off, which leaves *)
(* the queue's count too high (stop and _process_events, lines 303-424).   *)
EventsAreHandled ==
    /\ \A l \in Listeners : \A i, j \in DOMAIN handled[l] :
         i < j => handled[l][i] < handled[l][j]
    /\ stopping = "listeners" =>
         \A e \in bound : e \in cut \cup drained \/ \A l \in Listeners : e \in Range(handled[l])
    /\ drained # {} => slow \/ cut # {}

(* stop returns.                                                           *)
StopReturns == (stopping # "no") ~> (stopping = "no")
=============================================================================
