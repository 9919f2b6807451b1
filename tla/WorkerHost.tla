----------------------------- MODULE WorkerHost -----------------------------
(***************************************************************************)
(* The gRPC host that routes requests and events between worker runtimes,  *)
(* and the workers that talk to it (aip_agent/grpc).                       *)
(*                                                                         *)
(* Host and workers are asyncio programs: a handler runs to its next real  *)
(* suspension point in one step, and the host's handlers have none, its    *)
(* lock being free whenever one takes it. The steps that interleave are    *)
(* the messages on the two directions of each worker's stream, the unary   *)
(* RegisterAgent calls, the handlers of the agents and the ends of         *)
(* streams and processes.                                                  *)
(*                                                                         *)
(* A worker never reconnects: its client id is drawn when its channel is   *)
(* made, so a restarted worker is another member of Client. There is one   *)
(* topic; an agent's error is an answer like its result.                   *)
(***************************************************************************)
EXTENDS Naturals, Sequences, FiniteSets

CONSTANTS
  Client,     \* client ids of the worker runtimes
  Type,       \* agent types
  Request,    \* request ids (bounds the number of send_message calls)
  Event,      \* event ids (bounds the number of publish_message calls)
  NoClient,   \* the type is not in _agent_type_to_client_id
  NoRequest   \* a handler that awaits no answer

ASSUME HostAssumption ==
  /\ NoClient \notin Client
  /\ NoRequest \notin Request
  /\ Request \cap Event = {}

VARIABLES
  mode,         \* workers: new, up, stopping, deaf (stream lost), stopped
  reading,      \* workers: the read loop has not ended
  factories,    \* workers: _agent_factories
  asks,         \* workers: the calls of send_message (_pending_requests)
  tasks,        \* workers: the running handlers of requests
  registering,  \* RegisterAgent calls on their way to the host
  toHost,       \* stream from each worker to the host
  toClient,     \* stream from the host to each worker
  conn,         \* host: _data_connections
  types,        \* host: _agent_type_to_client_id
  pending,      \* host: _pending_responses, with the tasks that wait on them
  subs,         \* host: subscriptions and the clients that added them
  quiet         \* the events nobody has published yet

workerVars == <<mode, reading, factories, asks, tasks>>
hostVars == <<conn, types, pending, subs>>
vars == <<workerVars, registering, toHost, toClient, hostVars, quiet>>

Unsent == [state |-> "unsent"]

(* The worker's process runs and its stream is whole.                      *)
Linked(c) == mode[c] \in {"up", "stopping"}

SendToHost(c, m) ==
  toHost' = IF Linked(c) THEN [toHost EXCEPT ![c] = Append(@, m)] ELSE toHost

(* The queue of a client for every client of cs; what is put on the queue  *)
(* of a stream that has broken goes nowhere.                               *)
SendToClients(cs, m) ==
  toClient' = [c \in Client |->
    IF c \in cs /\ Linked(c) THEN Append(toClient[c], m) ELSE toClient[c]]

Msg(kind, id) == [kind |-> kind, id |-> id]

-----------------------------------------------------------------------------
Init ==
  /\ mode = [c \in Client |-> "new"]
  /\ reading = [c \in Client |-> FALSE]
  /\ factories = [c \in Client |-> {}]
  /\ asks = [r \in Request |-> Unsent]
  /\ tasks = {}
  /\ registering = {}
  /\ toHost = [c \in Client |-> <<>>]
  /\ toClient = [c \in Client |-> <<>>]
  /\ conn = {}
  /\ types = [a \in Type |-> NoClient]
  /\ pending = {}
  /\ subs = {}
  /\ quiet = Event

(* start() opens the channel; the host records the connection.             *)
Start(c) ==
  /\ mode[c] = "new"
  /\ mode' = [mode EXCEPT ![c] = "up"]
  /\ reading' = [reading EXCEPT ![c] = TRUE]
  /\ conn' = conn \cup {c}
  /\ UNCHANGED <<factories, asks, tasks, registering, toHost, toClient,
                 types, pending, subs, quiet>>

(* Mutant of RegisterFactory: the factory is kept when the host has        *)
(* answered, which is left to a later step.                                *)
RegisterFactoryLater(c, a) ==
  /\ mode[c] \in {"up", "deaf"}
  /\ a \notin factories[c]
  /\ registering' = registering \cup {[client |-> c, type |-> a]}
  /\ UNCHANGED <<workerVars, toHost, toClient, hostVars, quiet>>

(* register_factory keeps the factory, then calls RegisterAgent, on the    *)
(* same channel but not on the stream: a worker that has lost its stream   *)
(* can still do it.                                                        *)
RegisterFactory(c, a) ==
  /\ mode[c] \in {"up", "deaf"}
  /\ a \notin factories[c]
  /\ factories' = [factories EXCEPT ![c] = @ \cup {a}]
  /\ registering' = registering \cup {[client |-> c, type |-> a]}
  /\ UNCHANGED <<mode, reading, asks, tasks, toHost, toClient, hostVars, quiet>>

(* Mutant of RegisterAgent: the last to register a type gets it.           *)
RegisterAgentTakesOver(p) ==
  /\ registering' = registering \ {p}
  /\ types' = [types EXCEPT ![p.type] = p.client]
  /\ UNCHANGED <<workerVars, toHost, toClient, conn, pending, subs, quiet>>

(* The host accepts a type nobody has, and aborts the call otherwise.      *)
RegisterAgent(p) ==
  /\ registering' = registering \ {p}
  /\ types' = [types EXCEPT ![p.type] = IF @ = NoClient THEN p.client ELSE @]
  /\ UNCHANGED <<workerVars, toHost, toClient, conn, pending, subs, quiet>>

(* The host refuses a second subscription of a type to the topic.          *)
AddSubscription(c, a) ==
  /\ mode[c] \in {"up", "deaf"}
  /\ \A s \in subs : s.type # a
  /\ subs' = subs \cup {[type |-> a, client |-> c]}
  /\ UNCHANGED <<workerVars, registering, toHost, toClient, conn, types, pending, quiet>>

RemoveSubscription(s) ==
  /\ mode[s.client] \in {"up", "deaf"}
  /\ subs' = subs \ {s}
  /\ UNCHANGED <<workerVars, registering, toHost, toClient, conn, types, pending, quiet>>

-----------------------------------------------------------------------------
(* Workers.                                                                *)

Ask(c, r, a) ==
  /\ asks[r] = Unsent
  /\ asks' = [asks EXCEPT ![r] = [state |-> "waiting", by |-> c, to |-> a]]
  /\ SendToHost(c, Msg("request", r))

(* The worker's own code calls send_message.                               *)
SendMessage(c, r, a) ==
  /\ mode[c] \in {"up", "deaf"}
  /\ Ask(c, r, a)
  /\ UNCHANGED <<mode, reading, factories, tasks, registering, toClient, hostVars, quiet>>

(* An agent calls send_message while it handles a request. A worker that   *)
(* is stopping refuses.                                                    *)
HandlerAsks(k, r, a) ==
  /\ mode[k.at] \in {"up", "deaf"}
  /\ k.on = NoRequest
  /\ Ask(k.at, r, a)
  /\ tasks' = (tasks \ {k}) \cup {[k EXCEPT !.on = r]}
  /\ UNCHANGED <<mode, reading, factories, registering, toClient, hostVars, quiet>>

(* The agent returns or raises, and the answer goes out.                   *)
HandlerReturns(k) ==
  /\ k.on = NoRequest
  /\ tasks' = tasks \ {k}
  /\ SendToHost(k.at, Msg("response", k.req))
  /\ UNCHANGED <<mode, reading, factories, asks, registering, toClient, hostVars, quiet>>

(* The result cannot be serialized: this raises outside the try, and no    *)
(* answer is sent.                                                         *)
HandlerFails(k) ==
  /\ k.on = NoRequest
  /\ tasks' = tasks \ {k}
  /\ UNCHANGED <<mode, reading, factories, asks, registering, toHost, toClient, hostVars, quiet>>

PublishMessage(c, e) ==
  /\ mode[c] \in {"up", "deaf"}
  /\ e \in quiet
  /\ quiet' = quiet \ {e}
  /\ SendToHost(c, Msg("event", e))
  /\ UNCHANGED <<workerVars, registering, toClient, hostVars>>

(* The answer resolves the future of send_message.                         *)
ProcessResponse(c, r) ==
  /\ asks' = [asks EXCEPT ![r].state = "ended"]
  /\ tasks' = {IF k.on = r THEN [k EXCEPT !.on = NoRequest] ELSE k : k \in tasks}

(* The read loop takes one message and tests _running again. A handler it  *)
(* starts is among those stop waits for if stop has not begun.             *)
ReadLoop(c) ==
  LET m == Head(toClient[c]) IN
  /\ reading[c]
  /\ toClient[c] # <<>>
  /\ toClient' = [toClient EXCEPT ![c] = Tail(@)]
  /\ reading' = [reading EXCEPT ![c] = mode[c] # "stopping"]
  /\ \/ /\ m.kind = "request"
        /\ tasks' = tasks \cup {[at |-> c, req |-> m.id, on |-> NoRequest,
                                 early |-> mode[c] # "stopping"]}
        /\ UNCHANGED asks
     \/ m.kind = "response" /\ ProcessResponse(c, m.id)
     \/ m.kind = "event" /\ UNCHANGED <<asks, tasks>>
  /\ UNCHANGED <<mode, factories, registering, toHost, hostVars, quiet>>

(* stop() clears _running and waits for the handlers that run.             *)
Stop(c) ==
  /\ mode[c] = "up"
  /\ mode' = [mode EXCEPT ![c] = "stopping"]
  /\ UNCHANGED <<reading, factories, asks, tasks, registering, toHost, toClient,
                 hostVars, quiet>>

(* What the host has already read of a stream that ends, and what the      *)
(* worker has.                                                             *)
Prefixes(s) == {SubSeq(s, 1, n) : n \in 0..Len(s)}

(* The process of the worker ends.                                         *)
Gone(c) ==
  /\ mode' = [mode EXCEPT ![c] = "stopped"]
  /\ reading' = [reading EXCEPT ![c] = FALSE]
  /\ tasks' = {k \in tasks : k.at # c}
  /\ toClient' = [toClient EXCEPT ![c] = <<>>]
  /\ UNCHANGED <<factories, asks, registering, hostVars, quiet>>

StopCloses(c) ==
  /\ mode[c] = "stopping"
  /\ \A k \in tasks : k.at = c => ~k.early
  /\ Gone(c)
  /\ UNCHANGED toHost

Crash(c) ==
  /\ mode[c] \in {"up", "stopping", "deaf"}
  /\ Gone(c)
  /\ \E s \in Prefixes(toHost[c]) : toHost' = [toHost EXCEPT ![c] = s]

(* The stream breaks and the worker lives on: nothing reconnects it.       *)
StreamBreaks(c) ==
  /\ mode[c] = "up"
  /\ mode' = [mode EXCEPT ![c] = "deaf"]
  /\ \E s \in Prefixes(toHost[c]) : toHost' = [toHost EXCEPT ![c] = s]
  /\ \E s \in Prefixes(toClient[c]) : toClient' = [toClient EXCEPT ![c] = s]
  /\ UNCHANGED <<reading, factories, asks, tasks, registering, hostVars, quiet>>

-----------------------------------------------------------------------------
(* The host.                                                               *)

Take(c, kind) ==
  /\ toHost[c] # <<>>
  /\ Head(toHost[c]).kind = kind
  /\ toHost' = [toHost EXCEPT ![c] = Tail(@)]

(* Mutant of ProcessRequest: the future is stored under the asking client. *)
ProcessRequestByAsker(c) ==
  LET r == Head(toHost[c]).id
      target == types[asks[r].to]
  IN
  /\ Take(c, "request")
  /\ \/ /\ target \in conn
        /\ SendToClients({target}, Msg("request", r))
        /\ pending' = pending \cup {[target |-> c, req |-> r, asker |-> c]}
     \/ /\ target \notin conn
        /\ UNCHANGED <<toClient, pending>>
  /\ UNCHANGED <<workerVars, registering, conn, types, subs, quiet>>

(* A request for a type nobody has registered, or whose client has gone,   *)
(* is dropped; the asker is not told.                                      *)
ProcessRequest(c) ==
  LET r == Head(toHost[c]).id
      target == types[asks[r].to]
  IN
  /\ Take(c, "request")
  /\ \/ /\ target \in conn
        /\ SendToClients({target}, Msg("request", r))
        /\ pending' = pending \cup {[target |-> target, req |-> r, asker |-> c]}
     \/ /\ target \notin conn
        /\ UNCHANGED <<toClient, pending>>
  /\ UNCHANGED <<workerVars, registering, conn, types, subs, quiet>>

(* The answer resolves the future kept for the client, and the task that   *)
(* waits on it sends it to the asker if that is still connected; an answer *)
(* nobody waits for is an exception in a task of its own.                  *)
HostResponse(c) ==
  LET found == {p \in pending : p.target = c /\ p.req = Head(toHost[c]).id} IN
  /\ Take(c, "response")
  /\ pending' = pending \ found
  /\ SendToClients({p.asker : p \in found} \cap conn, Head(toHost[c]))
  /\ UNCHANGED <<workerVars, registering, conn, types, subs, quiet>>

Recipients == {types[s.type] : s \in subs} \ {NoClient}

(* Mutant of ProcessEvent: one of the recipients is enough.                *)
ProcessEventOnce(c) ==
  /\ Take(c, "event")
  /\ \E reached \in SUBSET (Recipients \cap conn) :
       /\ Cardinality(reached) <= 1
       /\ SendToClients(reached, Head(toHost[c]))
  /\ UNCHANGED <<workerVars, registering, hostVars, quiet>>

(* The event goes to each client of a subscribed type in turn; the first   *)
(* one that has no connection raises, and those after it get nothing.      *)
ProcessEvent(c) ==
  /\ Take(c, "event")
  /\ \E reached \in SUBSET (Recipients \cap conn) :
       /\ Recipients \subseteq conn => reached = Recipients
       /\ SendToClients(reached, Head(toHost[c]))
  /\ UNCHANGED <<workerVars, registering, hostVars, quiet>>

(* The finally clause of OpenChannel: the connection is removed, the       *)
(* futures of requests sent to the client are cancelled and their askers   *)
(* get nothing, its types and subscriptions are removed.                   *)
Disconnect(c) ==
  /\ c \in conn
  /\ ~Linked(c)
  /\ conn' = conn \ {c}
  /\ pending' = {p \in pending : p.target # c}
  /\ types' = [a \in Type |-> IF types[a] = c THEN NoClient ELSE types[a]]
  /\ subs' = {s \in subs : s.client # c}
  /\ UNCHANGED <<workerVars, registering, toHost, toClient, quiet>>

-----------------------------------------------------------------------------
Handler(k) ==
  \/ HandlerReturns(k)
  \/ \E r \in Request, a \in Type : HandlerAsks(k, r, a)

Host(c) == ProcessRequest(c) \/ HostResponse(c) \/ ProcessEvent(c)

WorkerCalls(c) ==
  \/ Start(c)
  \/ \E a \in Type : RegisterFactory(c, a) \/ AddSubscription(c, a)
  \/ \E r \in Request, a \in Type : SendMessage(c, r, a)
  \/ \E e \in Event : PublishMessage(c, e)

Routing ==
  \/ \E p \in registering : RegisterAgent(p)
  \/ \E c \in Client : WorkerCalls(c) \/ ReadLoop(c) \/ Host(c)
  \/ \E k \in tasks : Handler(k)

Next ==
  \/ Routing
  \/ \E s \in subs : RemoveSubscription(s)
  \/ \E k \in tasks : HandlerFails(k)
  \/ \E c \in Client :
       Stop(c) \/ StopCloses(c) \/ Crash(c) \/ StreamBreaks(c) \/ Disconnect(c)

Spec == Init /\ [][Next]_vars

(* Streams and handlers make progress; nobody has to call anything.        *)
Progress ==
  /\ \A c \in Client : WF_vars(ReadLoop(c)) /\ WF_vars(Host(c))
  /\ \A r \in Request : WF_vars(\E k \in tasks : k.req = r /\ HandlerReturns(k))

(* No worker stops and no stream breaks, and requests go only to types     *)
(* that are registered.                                                    *)
KnownTypesOnly ==
  \A r \in Request : asks[r] = Unsent /\ asks'[r] # Unsent => types[asks'[r].to] # NoClient

SteadyNext == Routing /\ KnownTypesOnly

SteadySpec == Init /\ [][SteadyNext]_vars /\ Progress

(* Workers may end: their streams are then closed by the host.             *)
FailingNext ==
  \/ SteadyNext
  \/ \E c \in Client : Crash(c) \/ Disconnect(c)

FailingSpec ==
  /\ Init
  /\ [][FailingNext]_vars
  /\ Progress
  /\ \A c \in Client : WF_vars(Disconnect(c))

(* Workers may be stopped, and no stream breaks.                           *)
StoppingNext ==
  \/ SteadyNext
  \/ \E c \in Client : Stop(c) \/ StopCloses(c) \/ Disconnect(c)

StoppingSpec ==
  /\ Init
  /\ [][StoppingNext]_vars
  /\ Progress
  /\ \A c \in Client : WF_vars(StopCloses(c)) /\ WF_vars(Disconnect(c))

-----------------------------------------------------------------------------
Message == [kind : {"request", "response"}, id : Request] \cup [kind : {"event"}, id : Event]

TypeOK ==
  /\ mode \in [Client -> {"new", "up", "stopping", "deaf", "stopped"}]
  /\ reading \in [Client -> BOOLEAN]
  /\ factories \in [Client -> SUBSET Type]
  /\ asks \in [Request -> {Unsent} \cup
                 [state : {"waiting", "ended"}, by : Client, to : Type]]
  /\ tasks \subseteq [at : Client, req : Request, on : Request \cup {NoRequest}, early : BOOLEAN]
  /\ registering \subseteq [client : Client, type : Type]
  /\ toHost \in [Client -> Seq(Message)]
  /\ toClient \in [Client -> Seq(Message)]
  /\ conn \subseteq Client
  /\ types \in [Type -> Client \cup {NoClient}]
  /\ pending \subseteq [target : Client, req : Request, asker : Client]
  /\ subs \subseteq [type : Type, client : Client]
  /\ quiet \subseteq Event

On(stream, m) == \E i \in DOMAIN stream : stream[i] = m

(* Whatever is registered, lost or restarted around it, a request reaches  *)
(* only a worker that can build its agent, and an answer reaches only the  *)
(* worker whose send_message still waits for it: neither the lookup of the *)
(* factory nor the pop of the future can fail.                             *)
ReachesItsParty ==
  \A c \in Client, r \in Request :
    /\ On(toClient[c], Msg("request", r)) => asks[r].to \in factories[c]
    /\ On(toClient[c], Msg("response", r)) => asks[r].by = c /\ asks[r].state = "waiting"

(* The worker that has request r, or its answer on the way to the host.    *)
HasRequest(c, r) ==
  \/ On(toClient[c], Msg("request", r))
  \/ \E k \in tasks : k.at = c /\ k.req = r
  \/ On(toHost[c], Msg("response", r))

(* While a worker is connected, the host keeps a future for every request  *)
(* it has sent there and has no answer to, so that the answer finds its    *)
(* asker; no two workers ever have the same request; and host, workers and *)
(* the messages between them keep their types.                             *)
AnswerIsAwaited ==
  /\ TypeOK
  /\ \A c \in Client, r \in Request : HasRequest(c, r) =>
       /\ c \in conn => [target |-> c, req |-> r, asker |-> asks[r].by] \in pending
       /\ \A d \in Client : HasRequest(d, r) => d = c

(* A type is taken from a connected worker by nobody.                      *)
TypesAreKept ==
  [][\A a \in Type : types[a] \in conn /\ types[a] \in conn' => types'[a] = types[a]]_vars

(* An event the host takes is sent to every connected worker that has a    *)
(* subscribed type.                                                        *)
EventReachesSubscribers ==
  [][\A c \in Client :
       /\ toHost[c] # <<>>
       /\ Head(toHost[c]).kind = "event"
       /\ toHost'[c] = Tail(toHost[c])
       /\ mode' = mode
       => \A d \in Recipients : Linked(d) =>
            toClient'[d] = Append(toClient[d], Head(toHost[c]))]_vars

(* A type is mapped to a connected client or to none.                      *)
MappedIsConnected == \A a \in Type : types[a] \in conn \cup {NoClient}

(* A call of send_message ends as long as its own worker goes on.          *)
RequestEnds ==
  \A r \in Request :
    asks[r].state = "waiting" ~> asks[r].state # "waiting" \/ ~Linked(asks[r].by)

(* stop() returns.                                                         *)
StopReturns == \A c \in Client : mode[c] = "stopping" ~> mode[c] = "stopped"
=============================================================================
