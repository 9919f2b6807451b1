-------------------------- MODULE WorkerHostProofs --------------------------
(***************************************************************************)
(* Proofs about the host and its workers: HostInv is inductive, and the    *)
(* properties of WorkerHost that the runs check follow from it, for any    *)
(* number of workers, types, requests and events.                          *)
(***************************************************************************)
EXTENDS WorkerHost, TLAPS

-----------------------------------------------------------------------------
(* The inductive invariant. A request is at one place at a time: on its    *)
(* way to the host, on its way to the worker of its type, with a handler,  *)
(* answered on the way to the host, or answered on the way to the asker.   *)

Asked(c, r) == On(toHost[c], Msg("request", r))

Given(c, r) == On(toClient[c], Msg("request", r))

Handled(c, r) == \E k \in tasks : k.at = c /\ k.req = r

Returned(c, r) == On(toHost[c], Msg("response", r))

Answered(c, r) == On(toClient[c], Msg("response", r))

Waiting(r) == asks[r] # Unsent /\ asks[r].state = "waiting"

(* Whoever holds request r or its answer, the asker still waits.           *)
Located ==
  \A c \in Client, r \in Request :
    /\ Asked(c, r) \/ Answered(c, r) => Waiting(r) /\ asks[r].by = c
    /\ HasRequest(c, r) => Waiting(r)

(* No two places hold the same request.                                    *)
OnePlace ==
  \A c, d \in Client, r \in Request :
    /\ HasRequest(c, r) /\ HasRequest(d, r) => c = d
    /\ Asked(c, r) => ~HasRequest(d, r) /\ ~Answered(d, r)
    /\ HasRequest(c, r) => ~Answered(d, r)

(* A worker that has a request has it in one form.                         *)
OneForm ==
  \A c \in Client, r \in Request :
    /\ ~(Given(c, r) /\ Handled(c, r))
    /\ ~(Given(c, r) /\ Returned(c, r))
    /\ ~(Handled(c, r) /\ Returned(c, r))

(* A stream has a request or an answer once.                               *)
Once(s) == \A i, j \in DOMAIN s : s[i] = s[j] /\ s[i].kind # "event" => i = j

Copies ==
  /\ \A c \in Client : Once(toHost[c]) /\ Once(toClient[c])
  /\ \A k, l \in tasks : k.req = l.req => k = l

(* The futures of the host, and for which requests there is one.           *)
Futures ==
  /\ \A p \in pending : asks[p.req] # Unsent /\ p.asker = asks[p.req].by
  /\ \A c \in conn, r \in Request :
       HasRequest(c, r) => [target |-> c, req |-> r, asker |-> asks[r].by] \in pending

(* A type is registered for a worker that has its factory.                 *)
Able ==
  /\ \A p \in registering : p.type \in factories[p.client]
  /\ \A a \in Type : types[a] # NoClient => a \in factories[types[a]]
  /\ \A c \in Client, r \in Request : Given(c, r) => asks[r].to \in factories[c]

(* A worker that has not started has and holds nothing.                    *)
NotStarted ==
  \A c \in Client : mode[c] = "new" =>
    /\ c \notin conn
    /\ toHost[c] = <<>> /\ toClient[c] = <<>>
    /\ \A k \in tasks : k.at # c

HostInv ==
  /\ TypeOK
  /\ Located
  /\ OnePlace
  /\ OneForm
  /\ Copies
  /\ Futures
  /\ Able
  /\ NotStarted

-----------------------------------------------------------------------------
(* Streams.                                                                *)

(* What is on a stream of messages is a message.                           *)
LEMMA MessageIs ==
  ASSUME NEW m \in Message
  PROVE  /\ m = Msg(m.kind, m.id)
         /\ m.kind \in {"request", "response"} => m.id \in Request
         /\ m.kind = "event" => m.id \in Event
         /\ m.kind \in {"request", "response", "event"}
BY DEF Message, Msg

(* Messages are made of their kind and their id.                           *)
LEMMA MsgIs ==
  ASSUME NEW k, NEW i, NEW l, NEW j
  PROVE  /\ Msg(k, i) = Msg(l, j) <=> k = l /\ i = j
         /\ Msg(k, i).kind = k /\ Msg(k, i).id = i
         /\ k \in {"request", "response"} /\ i \in Request => Msg(k, i) \in Message
         /\ k = "event" /\ i \in Event => Msg(k, i) \in Message
<1>1. Msg(k, i).kind = k /\ Msg(k, i).id = i /\ Msg(l, j).kind = l /\ Msg(l, j).id = j
  BY DEF Msg
<1>2. Msg(k, i) = Msg(l, j) <=> k = l /\ i = j
  BY <1>1 DEF Msg
<1>3. k \in {"request", "response"} /\ i \in Request => Msg(k, i) \in Message
  BY DEF Msg, Message
<1>4. k = "event" /\ i \in Event => Msg(k, i) \in Message
  BY DEF Msg, Message
<1> QED BY <1>1, <1>2, <1>3, <1>4

(* An added message is the only one that was not there.                    *)
LEMMA OnAppend ==
  ASSUME NEW s \in Seq(Message), NEW e \in Message
  PROVE  /\ Append(s, e) \in Seq(Message)
         /\ \A m : On(Append(s, e), m) <=> On(s, m) \/ m = e
         /\ Once(s) /\ (e.kind # "event" => ~On(s, e)) => Once(Append(s, e))
<1>1. /\ Append(s, e) \in Seq(Message) /\ Len(s) \in Nat
      /\ DOMAIN s = 1..Len(s) /\ DOMAIN Append(s, e) = 1..(Len(s) + 1)
      /\ \A i \in 1..Len(s) : Append(s, e)[i] = s[i]
      /\ Append(s, e)[Len(s) + 1] = e
  OBVIOUS
<1>2. \A i \in 1..(Len(s) + 1) : i \in 1..Len(s) \/ i = Len(s) + 1
  BY <1>1
<1>3. \A m : On(Append(s, e), m) <=> On(s, m) \/ m = e
  BY <1>1, <1>2 DEF On
<1>4. Once(s) /\ (e.kind # "event" => ~On(s, e)) => Once(Append(s, e))
  BY <1>1, <1>2 DEF On, Once
<1> QED BY <1>1, <1>3, <1>4

(* A message that is taken leaves the others.                              *)
LEMMA OnTail ==
  ASSUME NEW s \in Seq(Message), s # <<>>
  PROVE  /\ Tail(s) \in Seq(Message)
         /\ Head(s) \in Message /\ On(s, Head(s))
         /\ \A m : On(Tail(s), m) => On(s, m)
         /\ \A m : On(s, m) => On(Tail(s), m) \/ m = Head(s)
         /\ Once(s) => Once(Tail(s))
         /\ Once(s) /\ Head(s).kind # "event" => ~On(Tail(s), Head(s))
<1>1. /\ Len(s) \in Nat /\ Len(s) >= 1 /\ DOMAIN s = 1..Len(s)
      /\ Tail(s) \in Seq(Message) /\ DOMAIN Tail(s) = 1..(Len(s) - 1)
      /\ Head(s) = s[1] /\ s[1] \in Message
  OBVIOUS
<1>2. \A i \in 1..(Len(s) - 1) : Tail(s)[i] = s[i + 1] /\ i + 1 \in 1..Len(s)
  BY <1>1
<1>3. On(s, Head(s)) /\ \A m : On(Tail(s), m) => On(s, m)
  BY <1>1, <1>2 DEF On
<1>4. ASSUME NEW m, On(s, m)
      PROVE  On(Tail(s), m) \/ m = Head(s)
  <2>1. PICK i \in 1..Len(s) : s[i] = m
    BY <1>1, <1>4 DEF On
  <2>2. CASE i = 1
    BY <1>1, <2>1, <2>2
  <2>3. CASE i # 1
    <3>1. i - 1 \in 1..(Len(s) - 1) /\ (i - 1) + 1 = i
      BY <1>1, <2>1, <2>3
    <3> QED BY <1>1, <1>2, <2>1, <3>1 DEF On
  <2> QED BY <2>2, <2>3
<1>5. ASSUME Once(s)
      PROVE  Once(Tail(s)) /\ (Head(s).kind # "event" => ~On(Tail(s), Head(s)))
  <2>1. \A i, j \in 1..(Len(s) - 1) : Tail(s)[i] = Tail(s)[j] /\ Tail(s)[i].kind # "event"
          => i + 1 = j + 1
    BY <1>1, <1>2, <1>5 DEF Once
  <2>2. \A i \in 1..(Len(s) - 1) : Tail(s)[i] = s[1] /\ s[1].kind # "event" => i + 1 = 1
    BY <1>1, <1>2, <1>5 DEF Once
  <2> QED BY <1>1, <2>1, <2>2 DEF Once, On
<1> QED BY <1>1, <1>3, <1>4, <1>5

(* What is left of a stream that ended was on it.                          *)
LEMMA OnPrefix ==
  ASSUME NEW s \in Seq(Message), NEW t \in Prefixes(s)
  PROVE  /\ t \in Seq(Message)
         /\ \A m : On(t, m) => On(s, m)
         /\ Once(s) => Once(t)
<1>1. PICK n \in 0..Len(s) : t = SubSeq(s, 1, n)
  BY DEF Prefixes
<1>2. /\ t \in Seq(Message) /\ DOMAIN t = 1..n /\ DOMAIN s = 1..Len(s)
      /\ \A i \in 1..n : t[i] = s[i] /\ i \in 1..Len(s)
  BY <1>1
<1> QED BY <1>2 DEF On, Once

(* An empty stream.                                                        *)
LEMMA OnEmpty ==
  <<>> \in Seq(Message) /\ Once(<<>>) /\ \A m : ~On(<<>>, m)
BY DEF Once, On

-----------------------------------------------------------------------------
(* What the helpers do to the streams.                                     *)

LEMMA SendToHostIs ==
  ASSUME TypeOK, NEW c \in Client, NEW m \in Message, SendToHost(c, m)
  PROVE  /\ toHost' \in [Client -> Seq(Message)]
         /\ \A d \in Client : \A x : On(toHost'[d], x) => On(toHost[d], x) \/ (d = c /\ x = m)
         /\ \A d \in Client : mode[d] = "new" => toHost'[d] = toHost[d]
         /\ \A d \in Client :
              Once(toHost[d]) /\ (d = c /\ m.kind # "event" => ~On(toHost[d], m))
                => Once(toHost'[d])
<1>1. toHost \in [Client -> Seq(Message)] /\ toHost[c] \in Seq(Message)
  BY DEF TypeOK
<1>2. CASE ~Linked(c)
  BY <1>1, <1>2 DEF SendToHost
<1>3. CASE Linked(c)
  <2>1. toHost' = [toHost EXCEPT ![c] = Append(@, m)]
    BY <1>3 DEF SendToHost
  <2>2. /\ toHost'[c] = Append(toHost[c], m)
        /\ \A d \in Client \ {c} : toHost'[d] = toHost[d]
    BY <1>1, <2>1
  <2>3. mode[c] # "new"
    BY <1>3 DEF Linked
  <2> QED BY <1>1, <2>1, <2>2, <2>3, OnAppend
<1> QED BY <1>2, <1>3

LEMMA SendToClientsIs ==
  ASSUME TypeOK, NEW cs \in SUBSET Client, NEW m \in Message, SendToClients(cs, m)
  PROVE  /\ toClient' \in [Client -> Seq(Message)]
         /\ \A d \in Client : \A x : On(toClient'[d], x) => On(toClient[d], x) \/ (d \in cs /\ x = m)
         /\ \A d \in Client : mode[d] = "new" => toClient'[d] = toClient[d]
         /\ \A d \in Client :
              Once(toClient[d]) /\ (m.kind # "event" => ~On(toClient[d], m))
                => Once(toClient'[d])
<1>1. \A d \in Client : toClient[d] \in Seq(Message)
  BY DEF TypeOK
<1>2. \A d \in Client :
        toClient'[d] = IF d \in cs /\ Linked(d) THEN Append(toClient[d], m) ELSE toClient[d]
  BY DEF SendToClients
<1>3. \A d \in Client : Append(toClient[d], m) \in Seq(Message)
  BY <1>1, OnAppend
<1>4. toClient' \in [Client -> Seq(Message)]
  BY <1>1, <1>3 DEF SendToClients
<1>5. ASSUME NEW d \in Client
      PROVE  /\ \A x : On(toClient'[d], x) => On(toClient[d], x) \/ (d \in cs /\ x = m)
             /\ mode[d] = "new" => toClient'[d] = toClient[d]
             /\ Once(toClient[d]) /\ (m.kind # "event" => ~On(toClient[d], m))
                  => Once(toClient'[d])
  <2>1. CASE d \in cs /\ Linked(d)
    <3>1. toClient'[d] = Append(toClient[d], m) /\ mode[d] # "new"
      BY <1>2, <2>1 DEF Linked
    <3> QED BY <1>1, <2>1, <3>1, OnAppend
  <2>2. CASE ~(d \in cs /\ Linked(d))
    BY <1>2, <2>2
  <2> QED BY <2>1, <2>2
<1> QED BY <1>4, <1>5

LEMMA TakeIs ==
  ASSUME HostInv, NEW c \in Client, NEW kind \in {"request", "response", "event"},
         Take(c, kind)
  PROVE  LET h == Head(toHost[c]) IN
         /\ h \in Message /\ h = Msg(kind, h.id) /\ On(toHost[c], h)
         /\ toHost' \in [Client -> Seq(Message)]
         /\ \A d \in Client : \A x : On(toHost'[d], x) => On(toHost[d], x)
         /\ \A d \in Client : Once(toHost'[d])
         /\ \A d \in Client : mode[d] = "new" => toHost'[d] = toHost[d]
         /\ kind # "event" => ~On(toHost'[c], h)
<1>1. /\ toHost \in [Client -> Seq(Message)] /\ toHost[c] \in Seq(Message)
      /\ \A d \in Client : Once(toHost[d])
      /\ mode[c] = "new" => toHost[c] = <<>>
  BY DEF HostInv, TypeOK, Copies, NotStarted
<1>2. /\ toHost[c] # <<>> /\ Head(toHost[c]).kind = kind
      /\ toHost' = [toHost EXCEPT ![c] = Tail(toHost[c])]
  BY DEF Take
<1>3. /\ toHost'[c] = Tail(toHost[c])
      /\ \A d \in Client \ {c} : toHost'[d] = toHost[d]
  BY <1>1, <1>2
<1> QED BY <1>1, <1>2, <1>3, OnTail, MessageIs

-----------------------------------------------------------------------------
(* The places of a request.                                                *)

LEMMA HasRequestIs ==
  ASSUME NEW c, NEW r
  PROVE  HasRequest(c, r) <=> Given(c, r) \/ Handled(c, r) \/ Returned(c, r)
BY DEF HasRequest, Given, Handled, Returned

LEMMA HasRequestIsPrimed ==
  ASSUME NEW c, NEW r
  PROVE  HasRequest(c, r)' <=> Given(c, r)' \/ Handled(c, r)' \/ Returned(c, r)'
BY DEF HasRequest, Given, Handled, Returned

(* A step after which requests and answers are at places where they were.  *)
Unmoved ==
  \A c \in Client, r \in Request :
    /\ Asked(c, r)' => Asked(c, r)
    /\ Given(c, r)' => Given(c, r)
    /\ Handled(c, r)' => Handled(c, r)
    /\ Returned(c, r)' => Returned(c, r)
    /\ Answered(c, r)' => Answered(c, r)

(* A step after which the holders of requests are those of before.         *)
SameHolders ==
  \A c \in Client, r \in Request :
    /\ Asked(c, r)' => Asked(c, r)
    /\ HasRequest(c, r)' => HasRequest(c, r)
    /\ Answered(c, r)' => Answered(c, r)

LEMMA SameHoldersKeep ==
  ASSUME HostInv, SameHolders, asks' = asks
  PROVE  Located' /\ OnePlace'
BY DEF HostInv, Located, OnePlace, SameHolders, Waiting

LEMMA UnmovedKeeps ==
  ASSUME HostInv, Unmoved, asks' = asks
  PROVE  SameHolders /\ Located' /\ OnePlace' /\ OneForm'
<1>1. SameHolders
  BY HasRequestIs, HasRequestIsPrimed DEF Unmoved, SameHolders
<1>2. OneForm'
  BY DEF HostInv, OneForm, Unmoved
<1> QED BY <1>1, <1>2, SameHoldersKeep

(* It keeps the futures of the clients that stay connected.                *)
LEMMA FuturesKept ==
  ASSUME HostInv, SameHolders, asks' = asks, pending' \subseteq pending,
         \A c \in conn', r \in Request : HasRequest(c, r)' =>
           c \in conn /\ \A p \in pending : p.target = c /\ p.req = r => p \in pending'
  PROVE  Futures'
<1>1. \A c \in conn', r \in Request : HasRequest(c, r)' => HasRequest(c, r)
  BY DEF HostInv, TypeOK, SameHolders
<1>2. \A c \in conn', r \in Request : HasRequest(c, r)' =>
        [target |-> c, req |-> r, asker |-> asks'[r].by] \in pending'
  BY <1>1 DEF HostInv, Futures
<1> QED BY <1>2 DEF HostInv, Futures

-----------------------------------------------------------------------------
(* The steps that leave every request where it is.                         *)

(* Both streams as they are, and no new handler: nothing moves.            *)
LEMMA StreamsStay ==
  ASSUME toHost' = toHost, toClient' = toClient, tasks' \subseteq tasks
  PROVE  Unmoved
BY DEF Unmoved, Asked, Given, Handled, Returned, Answered

LEMMA StartKeeps ==
  ASSUME HostInv, NEW c \in Client, Start(c)
  PROVE  HostInv'
<1>1. /\ mode[c] = "new" /\ mode' = [mode EXCEPT ![c] = "up"]
      /\ reading' = [reading EXCEPT ![c] = TRUE] /\ conn' = conn \cup {c}
      /\ UNCHANGED <<factories, asks, tasks, registering, toHost, toClient,
                     types, pending, subs, quiet>>
  BY DEF Start
<1>2. TypeOK'
  BY <1>1 DEF HostInv, TypeOK
<1>3. Unmoved
  BY <1>1, StreamsStay
<1>4. SameHolders /\ Located' /\ OnePlace' /\ OneForm'
  BY <1>1, <1>3, UnmovedKeeps
<1>5. Copies' /\ Able'
  BY <1>1 DEF HostInv, Copies, Able, Given
<1>6. Futures'
  <2>1. \A r \in Request : ~HasRequest(c, r)
    BY <1>1, OnEmpty DEF HostInv, NotStarted, HasRequest
  <2>2. \A d \in Client, r \in Request : HasRequest(d, r)' => HasRequest(d, r)
    BY <1>3, HasRequestIs, HasRequestIsPrimed DEF Unmoved
  <2>3. \A d \in conn', r \in Request : HasRequest(d, r)' => d \in conn
    BY <1>1, <2>1, <2>2 DEF HostInv, TypeOK
  <2> QED BY <1>1, <1>4, <2>3, FuturesKept
<1>7. NotStarted'
  BY <1>1 DEF HostInv, TypeOK, NotStarted
<1> QED BY <1>2, <1>4, <1>5, <1>6, <1>7 DEF HostInv

(* Factories, registrations and subscriptions. A factory is never dropped, *)
(* and one is kept before its type is registered.                          *)
LEMMA RegistrationKeeps ==
  ASSUME HostInv,
         \/ \E c \in Client, a \in Type : RegisterFactory(c, a) \/ AddSubscription(c, a)
         \/ \E p \in registering : RegisterAgent(p)
         \/ \E s \in subs : RemoveSubscription(s)
  PROVE  HostInv'
<1>1. /\ UNCHANGED <<mode, reading, asks, tasks, toHost, toClient, conn, pending, quiet>>
      /\ \A d \in Client : factories[d] \subseteq factories'[d]
      /\ TypeOK'
  <2>1. ASSUME NEW c \in Client, NEW a \in Type, RegisterFactory(c, a)
        PROVE  <1>1!1 /\ <1>1!2 /\ <1>1!3
    BY <2>1 DEF RegisterFactory, HostInv, TypeOK, hostVars
  <2>2. ASSUME NEW c \in Client, NEW a \in Type, AddSubscription(c, a)
        PROVE  <1>1!1 /\ <1>1!2 /\ <1>1!3
    BY <2>2 DEF AddSubscription, HostInv, TypeOK, workerVars
  <2>3. ASSUME NEW p \in registering, RegisterAgent(p)
        PROVE  <1>1!1 /\ <1>1!2 /\ <1>1!3
    BY <2>3 DEF RegisterAgent, HostInv, TypeOK, workerVars
  <2>4. ASSUME NEW s \in subs, RemoveSubscription(s)
        PROVE  <1>1!1 /\ <1>1!2 /\ <1>1!3
    BY <2>4 DEF RemoveSubscription, HostInv, TypeOK, workerVars
  <2> QED BY <2>1, <2>2, <2>3, <2>4
<1>2. Unmoved
  BY <1>1, StreamsStay
<1>3. SameHolders /\ Located' /\ OnePlace' /\ OneForm'
  BY <1>1, <1>2, UnmovedKeeps
<1>4. Copies' /\ NotStarted'
  BY <1>1 DEF HostInv, Copies, NotStarted
<1>5. Futures'
  <2>1. \A d \in conn', r \in Request : HasRequest(d, r)' => d \in conn
    BY <1>1
  <2> QED BY <1>1, <1>3, <2>1, FuturesKept
<1>6. \A p \in registering' : p.type \in factories'[p.client]
  <2>1. ASSUME NEW c \in Client, NEW a \in Type, RegisterFactory(c, a)
        PROVE  \A p \in registering' : p.type \in factories'[p.client]
    <3>1. /\ registering' = registering \cup {[client |-> c, type |-> a]}
          /\ factories' = [factories EXCEPT ![c] = @ \cup {a}]
      BY <2>1 DEF RegisterFactory
    <3>2. \A p \in registering : p.client \in Client /\ p.type \in factories[p.client]
      BY DEF HostInv, TypeOK, Able
    <3> QED BY <1>1, <3>1, <3>2 DEF HostInv, TypeOK
  <2>2. ASSUME ~ \E c \in Client, a \in Type : RegisterFactory(c, a)
        PROVE  registering' \subseteq registering /\ factories' = factories
    BY <2>2 DEF AddSubscription, RegisterAgent, RemoveSubscription, workerVars
  <2> QED BY <2>1, <2>2 DEF HostInv, Able
<1>7. \A a \in Type : types'[a] # NoClient => a \in factories'[types'[a]]
  <2>1. ASSUME NEW p \in registering, RegisterAgent(p)
        PROVE  <1>7
    <3>1. types' = [types EXCEPT ![p.type] = IF @ = NoClient THEN p.client ELSE @]
          /\ factories' = factories
      BY <2>1 DEF RegisterAgent, workerVars
    <3>2. p.type \in factories[p.client]
      BY DEF HostInv, Able
    <3> QED BY <3>1, <3>2 DEF HostInv, TypeOK, Able
  <2>2. ASSUME ~ \E p \in registering : RegisterAgent(p)
        PROVE  types' = types
    BY <2>2 DEF RegisterFactory, AddSubscription, RemoveSubscription, hostVars
  <2>3. \A a \in Type : types[a] # NoClient => types[a] \in Client /\ a \in factories[types[a]]
    BY DEF HostInv, TypeOK, Able
  <2> QED BY <1>1, <2>1, <2>2, <2>3
<1>8. Able'
  BY <1>1, <1>2, <1>6, <1>7 DEF HostInv, Able, Unmoved
<1> QED BY <1>1, <1>3, <1>4, <1>5, <1>8 DEF HostInv

(* A step that leaves the host as it is, and moves nothing.                *)
LEMMA HostStays ==
  ASSUME HostInv, TypeOK', Unmoved, Copies',
         UNCHANGED <<hostVars, factories, asks, registering>>,
         \A c \in Client : mode'[c] = "new" =>
           /\ mode[c] = "new"
           /\ toHost'[c] = toHost[c] /\ toClient'[c] = toClient[c]
           /\ \A k \in tasks' : k.at = c => k \in tasks
  PROVE  HostInv'
<1>1. SameHolders /\ Located' /\ OnePlace' /\ OneForm'
  BY UnmovedKeeps
<1>2. Futures'
  <2>1. \A c \in conn', r \in Request : HasRequest(c, r)' => c \in conn
    BY DEF hostVars
  <2> QED BY <1>1, <2>1, FuturesKept DEF hostVars
<1>3. Able'
  BY DEF HostInv, Able, Unmoved, hostVars
<1>4. NotStarted'
  BY DEF HostInv, NotStarted, hostVars
<1> QED BY <1>1, <1>2, <1>3, <1>4 DEF HostInv

LEMMA PublishMessageKeeps ==
  ASSUME HostInv, NEW c \in Client, NEW e \in Event, PublishMessage(c, e)
  PROVE  HostInv'
<1>1. /\ SendToHost(c, Msg("event", e)) /\ quiet' = quiet \ {e}
      /\ UNCHANGED <<workerVars, registering, toClient, hostVars>>
      /\ TypeOK /\ Msg("event", e) \in Message /\ Msg("event", e).kind = "event"
  BY MsgIs DEF PublishMessage, HostInv
<1>2. /\ toHost' \in [Client -> Seq(Message)]
      /\ \A d \in Client : \A x : On(toHost'[d], x) => On(toHost[d], x) \/ x = Msg("event", e)
      /\ \A d \in Client : mode[d] = "new" => toHost'[d] = toHost[d]
      /\ \A d \in Client : Once(toHost[d]) => Once(toHost'[d])
  BY <1>1, SendToHostIs
<1>3. TypeOK'
  BY <1>1, <1>2 DEF TypeOK, workerVars, hostVars
<1>4. Unmoved
  BY <1>1, <1>2, MsgIs DEF Unmoved, Asked, Given, Handled, Returned, Answered, workerVars
<1>5. Copies'
  BY <1>1, <1>2 DEF HostInv, Copies, workerVars
<1> QED BY <1>1, <1>2, <1>3, <1>4, <1>5, HostStays DEF workerVars

LEMMA ProcessEventKeeps ==
  ASSUME HostInv, NEW c \in Client, ProcessEvent(c)
  PROVE  HostInv'
<1>0. PICK h : h = Head(toHost[c])
  OBVIOUS
<1>1. Take(c, "event") /\ UNCHANGED <<workerVars, registering, hostVars, quiet>> /\ TypeOK
  BY DEF ProcessEvent, HostInv
<1>2. PICK reached \in SUBSET Client : SendToClients(reached, h)
  BY <1>0 DEF ProcessEvent, HostInv, TypeOK
<1>3. /\ h \in Message /\ h = Msg("event", h.id)
      /\ toHost' \in [Client -> Seq(Message)]
      /\ \A d \in Client : \A x : On(toHost'[d], x) => On(toHost[d], x)
      /\ \A d \in Client : Once(toHost'[d])
      /\ \A d \in Client : mode[d] = "new" => toHost'[d] = toHost[d]
  BY <1>0, <1>1, TakeIs
<1>4. h.kind = "event"
  BY <1>3, MsgIs
<1>5. /\ toClient' \in [Client -> Seq(Message)]
      /\ \A d \in Client : \A x : On(toClient'[d], x) => On(toClient[d], x) \/ x = h
      /\ \A d \in Client : mode[d] = "new" => toClient'[d] = toClient[d]
      /\ \A d \in Client : Once(toClient[d]) => Once(toClient'[d])
  <2>1. toClient' \in [Client -> Seq(Message)]
    BY <1>1, <1>2, <1>3, SendToClientsIs
  <2>2. \A d \in Client : \A x : On(toClient'[d], x) => On(toClient[d], x) \/ x = h
    <3>1. TypeOK /\ h \in Message
      BY <1>1, <1>3
    <3> QED BY <1>2, <3>1, SendToClientsIs, Zenon
  <2>3. \A d \in Client : mode[d] = "new" => toClient'[d] = toClient[d]
    BY <1>1, <1>2, <1>3, SendToClientsIs
  <2>4. \A d \in Client : Once(toClient[d]) => Once(toClient'[d])
    BY <1>1, <1>2, <1>3, <1>4, SendToClientsIs
  <2> QED BY <2>1, <2>2, <2>3, <2>4
<1>6. TypeOK'
  BY <1>1, <1>3, <1>5 DEF TypeOK, workerVars, hostVars
<1>7. Unmoved
  BY <1>1, <1>3, <1>5, MsgIs DEF Unmoved, Asked, Given, Handled, Returned, Answered, workerVars
<1>8. Copies'
  BY <1>1, <1>3, <1>5 DEF HostInv, Copies, workerVars
<1> QED BY <1>1, <1>3, <1>5, <1>6, <1>7, <1>8, HostStays DEF workerVars

LEMMA HandlerFailsKeeps ==
  ASSUME HostInv, NEW k \in tasks, HandlerFails(k)
  PROVE  HostInv'
<1>1. /\ tasks' = tasks \ {k}
      /\ UNCHANGED <<mode, reading, factories, asks, registering, toHost, toClient,
                     hostVars, quiet>>
  BY DEF HandlerFails
<1>2. TypeOK' /\ Copies'
  BY <1>1 DEF HostInv, TypeOK, Copies, hostVars
<1>3. Unmoved
  BY <1>1, StreamsStay
<1> QED BY <1>1, <1>2, <1>3, HostStays

LEMMA StopKeeps ==
  ASSUME HostInv, NEW c \in Client, Stop(c)
  PROVE  HostInv'
<1>1. /\ mode[c] = "up" /\ mode' = [mode EXCEPT ![c] = "stopping"]
      /\ UNCHANGED <<reading, factories, asks, tasks, registering, toHost, toClient,
                     hostVars, quiet>>
  BY DEF Stop
<1>2. TypeOK' /\ Copies'
  BY <1>1 DEF HostInv, TypeOK, Copies, hostVars
<1>3. Unmoved
  BY <1>1, StreamsStay
<1>4. \A d \in Client : mode'[d] = "new" => mode[d] = "new"
  BY <1>1 DEF HostInv, TypeOK
<1> QED BY <1>1, <1>2, <1>3, <1>4, HostStays

(* A stream or a process ends: what was on the streams is on them or lost. *)
LEMMA EndKeeps ==
  ASSUME HostInv, NEW c \in Client, NEW m \in {"deaf", "stopped"},
         NEW s \in Prefixes(toHost[c]), NEW t \in Prefixes(toClient[c]) \cup {<<>>},
         mode' = [mode EXCEPT ![c] = m],
         toHost' = [toHost EXCEPT ![c] = s], toClient' = [toClient EXCEPT ![c] = t],
         reading' \in [Client -> BOOLEAN], tasks' \subseteq tasks,
         UNCHANGED <<factories, asks, registering, hostVars, quiet>>
  PROVE  HostInv'
<1>1. /\ toHost[c] \in Seq(Message) /\ toClient[c] \in Seq(Message)
      /\ Once(toHost[c]) /\ Once(toClient[c])
  BY DEF HostInv, TypeOK, Copies
<1>2. /\ s \in Seq(Message) /\ Once(s) /\ \A x : On(s, x) => On(toHost[c], x)
      /\ t \in Seq(Message) /\ Once(t) /\ \A x : On(t, x) => On(toClient[c], x)
  BY <1>1, OnPrefix, OnEmpty
<1>3. /\ \A d \in Client \ {c} : toHost'[d] = toHost[d] /\ toClient'[d] = toClient[d]
      /\ toHost'[c] = s /\ toClient'[c] = t
  BY DEF HostInv, TypeOK
<1>4. TypeOK'
  BY <1>2 DEF HostInv, TypeOK, hostVars
<1>5. Unmoved
  BY <1>2, <1>3 DEF Unmoved, Asked, Given, Handled, Returned, Answered
<1>6. Copies'
  BY <1>2, <1>3 DEF HostInv, Copies
<1>7. \A d \in Client : mode'[d] = "new" => mode[d] = "new" /\ d # c
  BY DEF HostInv, TypeOK
<1> QED BY <1>3, <1>4, <1>5, <1>6, <1>7, HostStays

LEMMA EndsKeep ==
  ASSUME HostInv, NEW c \in Client, StopCloses(c) \/ Crash(c) \/ StreamBreaks(c)
  PROVE  HostInv'
<1>1. toHost \in [Client -> Seq(Message)] /\ toClient \in [Client -> Seq(Message)]
      /\ reading \in [Client -> BOOLEAN]
  BY DEF HostInv, TypeOK
<1>2. CASE StopCloses(c)
  <2>1. Gone(c) /\ toHost' = toHost
    BY <1>2 DEF StopCloses
  <2>2. toHost[c] = SubSeq(toHost[c], 1, Len(toHost[c])) /\ Len(toHost[c]) \in 0..Len(toHost[c])
    BY <1>1
  <2>3. toHost[c] \in Prefixes(toHost[c])
    BY <2>2 DEF Prefixes
  <2>4. toHost' = [toHost EXCEPT ![c] = toHost[c]]
    BY <1>1, <2>1
  <2> QED BY <1>1, <2>1, <2>3, <2>4, EndKeeps DEF Gone
<1>3. CASE Crash(c)
  BY <1>1, <1>3, EndKeeps DEF Crash, Gone
<1>4. CASE StreamBreaks(c)
  BY <1>1, <1>4, EndKeeps DEF StreamBreaks
<1> QED BY <1>2, <1>3, <1>4

(* The futures, types and subscriptions of a client go with it.            *)
LEMMA DisconnectKeeps ==
  ASSUME HostInv, NEW c \in Client, Disconnect(c)
  PROVE  HostInv'
<1>1. /\ c \in conn /\ conn' = conn \ {c}
      /\ pending' = {p \in pending : p.target # c}
      /\ types' = [a \in Type |-> IF types[a] = c THEN NoClient ELSE types[a]]
      /\ subs' = {s \in subs : s.client # c}
      /\ UNCHANGED <<workerVars, registering, toHost, toClient, quiet>>
  BY DEF Disconnect
<1>2. TypeOK'
  BY <1>1 DEF HostInv, TypeOK, workerVars
<1>3. Unmoved
  BY <1>1, StreamsStay DEF workerVars
<1>4. SameHolders /\ Located' /\ OnePlace' /\ OneForm'
  BY <1>1, <1>3, UnmovedKeeps DEF workerVars
<1>5. Futures'
  <2>1. \A d \in conn', r \in Request : HasRequest(d, r)' =>
          d \in conn /\ \A p \in pending : p.target = d => p \in pending'
    BY <1>1
  <2> QED BY <1>1, <1>4, <2>1, FuturesKept DEF workerVars
<1>6. Copies' /\ Able' /\ NotStarted'
  BY <1>1 DEF HostInv, Copies, Able, NotStarted, Given, workerVars
<1> QED BY <1>2, <1>4, <1>5, <1>6 DEF HostInv

-----------------------------------------------------------------------------
(* The steps that move a request.                                          *)

(* Nobody has a request that has not been sent.                            *)
LEMMA UnsentIsNowhere ==
  ASSUME HostInv, NEW r \in Request, asks[r] = Unsent
  PROVE  /\ \A c \in Client : /\ ~Asked(c, r) /\ ~Given(c, r) /\ ~Handled(c, r)
                              /\ ~Returned(c, r) /\ ~Answered(c, r)
         /\ \A p \in pending : p.req # r
BY HasRequestIs DEF HostInv, Located, Waiting, Futures

(* send_message, from the worker's own code or from a handler.             *)
LEMMA AskKeeps ==
  ASSUME HostInv, NEW c \in Client, NEW r \in Request, NEW a \in Type, Ask(c, r, a),
         tasks' \subseteq [at : Client, req : Request, on : Request \cup {NoRequest},
                           early : BOOLEAN],
         \A k \in tasks' : \E l \in tasks : k.at = l.at /\ k.req = l.req,
         \A k, l \in tasks' : k.req = l.req => k = l,
         UNCHANGED <<mode, reading, factories, registering, toClient, hostVars, quiet>>
  PROVE  HostInv'
<1> DEFINE new == [state |-> "waiting", by |-> c, to |-> a]
<1>1. /\ asks[r] = Unsent /\ asks' = [asks EXCEPT ![r] = new]
      /\ SendToHost(c, Msg("request", r)) /\ TypeOK
      /\ Msg("request", r) \in Message /\ Msg("request", r).kind = "request"
  BY MsgIs DEF Ask, HostInv
<1>2. new # Unsent /\ new.state = "waiting" /\ new.by = c
  <2>1. DOMAIN new # DOMAIN Unsent
    <3>1. "by" \in DOMAIN new /\ "by" \notin DOMAIN Unsent
      BY DEF Unsent
    <3> QED BY <3>1
  <2> QED BY <2>1
<1>3. new \in [state : {"waiting", "ended"}, by : Client, to : Type]
  OBVIOUS
<1> HIDE DEF new
<1>4. asks'[r] = new /\ \A q \in Request \ {r} : asks'[q] = asks[q]
  BY <1>1 DEF TypeOK
<1>5. /\ toHost' \in [Client -> Seq(Message)]
      /\ \A d \in Client : \A x : On(toHost'[d], x) =>
           On(toHost[d], x) \/ (d = c /\ x = Msg("request", r))
      /\ \A d \in Client : mode[d] = "new" => toHost'[d] = toHost[d]
      /\ \A d \in Client : Once(toHost[d]) /\ (d = c => ~On(toHost[d], Msg("request", r)))
           => Once(toHost'[d])
  BY <1>1, SendToHostIs
<1>6. TypeOK'
  BY <1>1, <1>3, <1>5 DEF TypeOK, hostVars
<1>7. \A d \in Client, q \in Request :
        /\ Asked(d, q)' => Asked(d, q) \/ (d = c /\ q = r)
        /\ Given(d, q)' => Given(d, q)
        /\ Handled(d, q)' => Handled(d, q)
        /\ Returned(d, q)' => Returned(d, q)
        /\ Answered(d, q)' => Answered(d, q)
  BY <1>5, MsgIs DEF Asked, Given, Handled, Returned, Answered
<1>8. /\ \A d \in Client : /\ ~Asked(d, r) /\ ~Given(d, r) /\ ~Handled(d, r)
                           /\ ~Returned(d, r) /\ ~Answered(d, r)
      /\ \A p \in pending : p.req # r
  BY <1>1, UnsentIsNowhere
<1>9. \A d \in Client, q \in Request : HasRequest(d, q)' => HasRequest(d, q) /\ q # r
  BY <1>7, <1>8, HasRequestIs, HasRequestIsPrimed
<1>10. Located'
  BY <1>2, <1>4, <1>7, <1>8, <1>9 DEF HostInv, Located, Waiting
<1>11. OnePlace'
  BY <1>7, <1>8, <1>9 DEF HostInv, OnePlace
<1>16. OneForm'
  BY <1>7 DEF HostInv, OneForm
<1>12. Copies'
  BY <1>5, <1>8 DEF HostInv, Copies, Asked
<1>13. Futures'
  <2>1. \A p \in pending : p.req \in Request \ {r}
    BY <1>8 DEF HostInv, TypeOK
  <2>2. \A d \in conn, q \in Request : HasRequest(d, q)' =>
          [target |-> d, req |-> q, asker |-> asks'[q].by] \in pending
    BY <1>4, <1>9 DEF HostInv, Futures, TypeOK
  <2> QED BY <1>4, <2>1, <2>2 DEF HostInv, Futures, hostVars
<1>14. Able'
  BY <1>4, <1>7, <1>8 DEF HostInv, Able, hostVars
<1>15. NotStarted'
  BY <1>5 DEF HostInv, NotStarted, hostVars
<1> QED BY <1>6, <1>10, <1>11, <1>12, <1>13, <1>14, <1>15, <1>16 DEF HostInv

LEMMA SendMessageKeeps ==
  ASSUME HostInv, NEW c \in Client, NEW r \in Request, NEW a \in Type, SendMessage(c, r, a)
  PROVE  HostInv'
BY AskKeeps DEF SendMessage, HostInv, TypeOK, Copies

LEMMA HandlerAsksKeeps ==
  ASSUME HostInv, NEW k \in tasks, NEW r \in Request, NEW a \in Type, HandlerAsks(k, r, a)
  PROVE  HostInv'
<1> DEFINE new == [k EXCEPT !.on = r]
<1>1. /\ Ask(k.at, r, a) /\ tasks' = (tasks \ {k}) \cup {new}
      /\ UNCHANGED <<mode, reading, factories, registering, toClient, hostVars, quiet>>
  BY DEF HandlerAsks
<1>2. /\ k.at \in Client /\ new.at = k.at /\ new.req = k.req
      /\ new \in [at : Client, req : Request, on : Request \cup {NoRequest}, early : BOOLEAN]
  BY DEF HostInv, TypeOK
<1> HIDE DEF new
<1>3. tasks' \subseteq [at : Client, req : Request, on : Request \cup {NoRequest},
                        early : BOOLEAN]
  BY <1>1, <1>2 DEF HostInv, TypeOK
<1>4. \A x \in tasks' : \E y \in tasks : x.at = y.at /\ x.req = y.req
  BY <1>1, <1>2
<1>5. \A x, y \in tasks' : x.req = y.req => x = y
  BY <1>1, <1>2 DEF HostInv, Copies
<1> QED BY <1>1, <1>2, <1>3, <1>4, <1>5, AskKeeps

(* A handler ends: its worker has the answer, on the way to the host.      *)
LEMMA HandlerReturnsKeeps ==
  ASSUME HostInv, NEW k \in tasks, HandlerReturns(k)
  PROVE  HostInv'
<1>1. PICK c \in Client, r \in Request : k.at = c /\ k.req = r
  BY DEF HostInv, TypeOK
<1>2. /\ tasks' = tasks \ {k} /\ SendToHost(c, Msg("response", r)) /\ TypeOK
      /\ UNCHANGED <<mode, reading, factories, asks, registering, toClient, hostVars, quiet>>
      /\ Msg("response", r) \in Message
  BY <1>1, MsgIs DEF HandlerReturns, HostInv
<1>3. Handled(c, r) /\ ~Given(c, r) /\ ~Returned(c, r)
  <2>1. Handled(c, r)
    BY <1>1 DEF Handled
  <2> QED BY <2>1 DEF HostInv, OneForm
<1>4. /\ toHost' \in [Client -> Seq(Message)]
      /\ \A d \in Client : \A x : On(toHost'[d], x) =>
           On(toHost[d], x) \/ (d = c /\ x = Msg("response", r))
      /\ \A d \in Client : mode[d] = "new" => toHost'[d] = toHost[d]
      /\ \A d \in Client : Once(toHost[d]) /\ (d = c => ~On(toHost[d], Msg("response", r)))
           => Once(toHost'[d])
  BY <1>2, SendToHostIs
<1>5. TypeOK'
  BY <1>2, <1>4 DEF TypeOK, hostVars
<1>6. \A d \in Client, q \in Request :
        /\ Asked(d, q)' => Asked(d, q)
        /\ Given(d, q)' => Given(d, q)
        /\ Handled(d, q)' => Handled(d, q) /\ q # r
        /\ Returned(d, q)' => Returned(d, q) \/ (d = c /\ q = r)
        /\ Answered(d, q)' => Answered(d, q)
  <2>1. \A d \in Client, q \in Request : Handled(d, q)' => Handled(d, q) /\ q # r
    BY <1>1, <1>2 DEF HostInv, Copies, Handled
  <2> QED BY <1>2, <1>4, <2>1, MsgIs DEF Asked, Given, Returned, Answered
<1>7. SameHolders
  BY <1>3, <1>6, HasRequestIs, HasRequestIsPrimed DEF SameHolders
<1>8. Located' /\ OnePlace'
  BY <1>2, <1>7, SameHoldersKeep
<1>9. OneForm'
  <2>1. \A d \in Client : ~(Given(d, r) /\ d # c)
    BY <1>3, HasRequestIs DEF HostInv, OnePlace
  <2> QED BY <1>3, <1>6, <2>1 DEF HostInv, OneForm
<1>10. Copies'
  BY <1>2, <1>3, <1>4 DEF HostInv, Copies, Returned
<1>11. Futures'
  BY <1>2, <1>7, FuturesKept DEF hostVars
<1>12. Able' /\ NotStarted'
  BY <1>2, <1>4, <1>6 DEF HostInv, Able, NotStarted, hostVars
<1> QED BY <1>5, <1>8, <1>9, <1>10, <1>11, <1>12 DEF HostInv

(* What a worker reads leaves its stream.                                  *)
LEMMA ReadIs ==
  ASSUME HostInv, NEW c \in Client, ReadLoop(c), NEW h, h = Head(toClient[c])
  PROVE  /\ h \in Message /\ On(toClient[c], h)
         /\ toClient' \in [Client -> Seq(Message)]
         /\ \A d \in Client : \A x : On(toClient'[d], x) => On(toClient[d], x)
         /\ \A d \in Client : Once(toClient'[d])
         /\ \A d \in Client : mode[d] = "new" => toClient'[d] = toClient[d] /\ d # c
         /\ h.kind # "event" => ~On(toClient'[c], h)
<1>1. /\ toClient \in [Client -> Seq(Message)] /\ toClient[c] \in Seq(Message)
      /\ \A d \in Client : Once(toClient[d])
      /\ mode[c] = "new" => toClient[c] = <<>>
  BY DEF HostInv, TypeOK, Copies, NotStarted
<1>2. toClient[c] # <<>> /\ toClient' = [toClient EXCEPT ![c] = Tail(toClient[c])]
  BY DEF ReadLoop
<1>3. /\ toClient'[c] = Tail(toClient[c])
      /\ \A d \in Client \ {c} : toClient'[d] = toClient[d]
  BY <1>1, <1>2
<1>4. /\ h \in Message /\ On(toClient[c], h)
      /\ Tail(toClient[c]) \in Seq(Message)
      /\ \A x : On(Tail(toClient[c]), x) => On(toClient[c], x)
      /\ Once(Tail(toClient[c]))
      /\ h.kind # "event" => ~On(Tail(toClient[c]), h)
  BY <1>1, <1>2, OnTail
<1>5. toClient' \in [Client -> Seq(Message)]
  BY <1>1, <1>2, <1>4
<1>6. ASSUME NEW d \in Client
      PROVE  /\ \A x : On(toClient'[d], x) => On(toClient[d], x)
             /\ Once(toClient'[d])
             /\ mode[d] = "new" => toClient'[d] = toClient[d] /\ d # c
  <2>1. CASE d = c
    BY <1>1, <1>2, <1>3, <1>4, <2>1
  <2>2. CASE d # c
    BY <1>1, <1>3, <2>2
  <2> QED BY <2>1, <2>2
<1> QED BY <1>3, <1>4, <1>5, <1>6

(* A request that is read is handled.                                      *)
LEMMA ReadRequestKeeps ==
  ASSUME HostInv, NEW c \in Client, ReadLoop(c), NEW r \in Request,
         Head(toClient[c]) = Msg("request", r)
  PROVE  HostInv'
<1> DEFINE new == [at |-> c, req |-> r, on |-> NoRequest, early |-> mode[c] # "stopping"]
<1>1. /\ tasks' = tasks \cup {new} /\ reading' \in [Client -> BOOLEAN]
      /\ UNCHANGED <<mode, factories, asks, registering, toHost, hostVars, quiet>>
  BY MsgIs DEF ReadLoop, HostInv, TypeOK
<1>2. /\ new.at = c /\ new.req = r
      /\ new \in [at : Client, req : Request, on : Request \cup {NoRequest}, early : BOOLEAN]
  OBVIOUS
<1> HIDE DEF new
<1>3. /\ Given(c, r) /\ ~On(toClient'[c], Msg("request", r))
      /\ toClient' \in [Client -> Seq(Message)]
      /\ \A d \in Client : \A x : On(toClient'[d], x) => On(toClient[d], x)
      /\ \A d \in Client : Once(toClient'[d])
      /\ \A d \in Client : mode[d] = "new" => toClient'[d] = toClient[d] /\ d # c
  <2>1. PICK h : h = Msg("request", r)
    OBVIOUS
  <2>2. h.kind # "event" /\ h = Head(toClient[c])
    BY <2>1, MsgIs
  <2> QED BY <2>1, <2>2, ReadIs DEF Given
<1>4. ~Handled(c, r) /\ ~Returned(c, r) /\ \A d \in Client \ {c} : ~HasRequest(d, r)
  BY <1>3, HasRequestIs DEF HostInv, OneForm, OnePlace
<1>5. TypeOK'
  BY <1>1, <1>2, <1>3 DEF HostInv, TypeOK, hostVars
<1>6. \A d \in Client, q \in Request :
        /\ Asked(d, q)' => Asked(d, q)
        /\ Given(d, q)' => Given(d, q) /\ (d # c \/ q # r)
        /\ Handled(d, q)' => Handled(d, q) \/ (d = c /\ q = r)
        /\ Returned(d, q)' => Returned(d, q)
        /\ Answered(d, q)' => Answered(d, q)
  BY <1>1, <1>2, <1>3 DEF Asked, Given, Handled, Returned, Answered
<1>7. SameHolders
  BY <1>3, <1>6, HasRequestIs, HasRequestIsPrimed DEF SameHolders
<1>8. Located' /\ OnePlace'
  BY <1>1, <1>7, SameHoldersKeep
<1>9. OneForm'
  BY <1>4, <1>6 DEF HostInv, OneForm
<1>10. Copies'
  <2>1. \A k \in tasks : k.req # r
    <3>1. \A k \in tasks : k.req = r => k.at \in Client /\ Handled(k.at, r)
      BY DEF HostInv, TypeOK, Handled
    <3> QED BY <1>4, <3>1, HasRequestIs
  <2> QED BY <1>1, <1>2, <1>3, <2>1 DEF HostInv, Copies
<1>11. Futures'
  BY <1>1, <1>7, FuturesKept DEF hostVars
<1>12. Able' /\ NotStarted'
  BY <1>1, <1>2, <1>3, <1>6 DEF HostInv, Able, NotStarted, hostVars
<1> QED BY <1>5, <1>8, <1>9, <1>10, <1>11, <1>12 DEF HostInv

(* An answer that is read ends the call it is for.                         *)
LEMMA ReadResponseKeeps ==
  ASSUME HostInv, NEW c \in Client, ReadLoop(c), NEW r \in Request,
         Head(toClient[c]) = Msg("response", r)
  PROVE  HostInv'
<1>1. /\ asks' = [asks EXCEPT ![r].state = "ended"]
      /\ tasks' = {IF k.on = r THEN [k EXCEPT !.on = NoRequest] ELSE k : k \in tasks}
      /\ reading' \in [Client -> BOOLEAN]
      /\ UNCHANGED <<mode, factories, registering, toHost, hostVars, quiet>>
  BY MsgIs DEF ReadLoop, ProcessResponse, HostInv, TypeOK
<1>2. /\ Answered(c, r) /\ ~On(toClient'[c], Msg("response", r))
      /\ toClient' \in [Client -> Seq(Message)]
      /\ \A d \in Client : \A x : On(toClient'[d], x) => On(toClient[d], x)
      /\ \A d \in Client : Once(toClient'[d])
      /\ \A d \in Client : mode[d] = "new" => toClient'[d] = toClient[d] /\ d # c
  <2>1. PICK h : h = Msg("response", r)
    OBVIOUS
  <2>2. h.kind # "event" /\ h = Head(toClient[c])
    BY <2>1, MsgIs
  <2> QED BY <2>1, <2>2, ReadIs DEF Answered
<1>3. /\ asks[r] # Unsent /\ asks[r].by = c
      /\ asks[r] \in [state : {"waiting", "ended"}, by : Client, to : Type]
      /\ \A d \in Client : ~Asked(d, r) /\ ~HasRequest(d, r) /\ (Answered(d, r) => d = c)
  BY <1>2 DEF HostInv, TypeOK, Located, OnePlace, Waiting
<1>4. /\ asks'[r] = [asks[r] EXCEPT !.state = "ended"]
      /\ \A q \in Request \ {r} : asks'[q] = asks[q]
  BY <1>1 DEF HostInv, TypeOK
<1>5. /\ asks'[r] \in [state : {"waiting", "ended"}, by : Client, to : Type]
      /\ asks'[r].by = asks[r].by /\ asks'[r].to = asks[r].to
      /\ asks'[r] # Unsent
  <2>1. /\ asks'[r] \in [state : {"waiting", "ended"}, by : Client, to : Type]
        /\ asks'[r].by = asks[r].by /\ asks'[r].to = asks[r].to /\ asks'[r].state = "ended"
    BY <1>3, <1>4
  <2> QED BY <2>1 DEF Unsent
<1>6. /\ tasks' \subseteq [at : Client, req : Request, on : Request \cup {NoRequest},
                           early : BOOLEAN]
      /\ \A x \in tasks' : \E y \in tasks :
           /\ x.at = y.at /\ x.req = y.req
           /\ x = IF y.on = r THEN [y EXCEPT !.on = NoRequest] ELSE y
  <2>1. \A y \in tasks :
          LET x == IF y.on = r THEN [y EXCEPT !.on = NoRequest] ELSE y IN
          /\ x \in [at : Client, req : Request, on : Request \cup {NoRequest}, early : BOOLEAN]
          /\ x.at = y.at /\ x.req = y.req
    BY DEF HostInv, TypeOK
  <2> QED BY <1>1, <2>1
<1>7. TypeOK'
  <2>1. asks' \in [Request -> {Unsent} \cup
                     [state : {"waiting", "ended"}, by : Client, to : Type]]
    BY <1>1, <1>4, <1>5 DEF HostInv, TypeOK
  <2> QED BY <1>1, <1>2, <1>6, <2>1 DEF HostInv, TypeOK, hostVars
<1>8. Unmoved /\ \A d \in Client : ~Answered(d, r)'
  <2>1. \A d \in Client, q \in Request : Handled(d, q)' => Handled(d, q)
    BY <1>6 DEF Handled
  <2>2. \A d \in Client : ~Answered(d, r)'
    BY <1>2, <1>3 DEF Answered
  <2> QED BY <1>1, <1>2, <2>1, <2>2 DEF Unmoved, Asked, Given, Returned, Answered
<1>9. SameHolders
  BY <1>8, HasRequestIs, HasRequestIsPrimed DEF Unmoved, SameHolders
<1>10. Located'
  BY <1>3, <1>4, <1>8, <1>9 DEF HostInv, Located, SameHolders, Waiting
<1>11. OnePlace' /\ OneForm'
  BY <1>8, <1>9 DEF HostInv, OnePlace, OneForm, Unmoved, SameHolders
<1>12. Copies'
  <2>1. ASSUME NEW k \in tasks', NEW l \in tasks', k.req = l.req
        PROVE  k = l
    <3>1. PICK x \in tasks : /\ k.req = x.req
                             /\ k = IF x.on = r THEN [x EXCEPT !.on = NoRequest] ELSE x
      BY <1>6
    <3>2. PICK y \in tasks : /\ l.req = y.req
                             /\ l = IF y.on = r THEN [y EXCEPT !.on = NoRequest] ELSE y
      BY <1>6
    <3>3. x = y
      BY <2>1, <3>1, <3>2 DEF HostInv, Copies
    <3> QED BY <3>1, <3>2, <3>3
  <2> QED BY <1>1, <1>2, <2>1 DEF HostInv, Copies
<1>13. Futures'
  <2>1. \A q \in Request : asks[q] # Unsent => asks'[q] # Unsent /\ asks'[q].by = asks[q].by
    BY <1>4, <1>5
  <2>2. \A p \in pending : asks'[p.req] # Unsent /\ p.asker = asks'[p.req].by
    BY <2>1 DEF HostInv, TypeOK, Futures
  <2>3. \A d \in conn, q \in Request : HasRequest(d, q)' =>
          [target |-> d, req |-> q, asker |-> asks'[q].by] \in pending
    BY <1>3, <1>4, <1>9 DEF HostInv, Futures, TypeOK, SameHolders
  <2> QED BY <1>1, <2>2, <2>3 DEF Futures, hostVars
<1>14. Able'
  BY <1>1, <1>4, <1>5, <1>8 DEF HostInv, Able, Unmoved, hostVars
<1>15. NotStarted'
  BY <1>1, <1>2, <1>6 DEF HostInv, NotStarted, hostVars
<1> QED BY <1>7, <1>10, <1>11, <1>12, <1>13, <1>14, <1>15 DEF HostInv

(* What the host takes of a stream is at its place, and leaves it.         *)
LEMMA TakenIs ==
  ASSUME HostInv, NEW c \in Client, NEW kind \in {"request", "response"}, Take(c, kind)
  PROVE  \E r \in Request :
           /\ Head(toHost[c]) = Msg(kind, r) /\ Head(toHost[c]).id = r
           /\ On(toHost[c], Msg(kind, r)) /\ ~On(toHost'[c], Msg(kind, r))
           /\ toHost' \in [Client -> Seq(Message)]
           /\ \A d \in Client : \A x : On(toHost'[d], x) => On(toHost[d], x)
           /\ \A d \in Client : Once(toHost'[d])
           /\ \A d \in Client : mode[d] = "new" => toHost'[d] = toHost[d]
<1>1. PICK h : h = Head(toHost[c])
  OBVIOUS
<1>2. PICK r : r = h.id
  OBVIOUS
<1>3. h \in Message /\ h = Msg(kind, r)
  BY <1>1, <1>2, TakeIs
<1>4. r \in Request /\ h.kind = kind
  BY <1>2, <1>3, MsgIs, MessageIs
<1>5. Head(toHost[c]) = Msg(kind, r) /\ Head(toHost[c]).id = r
  BY <1>1, <1>2, <1>3
<1>6. On(toHost[c], Msg(kind, r)) /\ ~On(toHost'[c], Msg(kind, r))
  BY <1>1, <1>3, TakeIs
<1>7. /\ toHost' \in [Client -> Seq(Message)]
      /\ \A d \in Client : \A x : On(toHost'[d], x) => On(toHost[d], x)
      /\ \A d \in Client : Once(toHost'[d])
      /\ \A d \in Client : mode[d] = "new" => toHost'[d] = toHost[d]
  BY TakeIs
<1> QED BY <1>4, <1>5, <1>6, <1>7

(* A request goes to the worker of its type, or nowhere.                   *)
LEMMA ProcessRequestKeeps ==
  ASSUME HostInv, NEW c \in Client, ProcessRequest(c)
  PROVE  HostInv'
<1>1. PICK r \in Request :
        /\ Head(toHost[c]).id = r /\ Asked(c, r)
        /\ ~On(toHost'[c], Msg("request", r))
        /\ toHost' \in [Client -> Seq(Message)]
        /\ \A d \in Client : \A x : On(toHost'[d], x) => On(toHost[d], x)
        /\ \A d \in Client : Once(toHost'[d])
        /\ \A d \in Client : mode[d] = "new" => toHost'[d] = toHost[d]
  <2>1. Take(c, "request")
    BY DEF ProcessRequest
  <2> QED BY <2>1, TakenIs DEF Asked
<1>2. UNCHANGED <<workerVars, registering, conn, types, subs, quiet>>
  BY DEF ProcessRequest
<1>3. /\ Waiting(r) /\ asks[r].by = c
      /\ \A d \in Client : ~HasRequest(d, r) /\ ~Answered(d, r) /\ (Asked(d, r) => d = c)
  BY <1>1 DEF HostInv, Located, OnePlace
<1>4. PICK target : target = types[asks[r].to]
  OBVIOUS
<1>5. \/ /\ target \in conn
         /\ SendToClients({target}, Msg("request", r))
         /\ pending' = pending \cup {[target |-> target, req |-> r, asker |-> c]}
      \/ UNCHANGED <<toClient, pending>>
  BY <1>1, <1>4 DEF ProcessRequest
<1>6. CASE UNCHANGED <<toClient, pending>>
  <2>1. Unmoved
    BY <1>1, <1>2, <1>6 DEF Unmoved, Asked, Given, Handled, Returned, Answered, workerVars
  <2>2. TypeOK' /\ Copies'
    BY <1>1, <1>2, <1>6 DEF HostInv, TypeOK, Copies, workerVars
  <2> QED BY <1>1, <1>2, <1>6, <2>1, <2>2, HostStays DEF workerVars, hostVars
<1>7. CASE /\ target \in conn
           /\ SendToClients({target}, Msg("request", r))
           /\ pending' = pending \cup {[target |-> target, req |-> r, asker |-> c]}
  <2>1. /\ target \in Client /\ {target} \in SUBSET Client /\ TypeOK
        /\ target # NoClient /\ asks[r].to \in Type
    BY <1>3, <1>7, HostAssumption DEF HostInv, TypeOK, Waiting
  <2>2. PICK m : m = Msg("request", r)
    OBVIOUS
  <2>3. m \in Message /\ m.kind = "request"
    BY <2>2, MsgIs
  <2>4. \A d \in Client : ~On(toClient[d], m)
    BY <1>3, <2>2, HasRequestIs DEF Given
  <2>5. /\ toClient' \in [Client -> Seq(Message)]
        /\ \A d \in Client : mode[d] = "new" => toClient'[d] = toClient[d]
    BY <1>7, <2>1, <2>2, <2>3, SendToClientsIs
  <2>6. \A d \in Client : \A x : On(toClient'[d], x) => On(toClient[d], x) \/ (d \in {target} /\ x = m)
    <3>1. SendToClients({target}, m)
      BY <1>7, <2>2
    <3> QED BY <2>1, <2>3, <3>1, SendToClientsIs, Zenon
  <2>7. \A d \in Client : Once(toClient'[d])
    BY <1>7, <2>1, <2>2, <2>3, <2>4, SendToClientsIs DEF HostInv, Copies
  <2>8. TypeOK'
    BY <1>1, <1>2, <1>7, <2>1, <2>5 DEF TypeOK, workerVars
  <2>9. \A d \in Client, q \in Request :
          /\ Asked(d, q)' => Asked(d, q) /\ q # r
          /\ Given(d, q)' => Given(d, q) \/ (d = target /\ q = r)
          /\ Handled(d, q)' => Handled(d, q)
          /\ Returned(d, q)' => Returned(d, q)
          /\ Answered(d, q)' => Answered(d, q)
    <3>1. ASSUME NEW d \in Client, NEW q \in Request
          PROVE  /\ Given(d, q)' => Given(d, q) \/ (d = target /\ q = r)
                 /\ Answered(d, q)' => Answered(d, q)
      BY <2>2, <2>6, MsgIs DEF Given, Answered
    <3>2. ASSUME NEW d \in Client, NEW q \in Request
          PROVE  Asked(d, q)' => Asked(d, q) /\ q # r
      <4>1. Asked(d, q)' => Asked(d, q)
        BY <1>1 DEF Asked
      <4>2. Asked(d, r)' => d # c
        BY <1>1 DEF Asked
      <4>3. Asked(d, r)' => Asked(d, r)
        BY <1>1 DEF Asked
      <4> QED BY <1>3, <4>1, <4>2, <4>3
    <3>3. ASSUME NEW d \in Client, NEW q \in Request
          PROVE  /\ Handled(d, q)' => Handled(d, q)
                 /\ Returned(d, q)' => Returned(d, q)
      BY <1>1, <1>2 DEF Handled, Returned, workerVars
    <3> QED BY <3>1, <3>2, <3>3
  <2>10. \A d \in Client, q \in Request :
           HasRequest(d, q)' => HasRequest(d, q) \/ (d = target /\ q = r)
    BY <2>9, HasRequestIs, HasRequestIsPrimed
  <2>11. asks' = asks /\ tasks' = tasks /\ mode' = mode /\ factories' = factories
    BY <1>2 DEF workerVars
  <2>12. Located'
    BY <1>3, <2>9, <2>10, <2>11 DEF HostInv, Located, Waiting
  <2>13. OnePlace'
    BY <1>3, <2>9, <2>10 DEF HostInv, OnePlace
  <2>14. OneForm'
    BY <1>3, <2>9, HasRequestIs DEF HostInv, OneForm
  <2>15. Copies'
    BY <1>1, <2>7, <2>11 DEF HostInv, Copies
  <2>16. Futures'
    <3>1. \A p \in pending' : asks[p.req] # Unsent /\ p.asker = asks[p.req].by
      BY <1>3, <1>7 DEF HostInv, Futures, Waiting
    <3>2. \A d \in conn, q \in Request : HasRequest(d, q)' =>
            [target |-> d, req |-> q, asker |-> asks[q].by] \in pending'
      BY <1>3, <1>7, <2>1, <2>10 DEF HostInv, Futures, TypeOK
    <3> QED BY <1>2, <2>11, <3>1, <3>2 DEF Futures
  <2>17. Able'
    <3>1. asks[r].to \in factories[target]
      BY <1>4, <2>1 DEF HostInv, Able
    <3> QED BY <1>2, <2>9, <2>11, <3>1 DEF HostInv, Able
  <2>18. NotStarted'
    BY <1>1, <1>2, <2>5, <2>11 DEF HostInv, NotStarted
  <2> QED BY <2>8, <2>12, <2>13, <2>14, <2>15, <2>16, <2>17, <2>18 DEF HostInv
<1> QED BY <1>5, <1>6, <1>7

(* An answer goes to the asker of the future that is kept for it.          *)
LEMMA HostResponseKeeps ==
  ASSUME HostInv, NEW c \in Client, HostResponse(c)
  PROVE  HostInv'
<1>1. PICK r \in Request :
        /\ Head(toHost[c]).id = r /\ Head(toHost[c]) = Msg("response", r)
        /\ Returned(c, r) /\ ~On(toHost'[c], Msg("response", r))
        /\ toHost' \in [Client -> Seq(Message)]
        /\ \A d \in Client : \A x : On(toHost'[d], x) => On(toHost[d], x)
        /\ \A d \in Client : Once(toHost'[d])
        /\ \A d \in Client : mode[d] = "new" => toHost'[d] = toHost[d]
  <2>1. Take(c, "response")
    BY DEF HostResponse
  <2> QED BY <2>1, TakenIs DEF Returned
<1>2. UNCHANGED <<workerVars, registering, conn, types, subs, quiet>>
  BY DEF HostResponse
<1>3. PICK found : found = {p \in pending : p.target = c /\ p.req = r}
  OBVIOUS
<1>4. PICK cs : cs = {p.asker : p \in found} \cap conn
  OBVIOUS
<1>5. PICK m : m = Msg("response", r)
  OBVIOUS
<1>6. pending' = pending \ found /\ SendToClients(cs, m)
  BY <1>1, <1>3, <1>4, <1>5 DEF HostResponse
<1>7. /\ HasRequest(c, r) /\ Waiting(r) /\ ~Given(c, r) /\ ~Handled(c, r)
      /\ \A d \in Client :
           /\ ~Asked(d, r) /\ ~Answered(d, r)
           /\ HasRequest(d, r) => d = c
  <2>1. HasRequest(c, r)
    BY <1>1, HasRequestIs
  <2> QED BY <1>1, <2>1 DEF HostInv, Located, OnePlace, OneForm
<1>8. cs \in SUBSET Client /\ cs \subseteq {asks[r].by} /\ TypeOK
  BY <1>3, <1>4 DEF HostInv, TypeOK, Futures
<1>9. m \in Message /\ m.kind = "response"
  BY <1>5, MsgIs
<1>10. \A d \in Client : ~On(toClient[d], m)
  BY <1>5, <1>7 DEF Answered
<1>11. /\ toClient' \in [Client -> Seq(Message)]
       /\ \A d \in Client : mode[d] = "new" => toClient'[d] = toClient[d]
  BY <1>6, <1>8, <1>9, SendToClientsIs
<1>12. \A d \in Client : \A x : On(toClient'[d], x) => On(toClient[d], x) \/ (d \in cs /\ x = m)
  BY <1>6, <1>8, <1>9, SendToClientsIs, Zenon
<1>13. \A d \in Client : Once(toClient'[d])
  BY <1>6, <1>8, <1>9, <1>10, SendToClientsIs DEF HostInv, Copies
<1>14. TypeOK'
  BY <1>1, <1>2, <1>6, <1>11 DEF HostInv, TypeOK, workerVars
<1>15. \A d \in Client, q \in Request :
         /\ Asked(d, q)' => Asked(d, q)
         /\ Given(d, q)' => Given(d, q)
         /\ Handled(d, q)' => Handled(d, q)
         /\ Returned(d, q)' => Returned(d, q) /\ (d # c \/ q # r)
         /\ Answered(d, q)' => Answered(d, q) \/ (d = asks[r].by /\ q = r)
  <2>1. ASSUME NEW d \in Client, NEW q \in Request
        PROVE  /\ Given(d, q)' => Given(d, q)
               /\ Answered(d, q)' => Answered(d, q) \/ (d \in cs /\ q = r)
    BY <1>5, <1>12, MsgIs DEF Given, Answered
  <2>2. ASSUME NEW d \in Client, NEW q \in Request
        PROVE  /\ Asked(d, q)' => Asked(d, q)
               /\ Handled(d, q)' => Handled(d, q)
               /\ Returned(d, q)' => Returned(d, q)
    BY <1>1, <1>2 DEF Asked, Handled, Returned, workerVars
  <2>3. ~Returned(c, r)'
    BY <1>1 DEF Returned
  <2> QED BY <1>8, <2>1, <2>2, <2>3
<1>16. \A d \in Client, q \in Request : HasRequest(d, q)' => HasRequest(d, q) /\ q # r
  <2>1. ASSUME NEW d \in Client, NEW q \in Request, HasRequest(d, q)'
        PROVE  HasRequest(d, q)
    BY <1>15, <2>1, HasRequestIs, HasRequestIsPrimed
  <2>2. ASSUME NEW d \in Client, HasRequest(d, r)'
        PROVE  FALSE
    <3>1. d = c
      BY <1>7, <2>1, <2>2
    <3> QED BY <1>7, <1>15, <2>2, <3>1, HasRequestIsPrimed
  <2> QED BY <2>1, <2>2
<1>17. asks' = asks /\ tasks' = tasks /\ mode' = mode /\ factories' = factories
  BY <1>2 DEF workerVars
<1>18. Located'
  BY <1>7, <1>15, <1>16, <1>17 DEF HostInv, Located, Waiting
<1>19. OnePlace' /\ OneForm'
  BY <1>7, <1>15, <1>16 DEF HostInv, OnePlace, OneForm
<1>20. Copies'
  BY <1>1, <1>13, <1>17 DEF HostInv, Copies
<1>21. Futures'
  <2>1. \A d \in conn, q \in Request : HasRequest(d, q)' =>
          [target |-> d, req |-> q, asker |-> asks[q].by] \in pending'
    BY <1>3, <1>6, <1>16 DEF HostInv, Futures, TypeOK
  <2> QED BY <1>2, <1>6, <1>17, <2>1 DEF HostInv, Futures
<1>22. Able'
  BY <1>2, <1>15, <1>17 DEF HostInv, Able
<1>23. NotStarted'
  BY <1>1, <1>2, <1>11, <1>17 DEF HostInv, NotStarted
<1> QED BY <1>14, <1>18, <1>19, <1>20, <1>21, <1>22, <1>23 DEF HostInv

(* An event that is read is handled in tasks of its own.                   *)
LEMMA ReadEventKeeps ==
  ASSUME HostInv, NEW c \in Client, ReadLoop(c), Head(toClient[c]).kind = "event"
  PROVE  HostInv'
<1>1. /\ reading' \in [Client -> BOOLEAN]
      /\ UNCHANGED <<mode, factories, asks, tasks, registering, toHost, hostVars, quiet>>
  BY DEF ReadLoop, HostInv, TypeOK
<1>2. /\ toClient' \in [Client -> Seq(Message)]
      /\ \A d \in Client : \A x : On(toClient'[d], x) => On(toClient[d], x)
      /\ \A d \in Client : Once(toClient'[d])
      /\ \A d \in Client : mode[d] = "new" => toClient'[d] = toClient[d]
  <2>1. PICK h : h = Head(toClient[c])
    OBVIOUS
  <2> QED BY <2>1, ReadIs
<1>3. TypeOK' /\ Copies'
  BY <1>1, <1>2 DEF HostInv, TypeOK, Copies, hostVars
<1>4. Unmoved
  BY <1>1, <1>2 DEF Unmoved, Asked, Given, Handled, Returned, Answered
<1> QED BY <1>1, <1>2, <1>3, <1>4, HostStays

LEMMA ReadLoopKeeps ==
  ASSUME HostInv, NEW c \in Client, ReadLoop(c)
  PROVE  HostInv'
<1>1. PICK h : h = Head(toClient[c])
  OBVIOUS
<1>2. h \in Message
  BY <1>1, ReadIs
<1>3. h = Msg(h.kind, h.id)
  BY <1>2, MessageIs
<1>4. CASE h.kind = "event"
  BY <1>1, <1>4, ReadEventKeeps
<1>5. CASE h.kind = "request"
  BY <1>1, <1>2, <1>3, <1>5, MessageIs, ReadRequestKeeps
<1>6. CASE h.kind = "response"
  BY <1>1, <1>2, <1>3, <1>6, MessageIs, ReadResponseKeeps
<1> QED BY <1>2, <1>4, <1>5, <1>6, MessageIs

-----------------------------------------------------------------------------
LEMMA HostInvInit ==
  ASSUME Init
  PROVE  HostInv
<1>1. /\ TypeOK
      /\ \A c \in Client : toHost[c] = <<>> /\ toClient[c] = <<>>
      /\ tasks = {} /\ registering = {} /\ conn = {} /\ pending = {}
      /\ \A a \in Type : types[a] = NoClient
  BY OnEmpty DEF Init, TypeOK
<1>2. \A c \in Client, r \in Request :
        ~Asked(c, r) /\ ~Answered(c, r) /\ ~HasRequest(c, r) /\ ~Given(c, r)
  BY <1>1, OnEmpty DEF Asked, Answered, HasRequest, Given
<1>3. Located /\ OnePlace /\ OneForm
  BY <1>2, HasRequestIs DEF Located, OnePlace, OneForm
<1>4. Copies /\ Futures /\ Able /\ NotStarted
  BY <1>1, <1>2, OnEmpty DEF Copies, Futures, Able, NotStarted
<1> QED BY <1>1, <1>3, <1>4 DEF HostInv

LEMMA HostInvStutter ==
  ASSUME HostInv, UNCHANGED vars
  PROVE  HostInv'
<1>1. /\ UNCHANGED <<mode, reading, factories, asks, tasks, registering, toHost, toClient>>
      /\ UNCHANGED <<hostVars, quiet>>
  BY DEF vars, workerVars
<1>2. TypeOK' /\ Copies'
  BY <1>1 DEF HostInv, TypeOK, Copies, hostVars
<1>3. Unmoved
  BY <1>1, StreamsStay
<1> QED BY <1>1, <1>2, <1>3, HostStays

LEMMA HostInvStep ==
  ASSUME HostInv, [Next]_vars
  PROVE  HostInv'
<1>1. CASE Routing
  <2>1. CASE \E p \in registering : RegisterAgent(p)
    BY <2>1, RegistrationKeeps
  <2>2. ASSUME NEW c \in Client, WorkerCalls(c)
        PROVE  HostInv'
    <3>1. CASE Start(c)
      BY <3>1, StartKeeps
    <3>2. CASE \E a \in Type : RegisterFactory(c, a) \/ AddSubscription(c, a)
      BY <3>2, RegistrationKeeps
    <3>3. CASE \E r \in Request, a \in Type : SendMessage(c, r, a)
      BY <3>3, SendMessageKeeps
    <3>4. CASE \E e \in Event : PublishMessage(c, e)
      BY <3>4, PublishMessageKeeps
    <3> QED BY <2>2, <3>1, <3>2, <3>3, <3>4 DEF WorkerCalls
  <2>3. ASSUME NEW c \in Client, ReadLoop(c)
        PROVE  HostInv'
    BY <2>3, ReadLoopKeeps
  <2>4. ASSUME NEW c \in Client, Host(c)
        PROVE  HostInv'
    BY <2>4, ProcessRequestKeeps, HostResponseKeeps, ProcessEventKeeps DEF Host
  <2>5. ASSUME NEW k \in tasks, Handler(k)
        PROVE  HostInv'
    BY <2>5, HandlerReturnsKeeps, HandlerAsksKeeps DEF Handler
  <2> QED BY <1>1, <2>1, <2>2, <2>3, <2>4, <2>5 DEF Routing
<1>2. CASE \E s \in subs : RemoveSubscription(s)
  BY <1>2, RegistrationKeeps
<1>3. CASE \E k \in tasks : HandlerFails(k)
  BY <1>3, HandlerFailsKeeps
<1>4. CASE \E c \in Client :
             Stop(c) \/ StopCloses(c) \/ Crash(c) \/ StreamBreaks(c) \/ Disconnect(c)
  BY <1>4, StopKeeps, EndsKeep, DisconnectKeeps
<1>5. CASE UNCHANGED vars
  BY <1>5, HostInvStutter
<1> QED BY <1>1, <1>2, <1>3, <1>4, <1>5 DEF Next

-----------------------------------------------------------------------------
(* HostInv holds whatever workers, types, requests and events there are,   *)
(* and whatever fails: _worker_runtime.py:225-420 and                      *)
(* _worker_runtime_host_servicer.py:45-330.                                *)
THEOREM HostInvHolds == Spec => []HostInv
<1>1. Init => HostInv
  BY HostInvInit
<1>2. HostInv /\ [Next]_vars => HostInv'
  BY HostInvStep
<1> QED BY <1>1, <1>2, PTL DEF Spec

(* A request that reaches a worker reaches one with the factory of its     *)
(* type, and an answer reaches the caller whose future is still there      *)
(* (_worker_runtime.py:500-560): the two lookups cannot fail.              *)
THEOREM RequestsReachTheirParty == Spec => []ReachesItsParty
<1>1. HostInv => ReachesItsParty
  BY DEF HostInv, Located, Able, Given, Answered, Waiting, ReachesItsParty
<1> QED BY <1>1, HostInvHolds, PTL

(* A connected worker that has a request has a future at the host          *)
(* (_worker_runtime_host_servicer.py:140-200), and no other worker has it. *)
THEOREM AnswersAreAwaited == Spec => []AnswerIsAwaited
<1>1. HostInv => AnswerIsAwaited
  BY DEF HostInv, OnePlace, Futures, AnswerIsAwaited
<1> QED BY <1>1, HostInvHolds, PTL

(* Registering a type again leaves it to the connected worker that has it  *)
(* (_worker_runtime_host_servicer.py:243-262).                             *)
THEOREM TypesStay == Spec => TypesAreKept
<1> DEFINE Kept == \A a \in Type : types[a] \in conn /\ types[a] \in conn' => types'[a] = types[a]
<1>1. ASSUME TypeOK, [Next]_vars
      PROVE  Kept
  <2>1. CASE types' = types
    BY <2>1
  <2>2. ASSUME NEW p \in registering, RegisterAgent(p)
        PROVE  Kept
    BY <1>1, <2>2, HostAssumption DEF RegisterAgent, TypeOK
  <2>3. ASSUME NEW c \in Client, Disconnect(c)
        PROVE  Kept
    BY <1>1, <2>3 DEF Disconnect, TypeOK
  <2>4. \/ types' = types
        \/ \E p \in registering : RegisterAgent(p)
        \/ \E c \in Client : Disconnect(c)
    <3>1. CASE Routing /\ ~\E p \in registering : RegisterAgent(p)
      BY <3>1 DEF Routing, WorkerCalls, Start, RegisterFactory, AddSubscription, SendMessage,
         PublishMessage, ReadLoop, Host, ProcessRequest, HostResponse, ProcessEvent, Handler,
         HandlerReturns, HandlerAsks, hostVars
    <3>2. CASE \/ \E s \in subs : RemoveSubscription(s)
               \/ \E k \in tasks : HandlerFails(k)
               \/ \E c \in Client : Stop(c) \/ StopCloses(c) \/ Crash(c) \/ StreamBreaks(c)
      BY <3>2 DEF RemoveSubscription, HandlerFails, Stop, StopCloses, Crash, StreamBreaks, Gone,
         hostVars
    <3>3. CASE UNCHANGED vars
      BY <3>3 DEF vars, hostVars
    <3> QED BY <1>1, <3>1, <3>2, <3>3 DEF Next
  <2> QED BY <2>1, <2>2, <2>3, <2>4
<1>2. HostInv => TypeOK
  BY DEF HostInv
<1>3. [Next]_vars /\ TypeOK => [\A a \in Type : types[a] \in conn /\ types[a] \in conn'
                                  => types'[a] = types[a]]_vars
  BY <1>1
<1> QED BY <1>2, <1>3, HostInvHolds, PTL DEF Spec, TypesAreKept

-----------------------------------------------------------------------------
(* While no worker stops and no stream breaks, every type is mapped to a   *)
(* connected client or to none.                                            *)
Steady ==
  /\ \A c \in Client : mode[c] \in {"new", "up"} /\ (mode[c] = "up" => c \in conn)
  /\ \A p \in registering : p.client \in conn
  /\ \A a \in Type : types[a] \in conn \cup {NoClient}

LEMMA TailIsShorter ==
  ASSUME NEW s \in Seq(Message), NEW m \in Message, s # <<>>
  PROVE  Tail(s) # s /\ Tail(s) # Append(s, m)
<1>1. Len(Tail(s)) # Len(s)
  OBVIOUS
<1>2. Len(Tail(s)) # Len(Append(s, m))
  <2>1. PICK n \in Nat : n = Len(s)
    OBVIOUS
  <2>2. Len(Append(s, m)) = n + 1 /\ Len(Tail(s)) = n - 1
    BY <2>1
  <2>3. n + 1 # n - 1
    OBVIOUS
  <2> QED BY <2>2, <2>3, Zenon
<1> QED BY <1>1, <1>2, Zenon

(* A step of the routing, seen from the stream of c: the host takes the    *)
(* event at its head only in ProcessEvent.                                 *)
LEMMA EventIsTaken ==
  ASSUME TypeOK, Routing, NEW c \in Client,
         toHost[c] # <<>>, Head(toHost[c]).kind = "event", toHost'[c] = Tail(toHost[c])
  PROVE  ProcessEvent(c)
<1>1. /\ toHost \in [Client -> Seq(Message)] /\ toHost[c] \in Seq(Message)
      /\ toHost'[c] # toHost[c]
  BY DEF TypeOK
<1>2. ASSUME NEW d \in Client, NEW m \in Message, SendToHost(d, m)
      PROVE  FALSE
  <2>1. CASE toHost' = toHost
    BY <1>1, <2>1
  <2>2. CASE toHost' = [toHost EXCEPT ![d] = Append(@, m)] /\ d = c
    <3>1. toHost'[c] = Append(toHost[c], m)
      BY <1>1, <2>2
    <3> QED BY <1>1, <3>1, TailIsShorter
  <2>3. CASE toHost' = [toHost EXCEPT ![d] = Append(@, m)] /\ d # c
    BY <1>1, <2>3
  <2> QED BY <1>2, <2>1, <2>2, <2>3 DEF SendToHost
<1>3. ASSUME NEW d \in Client, NEW kind, Take(d, kind)
      PROVE  d = c /\ kind = "event"
  BY <1>1, <1>3 DEF Take
<1>4. toHost' # toHost
  BY <1>1
<1>5. ASSUME NEW d \in Client, WorkerCalls(d)
      PROVE  FALSE
  <2>1. ASSUME NEW r \in Request, NEW a \in Type, SendMessage(d, r, a)
        PROVE  FALSE
    BY <1>2, <2>1, MsgIs DEF SendMessage, Ask
  <2>2. ASSUME NEW e \in Event, PublishMessage(d, e)
        PROVE  FALSE
    BY <1>2, <2>2, MsgIs DEF PublishMessage
  <2>3. ~Start(d) /\ \A a \in Type : ~RegisterFactory(d, a) /\ ~AddSubscription(d, a)
    BY <1>4 DEF Start, RegisterFactory, AddSubscription
  <2> QED BY <1>5, <2>1, <2>2, <2>3 DEF WorkerCalls
<1>6. ASSUME NEW k \in tasks, Handler(k)
      PROVE  FALSE
  <2>1. k.at \in Client /\ k.req \in Request
    BY DEF TypeOK
  <2>2. ~HandlerReturns(k)
    BY <1>2, <2>1, MsgIs DEF HandlerReturns
  <2>3. ASSUME NEW r \in Request, NEW a \in Type, HandlerAsks(k, r, a)
        PROVE  FALSE
    BY <1>2, <2>1, <2>3, MsgIs DEF HandlerAsks, Ask
  <2> QED BY <1>6, <2>2, <2>3 DEF Handler
<1>7. /\ \A p \in registering : ~RegisterAgent(p)
      /\ \A d \in Client : ~ReadLoop(d)
  BY <1>4 DEF RegisterAgent, ReadLoop
<1>8. PICK d \in Client : Host(d)
  BY <1>5, <1>6, <1>7 DEF Routing
<1>9. ~ProcessRequest(d) /\ ~HostResponse(d)
  <2>1. ~Take(d, "request") /\ ~Take(d, "response")
    BY <1>3
  <2> QED BY <2>1 DEF ProcessRequest, HostResponse
<1>10. ProcessEvent(d)
  BY <1>8, <1>9 DEF Host
<1>11. d = c
  BY <1>3, <1>10 DEF ProcessEvent
<1> QED BY <1>10, <1>11

LEMMA SteadyStep ==
  ASSUME TypeOK, Steady, [SteadyNext]_vars
  PROVE  Steady'
<1>1. CASE \E c \in Client : Start(c)
  BY <1>1 DEF Start, Steady, TypeOK
<1>2. CASE \E c \in Client, a \in Type : RegisterFactory(c, a)
  BY <1>2 DEF RegisterFactory, Steady, TypeOK, hostVars
<1>3. CASE \E p \in registering : RegisterAgent(p)
  BY <1>3 DEF RegisterAgent, Steady, TypeOK, workerVars
<1>4. CASE UNCHANGED <<mode, registering, conn, types>>
  BY <1>4 DEF Steady
<1>5. CASE \E c \in Client : \/ \E a \in Type : AddSubscription(c, a)
                             \/ \E r \in Request, a \in Type : SendMessage(c, r, a)
                             \/ \E e \in Event : PublishMessage(c, e)
  BY <1>4, <1>5 DEF AddSubscription, SendMessage, PublishMessage, workerVars, hostVars
<1>6. CASE \E c \in Client : ReadLoop(c) \/ Host(c)
  BY <1>4, <1>6 DEF ReadLoop, Host, ProcessRequest, HostResponse, ProcessEvent, workerVars, hostVars
<1>7. CASE \E k \in tasks : Handler(k)
  BY <1>4, <1>7 DEF Handler, HandlerReturns, HandlerAsks, hostVars
<1>8. CASE UNCHANGED vars
  BY <1>4, <1>8 DEF vars, workerVars, hostVars
<1> QED BY <1>1, <1>2, <1>3, <1>5, <1>6, <1>7, <1>8 DEF SteadyNext, Routing, WorkerCalls

(* An event reaches every connected worker that has a subscribed type      *)
(* (_worker_runtime_host_servicer.py:204-227): the set of recipients has   *)
(* no member without a connection, so that the loop is never broken off.   *)
THEOREM EventsReachSubscribers == SteadySpec => EventReachesSubscribers
<1> DEFINE Reached(c) ==
      /\ toHost[c] # <<>>
      /\ Head(toHost[c]).kind = "event"
      /\ toHost'[c] = Tail(toHost[c])
      /\ mode' = mode
      => \A d \in Recipients : Linked(d) =>
           toClient'[d] = Append(toClient[d], Head(toHost[c]))
<1>1. Init => HostInv /\ Steady
  BY HostInvInit DEF Init, Steady
<1>2. HostInv /\ Steady /\ [SteadyNext]_vars => HostInv' /\ Steady'
  <2>1. [SteadyNext]_vars => [Next]_vars
    BY DEF SteadyNext, Next
  <2>2. HostInv => TypeOK
    BY DEF HostInv
  <2> QED BY <2>1, <2>2, HostInvStep, SteadyStep
<1>3. ASSUME HostInv, Steady, SteadyNext, NEW c \in Client
      PROVE  Reached(c)
  <2> SUFFICES ASSUME toHost[c] # <<>>, Head(toHost[c]).kind = "event",
                      toHost'[c] = Tail(toHost[c]),
                      NEW d \in Recipients, Linked(d)
               PROVE  toClient'[d] = Append(toClient[d], Head(toHost[c]))
    OBVIOUS
  <2>1. ProcessEvent(c)
    BY <1>3, EventIsTaken DEF HostInv, SteadyNext
  <2>2. Recipients \subseteq conn /\ Recipients \subseteq Client
    BY <1>3 DEF HostInv, Steady, TypeOK, Recipients
  <2>3. SendToClients(Recipients, Head(toHost[c]))
    BY <2>1, <2>2 DEF ProcessEvent
  <2> QED BY <2>2, <2>3 DEF SendToClients
<1>4. HostInv /\ Steady /\ [SteadyNext]_vars => [\A c \in Client : Reached(c)]_vars
  BY <1>3
<1> QED BY <1>1, <1>2, <1>4, PTL DEF SteadySpec, EventReachesSubscribers
=============================================================================
