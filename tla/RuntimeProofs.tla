--------------------------- MODULE RuntimeProofs ---------------------------
(***************************************************************************)
(* Proofs about what runs inside an agent's process, for any number of     *)
(* coroutines, listeners, servers, connections and events.                 *)
(***************************************************************************)
EXTENDS MCRuntime, FiniteSetTheorems, TLAPS

-----------------------------------------------------------------------------
(* Signals.                                                                *)

(* Who is registered waits or has just been woken, and no wait began after *)
(* the last signal.                                                        *)
SigInv ==
  /\ Sig!TypeOK
  /\ \A w \in pending : waiter[w] \in {"waiting", "woken"}
  /\ \A w \in Waiters \cup Requests : since[w] <= sent
  /\ Sig!SignalsAreNotStale

LEMMA SigStep == SigInv /\ OnlySig /\ Sig!Next => SigInv'
<1> SUFFICES ASSUME SigInv, Sig!Next
             PROVE  SigInv'
  OBVIOUS
<1> USE SignalsAssumption
<1>1. ASSUME NEW w \in Waiters, Sig!Wait(w)
      PROVE  SigInv'
  BY <1>1 DEF SigInv, Sig!TypeOK, Sig!SignalsAreNotStale, Sig!Wait, Sig!Register
<1>2. ASSUME NEW w \in Waiters, Sig!TimeOut(w)
      PROVE  SigInv'
  BY <1>2 DEF SigInv, Sig!TypeOK, Sig!SignalsAreNotStale, Sig!TimeOut
<1>3. ASSUME NEW w \in Waiters \cup Requests, Sig!Resume(w)
      PROVE  SigInv'
  BY <1>3 DEF SigInv, Sig!TypeOK, Sig!SignalsAreNotStale, Sig!Resume
<1>4. CASE Sig!Signal
  BY <1>4 DEF SigInv, Sig!TypeOK, Sig!SignalsAreNotStale, Sig!Signal, Sig!Wake
<1>5. CASE Sig!Cleanup
  BY <1>5 DEF SigInv, Sig!TypeOK, Sig!SignalsAreNotStale, Sig!Cleanup
<1>6. ASSUME NEW r \in Requests, Sig!RequestHumanInput(r)
      PROVE  SigInv'
  BY <1>6 DEF SigInv, Sig!TypeOK, Sig!SignalsAreNotStale, Sig!RequestHumanInput, Sig!Register
<1>7. ASSUME NEW r \in Requests, Sig!CallbackEnds(r)
      PROVE  SigInv'
  BY <1>7 DEF SigInv, Sig!TypeOK, Sig!SignalsAreNotStale, Sig!CallbackEnds, Sig!Wake,
     Sig!AnswerReaches
<1> QED BY <1>1, <1>2, <1>3, <1>4, <1>5, <1>6, <1>7 DEF Sig!Next

-----------------------------------------------------------------------------
(* Connections.                                                            *)

ConnInv ==
  /\ Conn!TypeOK
  /\ IsFiniteSet(conn)
  /\ Conn!OneConnectionPerServer

LEMMA SameCardinality == \A S : Conn!Cardinality(S) = Cardinality(S)
  BY DEF Conn!Cardinality, Cardinality

LEMMA ReplaceKeeps ==
  ASSUME ConnInv, NEW k \in conn, NEW new \in Conn!Connection, Conn!Replace(k, new),
         new.task # "gone" /\ ~new.asked =>
           k.task # "gone" /\ ~k.asked /\ new.server = k.server /\ new.id = k.id,
         current' = current
  PROVE  /\ conn' \subseteq Conn!Connection
         /\ IsFiniteSet(conn')
         /\ Conn!OneConnectionPerServer'
<1>1. IsFiniteSet(conn \ {k}) /\ IsFiniteSet((conn \ {k}) \cup {new})
  BY FS_RemoveElement, FS_AddElement DEF ConnInv
<1> QED BY <1>1 DEF ConnInv, Conn!TypeOK, Conn!Replace, Conn!OneConnectionPerServer

(* Of some of the connections, those in K, it is asked to shut down.       *)
LEMMA AskedKeeps ==
  ASSUME ConnInv, NEW K, conn' = {IF k \in K THEN Conn!Asked(k) ELSE k : k \in conn}
  PROVE  /\ conn' \subseteq Conn!Connection
         /\ IsFiniteSet(conn')
         /\ \A j \in conn' : ~j.asked => j \in conn \ K
<1>1. IsFiniteSet(conn')
  <2>1. PICK f : f = [k \in conn |-> IF k \in K THEN Conn!Asked(k) ELSE k]
    OBVIOUS
  <2>2. f \in Surjection(conn, conn')
    BY <2>1 DEF Surjection
  <2> QED BY <2>2, FS_Surjection DEF ConnInv
<1>2. conn \subseteq Conn!Connection
  BY DEF ConnInv, Conn!TypeOK
<1>3. ASSUME NEW k \in conn
      PROVE  Conn!Asked(k) \in Conn!Connection /\ Conn!Asked(k).asked
  BY <1>2 DEF Conn!Asked, Conn!Connection
<1>4. \A j \in conn' : \E k \in conn : j = IF k \in K THEN Conn!Asked(k) ELSE k
  OBVIOUS
<1> QED BY <1>1, <1>2, <1>3, <1>4

LEMMA ConnStep == ConnInv /\ OnlyConn /\ Conn!Next => ConnInv'
<1> SUFFICES ASSUME ConnInv, Conn!Next
             PROVE  ConnInv'
  OBVIOUS
<1> USE ConnectionsAssumption
<1>1. CASE Conn!Enter
  BY <1>1 DEF ConnInv, Conn!TypeOK, Conn!OneConnectionPerServer, Conn!Enter
<1>2. ASSUME NEW c \in Callers, NEW s \in Servers, Conn!GetServer(c, s)
      PROVE  ConnInv'
  <2>1. CASE UNCHANGED <<current, conn>>
    <3>1. Conn!TypeOK'
      BY <1>2, <2>1 DEF ConnInv, Conn!TypeOK, Conn!GetServer
    <3> QED BY <2>1, <3>1 DEF ConnInv, Conn!OneConnectionPerServer
  <2>2. CASE ~UNCHANGED <<current, conn>>
    <3>1. /\ current[s] = 0 /\ Cardinality(conn) < MaxConnections
          /\ caller' = [caller EXCEPT ![c] = [at |-> "wait", id |-> Conn!Fresh(s).id]]
          /\ current' = [current EXCEPT ![s] = Conn!Fresh(s).id]
          /\ conn' = conn \cup {Conn!Fresh(s)}
          /\ group' = group
      BY <1>2, <2>2, SameCardinality DEF Conn!GetServer
    <3>2. PICK k : k = Conn!Fresh(s)
      OBVIOUS
    <3>3. Cardinality(conn) \in Nat
      BY FS_CardinalityType DEF ConnInv
    <3>4. k \in Conn!Connection /\ k.server = s
      BY <3>1, <3>2, <3>3, SameCardinality DEF Conn!Fresh, Conn!Connection
    <3>5. IsFiniteSet(conn')
      BY <3>1, FS_AddElement DEF ConnInv
    <3>6. k.id \in 1..MaxConnections
      BY <3>4 DEF Conn!Connection
    <3>7. Conn!TypeOK'
      BY <3>1, <3>2, <3>4, <3>6 DEF ConnInv, Conn!TypeOK
    <3>8. \A j \in conn : j.server \in Servers /\ j.id # 0
      BY DEF ConnInv, Conn!TypeOK, Conn!Connection
    <3>9. /\ \A j \in conn' : j = k \/ j \in conn
          /\ current'[s] = k.id /\ \A z \in Servers : z # s => current'[z] = current[z]
      BY <3>1, <3>2 DEF ConnInv, Conn!TypeOK
    <3>10. Conn!OneConnectionPerServer'
      BY <3>1, <3>4, <3>8, <3>9 DEF ConnInv, Conn!OneConnectionPerServer
    <3> QED BY <3>5, <3>7, <3>10 DEF ConnInv
  <2> QED BY <2>1, <2>2
<1>3. ASSUME NEW c \in Callers, Conn!Resumes(c)
      PROVE  ConnInv'
  <2>1. UNCHANGED <<group, current, conn>>
    BY <1>3 DEF Conn!Resumes, Conn!HandOut, Conn!Interrupt
  <2>2. Conn!TypeOK'
    <3>1. CASE Conn!HandOut(c)
      BY <2>1, <3>1 DEF ConnInv, Conn!TypeOK, Conn!HandOut, Conn!Connection
    <3>2. CASE Conn!Interrupt(c)
      BY <2>1, <3>2 DEF ConnInv, Conn!TypeOK, Conn!Interrupt
    <3> QED BY <1>3, <3>1, <3>2 DEF Conn!Resumes
  <2> QED BY <2>1, <2>2 DEF ConnInv, Conn!OneConnectionPerServer
<1>4. ASSUME NEW k \in conn, Conn!Lifecycle(k) \/ Conn!LifecycleRaises(k)
      PROVE  ConnInv'
  <2>1. k \in Conn!Connection
    BY DEF ConnInv, Conn!TypeOK
  <2>2. \E new \in Conn!Connection :
          /\ Conn!Replace(k, new)
          /\ new.task # "gone" /\ ~new.asked =>
               k.task # "gone" /\ ~k.asked /\ new.server = k.server /\ new.id = k.id
    <3>1. CASE Conn!OpenSession(k)
      <4>1. PICK new : new = [k EXCEPT !.task = "session", !.session = TRUE]
        OBVIOUS
      <4>2. /\ new \in Conn!Connection /\ new.server = k.server /\ new.id = k.id
            /\ new.asked = k.asked
        BY <2>1, <4>1 DEF Conn!Connection
      <4>3. Conn!Replace(k, new) /\ k.task # "gone"
        BY <3>1, <4>1 DEF Conn!OpenSession
      <4> QED BY <4>2, <4>3
    <3>2. CASE Conn!Initialized(k)
      <4>1. PICK new : new = [k EXCEPT !.task = "up", !.ready = TRUE]
        OBVIOUS
      <4>2. /\ new \in Conn!Connection /\ new.server = k.server /\ new.id = k.id
            /\ new.asked = k.asked
        BY <2>1, <4>1 DEF Conn!Connection
      <4>3. Conn!Replace(k, new) /\ k.task # "gone"
        BY <3>2, <4>1 DEF Conn!Initialized
      <4> QED BY <4>2, <4>3
    <3>3. CASE Conn!ShutDown(k)
      BY <2>1, <3>3 DEF Conn!ShutDown, Conn!Connection
    <3>4. CASE Conn!Cancelled(k)
      BY <2>1, <3>4 DEF Conn!Cancelled, Conn!Connection
    <3>5. CASE Conn!LifecycleRaises(k)
      <4>1. PICK new : new = [k EXCEPT !.task = "gone", !.ready = TRUE, !.raised = TRUE]
        OBVIOUS
      <4>2. /\ new \in Conn!Connection /\ new.server = k.server /\ new.id = k.id
            /\ new.asked = k.asked
        BY <2>1, <4>1 DEF Conn!Connection
      <4>3. Conn!Replace(k, new) /\ k.task # "gone"
        BY <3>5, <4>1 DEF Conn!LifecycleRaises
      <4> QED BY <4>2, <4>3
    <3> QED BY <1>4, <3>1, <3>2, <3>3, <3>4, <3>5 DEF Conn!Lifecycle
  <2>3. current' = current /\ caller' = caller /\ group' \in {group, "cancelled"}
    BY <1>4 DEF Conn!Lifecycle, Conn!LifecycleRaises, Conn!OpenSession, Conn!Initialized,
       Conn!ShutDown, Conn!Cancelled
  <2>4. /\ conn' \subseteq Conn!Connection
        /\ IsFiniteSet(conn')
        /\ Conn!OneConnectionPerServer'
    BY <2>2, <2>3, ReplaceKeeps
  <2> QED BY <2>3, <2>4 DEF ConnInv, Conn!TypeOK
<1>5. ASSUME NEW s \in Servers, Conn!Disconnect(s)
      PROVE  ConnInv'
  <2>1. /\ current' = [current EXCEPT ![s] = 0] /\ group' = group /\ caller' = caller
        /\ conn' = {IF k.id = current[s] THEN Conn!Asked(k) ELSE k : k \in conn}
    BY <1>5 DEF Conn!Disconnect
  <2>2. PICK K : K = {k \in conn : k.id = current[s]}
    OBVIOUS
  <2>3. conn' = {IF k \in K THEN Conn!Asked(k) ELSE k : k \in conn}
    BY <2>1, <2>2
  <2>4. /\ conn' \subseteq Conn!Connection /\ IsFiniteSet(conn')
        /\ \A j \in conn' : ~j.asked => j \in conn \ K
    BY <2>3, AskedKeeps
  <2>5. Conn!TypeOK'
    BY <2>1, <2>4 DEF ConnInv, Conn!TypeOK
  <2>6. Conn!OneConnectionPerServer'
    BY <2>1, <2>2, <2>4 DEF ConnInv, Conn!TypeOK, Conn!Connection, Conn!OneConnectionPerServer
  <2> QED BY <2>4, <2>5, <2>6 DEF ConnInv
<1>6. CASE Conn!Close
  <2>1. /\ current' = [s \in Servers |-> 0] /\ group' = "exiting" /\ caller' = caller
        /\ conn' = {IF k.id = current[k.server] THEN Conn!Asked(k) ELSE k : k \in conn}
    BY <1>6 DEF Conn!Close
  <2>2. PICK K : K = {k \in conn : k.id = current[k.server]}
    OBVIOUS
  <2>3. conn' = {IF k \in K THEN Conn!Asked(k) ELSE k : k \in conn}
    BY <2>1, <2>2
  <2>4. /\ conn' \subseteq Conn!Connection /\ IsFiniteSet(conn')
        /\ \A j \in conn' : ~j.asked => j \in conn \ K
    BY <2>3, AskedKeeps
  <2>5. Conn!TypeOK'
    BY <2>1, <2>4 DEF ConnInv, Conn!TypeOK
  <2>6. Conn!OneConnectionPerServer'
    BY <2>2, <2>4 DEF ConnInv, Conn!OneConnectionPerServer
  <2> QED BY <2>4, <2>5, <2>6 DEF ConnInv
<1>7. CASE Conn!Leave
  BY <1>7 DEF ConnInv, Conn!TypeOK, Conn!OneConnectionPerServer, Conn!Leave
<1> QED BY <1>1, <1>2, <1>3, <1>4, <1>5, <1>6, <1>7 DEF Conn!Next

-----------------------------------------------------------------------------
(* The wrapper of an agent.                                                *)

Stoppers == {"user", "beat"}
Stage == {"no", "hub", "await", "closing"} \cup Life!Over

Wrapper ==
  [kind : Kinds,
   init : {"no", "start", "prepare", "hub", "load"} \cup Life!Over,
   runtime : {"made", "running", "stopping", "half", "stopped"},
   held : BOOLEAN, alive : BOOLEAN, initialized : BOOLEAN,
   hub : {"none", "running", "stopped"},
   beat : {"none", "ready", "sending", "sleeping", "stopping", "ended", "died"},
   kept : BOOLEAN, failures : 0..MaxFailures + 1, again : BOOLEAN,
   stop : [{"user", "beat"} -> {"no", "hub", "await", "closing"} \cup Life!Over]]

Starting(a) ==
  /\ a.init \in {"no", "start"} => a.runtime = "made"
  /\ a.init \in {"prepare", "hub", "load"} => a.runtime = "running"
  /\ a.init = "done" => a.runtime # "made"
  /\ a.init \notin Life!Over => a.stop["user"] = "no" /\ a.alive
  /\ a.init \in {"no", "start", "prepare", "load"} => a.beat = "none"
  /\ a.init = "prepare" => a.kind # "sse"
  /\ a.init = "hub" =>
       /\ a.beat \in IF a.kind = "tool" THEN {"ready", "sending", "sleeping"} ELSE {"none"}
       /\ a.failures = 0 \/ (a.beat = "sleeping" /\ a.failures = 1)
  /\ a.init = "load" => a.kind = "full"
  /\ a.init # "no" /\ ~a.held => a.init \in Life!Over
  /\ ~a.held => a.runtime = IF a.kind = "full" THEN "stopped" ELSE "made"
  /\ a.kind = "full" => (a.runtime = "stopped" => ~a.held)

Beating(a) ==
  /\ a.beat = "none" => a.stop["beat"] = "no" /\ ~a.kept /\ a.failures = 0
  /\ a.beat # "none" => a.runtime # "made" /\ a.kind # "sse"
  /\ a.beat \in {"ready", "sending", "sleeping"} =>
       /\ a.alive /\ a.kept /\ a.failures < MaxFailures
       /\ a.stop["beat"] = "no" /\ a.runtime = "running"
       /\ a.stop["user"] \in IF a.kind = "full" THEN {"no", "hub"} ELSE {"no"}
  /\ a.beat = "stopping" /\ a.again => a.failures <= MaxFailures
  /\ a.stop["beat"] \in {"hub", "await", "closing"} => a.beat = "stopping"

Closing(a) ==
  /\ a.stop["user"] = "closing" \/ a.stop["beat"] = "closing" <=> a.runtime = "stopping"
  /\ ~(a.stop["user"] = "closing" /\ a.stop["beat"] = "closing")
  /\ a.stop["user"] = "closing" => a.beat \in {"none", "ended"}
  /\ a.kind # "full" /\ a.runtime \notin {"made", "running"} => a.hub = "stopped"

FullStops(a) ==
  a.kind = "full" =>
    /\ a.kept => a.runtime = "running" /\ a.alive
    /\ a.beat # "none" /\ ~a.kept => a.runtime \in {"stopping", "stopped"}
    /\ a.beat # "died" /\ a.runtime # "half"
    /\ a.beat = "stopping" =>
         a.stop["beat"] \in IF a.kept THEN {"no", "hub", "await"} ELSE {"closing", "done"}
    /\ a.stop["user"] = "await" =>
         a.beat = "ended"
           \/ (a.beat = "stopping" /\ a.stop["beat"] \in {"await", "closing", "done"})

ToolStops(a) ==
  a.kind = "tool" =>
    /\ a.kept <=> a.beat # "none"
    /\ ~a.alive \/ (a.stop["user"] = "no" /\ a.stop["beat"] = "no")
    /\ a.stop["user"] \in {"hub", "closing", "done"} => a.beat \in {"none", "ended"}
    /\ a.stop["user"] = "await" => a.beat # "none"

Stopped(a) ==
  \A p \in {"user", "beat"} : a.stop[p] = "done" =>
    /\ a.runtime \in {"made", "stopped"}
    /\ a.beat \in {"none", "ended", "stopping"}
    /\ a.kind # "full" /\ a.runtime = "stopped" => a.hub = "stopped"

Lives(a) ==
  /\ a \in Wrapper
  /\ Starting(a) /\ Beating(a) /\ Closing(a) /\ FullStops(a) /\ ToolStops(a) /\ Stopped(a)

(* The fields of b, the two calls of stop taken apart. *)
Has(b, kind, init, runtime, held, alive, initialized, hub, beat, kept,
    failures, again, user, own) ==
  /\ b \in Wrapper
  /\ b.kind = kind /\ b.init = init /\ b.runtime = runtime /\ b.held = held
  /\ b.alive = alive /\ b.initialized = initialized /\ b.hub = hub /\ b.beat = beat
  /\ b.kept = kept /\ b.failures = failures /\ b.again = again
  /\ b.stop["user"] = user /\ b.stop["beat"] = own

(* Of a, b has changed at most the calls of stop. *)
Called(b, a, user, own) ==
  Has(b, a.kind, a.init, a.runtime, a.held, a.alive, a.initialized, a.hub,
      a.beat, a.kept, a.failures, a.again, user, own)

LEMMA AtUser ==
  ASSUME NEW a \in Wrapper, NEW where \in Stage
  PROVE  Called(Life!At(a, "user", where), a, where, a.stop["beat"])
<1> DEFINE s == [a.stop EXCEPT !["user"] = where]
<1>1. /\ s \in [Stoppers -> Stage]
      /\ s["user"] = where /\ s["beat"] = a.stop["beat"]
  BY DEF Wrapper, Stoppers, Stage
<1>2. Life!At(a, "user", where) = [a EXCEPT !.stop = s]
  BY DEF Life!At, Wrapper
<1> HIDE DEF s
<1> QED BY <1>1, <1>2 DEF Called, Has, Wrapper, Stoppers, Stage

LEMMA AtBeat ==
  ASSUME NEW a \in Wrapper, NEW where \in Stage
  PROVE  Called(Life!At(a, "beat", where), a, a.stop["user"], where)
<1> DEFINE s == [a.stop EXCEPT !["beat"] = where]
<1>1. /\ s \in [Stoppers -> Stage]
      /\ s["beat"] = where /\ s["user"] = a.stop["user"]
  BY DEF Wrapper, Stoppers, Stage
<1>2. Life!At(a, "beat", where) = [a EXCEPT !.stop = s]
  BY DEF Life!At, Wrapper
<1> HIDE DEF s
<1> QED BY <1>1, <1>2 DEF Called, Has, Wrapper, Stoppers, Stage

Shut(a) == IF a.kind = "full" THEN FALSE ELSE a.alive
Unready(a) == IF a.kind = "full" THEN FALSE ELSE a.initialized
Ends(a) == IF ~a.held THEN "done" ELSE IF a.runtime = "running" THEN "closing" ELSE "raised"
Down(a) == IF a.held /\ a.runtime = "running" THEN "stopping" ELSE a.runtime

LEMMA CloseUser ==
  ASSUME NEW a \in Wrapper
  PROVE  Has(Life!CloseRuntime(a, "user"), a.kind, a.init, Down(a), a.held, Shut(a),
             Unready(a), a.hub, a.beat, a.kept, a.failures, a.again, Ends(a), a.stop["beat"])
<1>1. PICK b :
        /\ b = IF a.kind = "full" THEN [a EXCEPT !.alive = FALSE, !.initialized = FALSE] ELSE a
        /\ Has(b, a.kind, a.init, a.runtime, a.held, Shut(a), Unready(a), a.hub,
               a.beat, a.kept, a.failures, a.again, a.stop["user"], a.stop["beat"])
  <2>1. CASE a.kind = "full"
    <3>1. Has([a EXCEPT !.alive = FALSE, !.initialized = FALSE], a.kind, a.init,
              a.runtime, a.held, FALSE, FALSE, a.hub, a.beat, a.kept,
              a.failures, a.again, a.stop["user"], a.stop["beat"])
      BY DEF Has, Wrapper
    <3> QED BY <3>1, <2>1 DEF Shut, Unready
  <2>2. CASE a.kind # "full"
    <3>1. Called(a, a, a.stop["user"], a.stop["beat"])
      BY DEF Called, Has
    <3> QED BY <3>1, <2>2 DEF Shut, Unready, Called
  <2> QED BY <2>1, <2>2
<1>2. b \in Wrapper
  BY <1>1 DEF Has
<1>3. ASSUME NEW where \in Stage
      PROVE  Called(Life!At(b, "user", where), b, where, b.stop["beat"])
  BY <1>2, AtUser
<1>4. b.held = a.held /\ b.runtime = a.runtime
  BY <1>1 DEF Has
<1>5. CASE ~a.held
  <2>1. Life!CloseRuntime(a, "user") = Life!At(b, "user", "done")
    BY <1>1, <1>5, <1>4 DEF Life!CloseRuntime
  <2>2. Called(Life!At(b, "user", "done"), b, "done", b.stop["beat"])
    BY <1>3 DEF Stage, Life!Over
  <2> QED BY <2>1, <2>2, <1>1, <1>5 DEF Called, Has, Ends, Down
<1>6. CASE a.held /\ a.runtime # "running"
  <2>1. Life!CloseRuntime(a, "user") = Life!At(b, "user", "raised")
    BY <1>1, <1>6, <1>4 DEF Life!CloseRuntime
  <2>2. Called(Life!At(b, "user", "raised"), b, "raised", b.stop["beat"])
    BY <1>3 DEF Stage, Life!Over
  <2> QED BY <2>1, <2>2, <1>1, <1>6 DEF Called, Has, Ends, Down
<1>7. CASE a.held /\ a.runtime = "running"
  <2>1. PICK c : c = Life!At(b, "user", "closing") /\ Called(c, b, "closing", b.stop["beat"])
    BY <1>3 DEF Stage
  <2>2. Life!CloseRuntime(a, "user") = [c EXCEPT !.runtime = "stopping"]
    BY <1>1, <1>7, <1>4, <2>1 DEF Life!CloseRuntime
  <2>3. c \in Wrapper /\ Called(c, b, "closing", b.stop["beat"])
    BY <2>1 DEF Called, Has
  <2>4. Has([c EXCEPT !.runtime = "stopping"], c.kind, c.init, "stopping", c.held,
            c.alive, c.initialized, c.hub, c.beat, c.kept, c.failures, c.again,
            c.stop["user"], c.stop["beat"])
    BY <2>3 DEF Has, Wrapper
  <2>5. Has(b, a.kind, a.init, a.runtime, a.held, Shut(a), Unready(a), a.hub,
               a.beat, a.kept, a.failures, a.again, a.stop["user"], a.stop["beat"])
    BY <1>1
  <2>6. PICK d : /\ Life!CloseRuntime(a, "user") = d
                 /\ Has(d, c.kind, c.init, "stopping", c.held,
                        c.alive, c.initialized, c.hub, c.beat, c.kept, c.failures, c.again,
                        c.stop["user"], c.stop["beat"])
    BY <2>2, <2>4
  <2>7. "stopping" = Down(a) /\ "closing" = Ends(a)
    BY <1>7 DEF Down, Ends
  <2>8. Has(d, a.kind, a.init, Down(a), a.held, Shut(a),
             Unready(a), a.hub, a.beat, a.kept, a.failures, a.again, Ends(a), a.stop["beat"])
    BY <2>3, <2>5, <2>6, <2>7 DEF Called, Has
  <2> QED BY <2>6, <2>8
<1> QED BY <1>5, <1>6, <1>7

LEMMA CloseBeat ==
  ASSUME NEW a \in Wrapper
  PROVE  Has(Life!CloseRuntime(a, "beat"), a.kind, a.init, Down(a), a.held, Shut(a),
             Unready(a), a.hub, a.beat, a.kept, a.failures, a.again, a.stop["user"], Ends(a))
<1>1. PICK b :
        /\ b = IF a.kind = "full" THEN [a EXCEPT !.alive = FALSE, !.initialized = FALSE] ELSE a
        /\ Has(b, a.kind, a.init, a.runtime, a.held, Shut(a), Unready(a), a.hub,
               a.beat, a.kept, a.failures, a.again, a.stop["user"], a.stop["beat"])
  <2>1. CASE a.kind = "full"
    <3>1. Has([a EXCEPT !.alive = FALSE, !.initialized = FALSE], a.kind, a.init,
              a.runtime, a.held, FALSE, FALSE, a.hub, a.beat, a.kept,
              a.failures, a.again, a.stop["user"], a.stop["beat"])
      BY DEF Has, Wrapper
    <3> QED BY <3>1, <2>1 DEF Shut, Unready
  <2>2. CASE a.kind # "full"
    <3>1. Called(a, a, a.stop["user"], a.stop["beat"])
      BY DEF Called, Has
    <3> QED BY <3>1, <2>2 DEF Shut, Unready, Called
  <2> QED BY <2>1, <2>2
<1>2. b \in Wrapper
  BY <1>1 DEF Has
<1>3. ASSUME NEW where \in Stage
      PROVE  Called(Life!At(b, "beat", where), b, b.stop["user"], where)
  BY <1>2, AtBeat
<1>4. b.held = a.held /\ b.runtime = a.runtime
  BY <1>1 DEF Has
<1>5. CASE ~a.held
  <2>1. Life!CloseRuntime(a, "beat") = Life!At(b, "beat", "done")
    BY <1>1, <1>5, <1>4 DEF Life!CloseRuntime
  <2>2. Called(Life!At(b, "beat", "done"), b, b.stop["user"], "done")
    BY <1>3 DEF Stage, Life!Over
  <2> QED BY <2>1, <2>2, <1>1, <1>5 DEF Called, Has, Ends, Down
<1>6. CASE a.held /\ a.runtime # "running"
  <2>1. Life!CloseRuntime(a, "beat") = Life!At(b, "beat", "raised")
    BY <1>1, <1>6, <1>4 DEF Life!CloseRuntime
  <2>2. Called(Life!At(b, "beat", "raised"), b, b.stop["user"], "raised")
    BY <1>3 DEF Stage, Life!Over
  <2> QED BY <2>1, <2>2, <1>1, <1>6 DEF Called, Has, Ends, Down
<1>7. CASE a.held /\ a.runtime = "running"
  <2>1. PICK c : c = Life!At(b, "beat", "closing") /\ Called(c, b, b.stop["user"], "closing")
    BY <1>3 DEF Stage
  <2>2. Life!CloseRuntime(a, "beat") = [c EXCEPT !.runtime = "stopping"]
    BY <1>1, <1>7, <1>4, <2>1 DEF Life!CloseRuntime
  <2>3. c \in Wrapper /\ Called(c, b, b.stop["user"], "closing")
    BY <2>1 DEF Called, Has
  <2>4. Has([c EXCEPT !.runtime = "stopping"], c.kind, c.init, "stopping", c.held,
            c.alive, c.initialized, c.hub, c.beat, c.kept, c.failures, c.again,
            c.stop["user"], c.stop["beat"])
    BY <2>3 DEF Has, Wrapper
  <2>5. Has(b, a.kind, a.init, a.runtime, a.held, Shut(a), Unready(a), a.hub,
               a.beat, a.kept, a.failures, a.again, a.stop["user"], a.stop["beat"])
    BY <1>1
  <2>6. PICK d : /\ Life!CloseRuntime(a, "beat") = d
                 /\ Has(d, c.kind, c.init, "stopping", c.held,
                        c.alive, c.initialized, c.hub, c.beat, c.kept, c.failures, c.again,
                        c.stop["user"], c.stop["beat"])
    BY <2>2, <2>4
  <2>7. "stopping" = Down(a) /\ "closing" = Ends(a)
    BY <1>7 DEF Down, Ends
  <2>8. Has(d, a.kind, a.init, Down(a), a.held, Shut(a),
             Unready(a), a.hub, a.beat, a.kept, a.failures, a.again, a.stop["user"], Ends(a))
    BY <2>3, <2>5, <2>6, <2>7 DEF Called, Has
  <2> QED BY <2>6, <2>8
<1> QED BY <1>5, <1>6, <1>7

LEMMA Cancel ==
  ASSUME NEW a \in Wrapper, NEW cutOff \in BOOLEAN,
         a.beat \notin {"ended", "died"}, a.stop["beat"] # "await",
         a.stop["beat"] # "closing" \/ cutOff
  PROVE  Has(Life!CancelBeat(a, cutOff), a.kind, a.init, 
             IF a.stop["beat"] = "closing" THEN "half" ELSE a.runtime, a.held, a.alive,
             a.initialized, a.hub, "ended", a.kept, a.failures, a.again,
             a.stop["user"], IF a.beat = "stopping" THEN "raised" ELSE a.stop["beat"])
<1> DEFINE own == IF a.beat = "stopping" THEN "raised" ELSE a.stop["beat"]
           run == IF a.stop["beat"] = "closing" THEN "half" ELSE a.runtime
<1>1. own \in Stage
  BY DEF Wrapper, Stage, Life!Over
<1>6. run \in {"made", "running", "stopping", "half", "stopped"}
  BY DEF Wrapper
<1> DEFINE s == [a.stop EXCEPT !["beat"] = own]
<1>3. Life!CancelBeat(a, cutOff) = [a EXCEPT !.beat = "ended", !.runtime = run, !.stop = s]
  BY DEF Life!CancelBeat, Wrapper
<1> HIDE DEF own, run
<1>4. /\ s \in [Stoppers -> Stage]
      /\ s["beat"] = own /\ s["user"] = a.stop["user"]
  BY <1>1 DEF Wrapper, Stoppers, Stage
<1> HIDE DEF s
<1>5. Has([a EXCEPT !.beat = "ended", !.runtime = run, !.stop = s], a.kind, a.init, run, a.held, a.alive,
             a.initialized, a.hub, "ended", a.kept, a.failures, a.again,
             a.stop["user"], own)
   BY <1>4, <1>6 DEF Has, Wrapper, Stoppers, Stage
<1> QED BY <1>3, <1>5 DEF own, run

LEMMA WrapperFields ==
  ASSUME NEW a \in Wrapper
  PROVE  /\ a.kind \in {"full", "tool", "sse"}
         /\ a.init \in {"no", "start", "prepare", "hub", "load", "done", "raised"}
         /\ a.runtime \in {"made", "running", "stopping", "half", "stopped"}
         /\ a.held \in BOOLEAN /\ a.alive \in BOOLEAN /\ a.initialized \in BOOLEAN
         /\ a.kept \in BOOLEAN
         /\ a.beat \in {"none", "ready", "sending", "sleeping", "stopping", "ended", "died"}
         /\ a.stop["user"] \in {"no", "hub", "await", "closing", "done", "raised"}
         /\ a.stop["beat"] \in {"no", "hub", "await", "closing", "done", "raised"}
  BY LifeAssumption DEF Wrapper, Life!Over

(* The user's stop waits for the heartbeat, which it cancels.              *)
LEMMA UserAwaits ==
  ASSUME NEW a, Lives(a), NEW cutOff \in BOOLEAN, NEW r, NEW x, NEW h,
         Has(r, a.kind, a.init, a.runtime, a.held, x, a.initialized, h, a.beat,
             a.kept, a.failures, a.again, a.stop["user"], a.stop["beat"]),
         h \in {a.hub, "stopped"}, a.init \in Life!Over, a.kept,
         \/ a.kind = "full" /\ x = a.alive /\ a.stop["user"] \in {"no", "hub"}
         \/ a.kind = "tool" /\ x = FALSE /\ a.stop["user"] = "no"
  PROVE  Lives(Life!AwaitBeat(r, "user", cutOff))
<1> USE LifeAssumption
<1>1. r \in Wrapper /\ a \in Wrapper
  BY DEF Has, Lives
<1>2. PICK c : c = Life!CancelBeat(r, cutOff)
  OBVIOUS
<1>3. Life!AwaitBeat(r, "user", cutOff) = Life!At(c, "user", "await")
  BY <1>2 DEF Life!AwaitBeat
<1>4. CASE r.beat \in {"ended", "died"} \/ r.stop["beat"] = "await"
             \/ (r.stop["beat"] = "closing" /\ ~cutOff)
  <2>1. c = r
    BY <1>2, <1>4 DEF Life!CancelBeat
  <2>2. PICK d : d = Life!At(r, "user", "await") /\ Called(d, r, "await", r.stop["beat"])
    BY <1>1, AtUser DEF Stage
  <2>3. Called(d, r, "await", r.stop["beat"])
    BY <2>2
  <2>4. Lives(d)
    BY <2>3, <1>4, WrapperFields, <1>1 DEF Called, Has, Lives, Starting, Beating, Closing,
         FullStops, ToolStops, Stopped, Life!Over
  <2> QED BY <1>3, <2>1, <2>2, <2>4
<1>5. CASE ~(r.beat \in {"ended", "died"} \/ r.stop["beat"] = "await"
             \/ (r.stop["beat"] = "closing" /\ ~cutOff))
  <2>1. Has(c, r.kind, r.init, IF r.stop["beat"] = "closing" THEN "half" ELSE r.runtime,
            r.held, r.alive, r.initialized, r.hub, "ended", r.kept, r.failures, r.again,
            r.stop["user"], IF r.beat = "stopping" THEN "raised" ELSE r.stop["beat"])
    BY <1>1, <1>2, <1>5, Cancel
  <2>2. c \in Wrapper
    BY <2>1 DEF Has
  <2>3. PICK d : d = Life!At(c, "user", "await") /\ Called(d, c, "await", c.stop["beat"])
    BY <2>2, AtUser DEF Stage
  <2>4. Called(d, c, "await", c.stop["beat"])
    BY <2>3
  <2>5. Lives(d)
    BY <2>1, <2>4, <1>5, WrapperFields, <1>1 DEF Called, Has, Lives, Starting, Beating, Closing,
         FullStops, ToolStops, Stopped, Life!Over
  <2> QED BY <1>3, <2>3, <2>5
<1> QED BY <1>4, <1>5

(* The user's stop goes on to the runtime.                                 *)
LEMMA UserCloses ==
  ASSUME NEW a, Lives(a), NEW r, NEW k, NEW h,
         Has(r, a.kind, a.init, a.runtime, a.held, a.alive, a.initialized, h, a.beat,
             k, a.failures, a.again, a.stop["user"], a.stop["beat"]),
         h \in {a.hub, "stopped"}, a.init \in Life!Over,
         \/ a.kind = "full" /\ ~a.kept /\ k = a.kept /\ a.stop["user"] \in {"no", "hub"}
         \/ a.kind = "full" /\ ~k /\ a.stop["user"] = "await" /\ a.beat = "ended"
         \/ a.kind # "full" /\ k = a.kept /\ h = "stopped" /\ a.stop["user"] = "hub"
  PROVE  Lives(Life!CloseRuntime(r, "user"))
<1> USE LifeAssumption
<1>1. r \in Wrapper /\ a \in Wrapper
  BY DEF Has, Lives
<1>2. PICK d : 
        /\ d = Life!CloseRuntime(r, "user")
        /\ Has(d, r.kind, r.init, Down(r), r.held, Shut(r), Unready(r), r.hub, r.beat,
               r.kept, r.failures, r.again, Ends(r), r.stop["beat"])
  BY <1>1, CloseUser
<1>3. Has(d, r.kind, r.init, Down(r), r.held, Shut(r), Unready(r), r.hub, r.beat,
          r.kept, r.failures, r.again, Ends(r), r.stop["beat"])
  BY <1>2
<1>4. Lives(d)
  BY <1>3, WrapperFields, <1>1 DEF Down, Shut, Unready, Ends, Has, Lives, Starting, Beating,
       Closing, FullStops, ToolStops, Stopped, Life!Over
<1> QED BY <1>2, <1>4

(* The heartbeat's own stop goes on to the runtime.                        *)
LEMMA BeatCloses ==
  ASSUME NEW a, Lives(a), NEW r, NEW k, NEW h,
         Has(r, a.kind, a.init, a.runtime, a.held, a.alive, a.initialized, h, a.beat,
             k, a.failures, a.again, a.stop["user"], a.stop["beat"]),
         h \in {a.hub, "stopped"}, a.beat = "stopping",
         \/ a.kind = "full" /\ ~a.kept /\ k = a.kept /\ a.stop["beat"] \in {"no", "hub"}
         \/ a.kind = "full" /\ ~k /\ a.stop["beat"] = "await"
         \/ a.kind # "full" /\ k = a.kept /\ h = "stopped" /\ a.stop["beat"] = "hub"
  PROVE  Lives(Life!CloseRuntime(r, "beat"))
<1> USE LifeAssumption
<1>1. r \in Wrapper /\ a \in Wrapper
  BY DEF Has, Lives
<1>2. PICK d : 
        /\ d = Life!CloseRuntime(r, "beat")
        /\ Has(d, r.kind, r.init, Down(r), r.held, Shut(r), Unready(r), r.hub, r.beat,
               r.kept, r.failures, r.again, r.stop["user"], Ends(r))
  BY <1>1, CloseBeat
<1>3. Has(d, r.kind, r.init, Down(r), r.held, Shut(r), Unready(r), r.hub, r.beat,
          r.kept, r.failures, r.again, r.stop["user"], Ends(r))
  BY <1>2
<1>4. CASE a.kind = "full" /\ ~a.kept /\ k = a.kept /\ a.stop["beat"] \in {"no", "hub"}
  BY <1>4, <1>1, WrapperFields DEF Lives, FullStops
<1>5. CASE a.kind = "full" /\ ~k /\ a.stop["beat"] = "await"
  <2>1. a.kept /\ a.runtime = "running" /\ a.held
    BY <1>1, <1>5, WrapperFields DEF Lives, FullStops, Starting
  <2>3. Has(d, a.kind, a.init, "stopping", TRUE, FALSE, FALSE, h, "stopping", FALSE,
            a.failures, a.again, a.stop["user"], "closing")
    BY <1>3, <1>5, <2>1 DEF Has, Down, Shut, Unready, Ends
  <2>2. Lives(d)
    BY <2>3, <1>1, <1>5, <2>1, WrapperFields DEF Has, Lives, Starting, Beating, Closing,
         FullStops, ToolStops, Stopped, Life!Over
  <2> QED BY <1>2, <2>2
<1>6. CASE a.kind # "full" /\ k = a.kept /\ h = "stopped" /\ a.stop["beat"] = "hub"
  <2>2. Lives(d)
    BY <1>3, <1>1, <1>6, WrapperFields DEF Down, Shut, Unready, Ends, Has, Lives, Starting,
       Beating, Closing, FullStops, ToolStops, Stopped, Life!Over
  <2> QED BY <1>2, <2>2
<1> QED BY <1>4, <1>5, <1>6

(* The user's stop goes to where and nothing else happens; the tool        *)
(* wrapper has called the heartbeat off.                                   *)
LEMMA UserGoes ==
  ASSUME NEW a, Lives(a), NEW r, NEW x, NEW where \in {"hub", "done", "raised"},
         Has(r, a.kind, a.init, a.runtime, a.held, x, a.initialized, a.hub, a.beat,
             a.kept, a.failures, a.again, a.stop["user"], a.stop["beat"]),
         a.init \in Life!Over,
         \/ where = "hub" /\ a.runtime = "running" /\ a.held
         \/ where = "done" /\ ~a.held
         \/ where = "raised",
         \/ a.kind = "sse" /\ x = a.alive /\ a.stop["user"] \in {"no", "hub"}
         \/ a.kind = "full" /\ x = a.alive /\ a.stop["user"] = "no" /\ where = "hub"
         \/ a.kind = "tool" /\ x = FALSE /\ a.beat \in {"none", "ended", "died"}
              /\ a.stop["user"] \in {"no", "hub", "await"}
              /\ (where # "raised" => a.beat # "died")
  PROVE  Lives(Life!At(r, "user", where))
<1> USE LifeAssumption
<1>1. r \in Wrapper /\ a \in Wrapper
  BY DEF Has, Lives
<1>2. PICK d : d = Life!At(r, "user", where) /\ Called(d, r, where, r.stop["beat"])
  BY <1>1, AtUser DEF Stage, Life!Over
<1>3. Called(d, r, where, r.stop["beat"])
  BY <1>2
<1>4. Lives(d)
  BY <1>3, <1>1, WrapperFields DEF Called, Has, Lives, Starting, Beating, Closing,
       FullStops, ToolStops, Stopped, Life!Over
<1> QED BY <1>2, <1>4

LEMMA BeatGoes ==
  ASSUME NEW a, Lives(a), NEW r, NEW x, NEW h, NEW where \in {"hub", "await", "done", "raised"},
         Has(r, a.kind, a.init, a.runtime, a.held, x, a.initialized, h, a.beat,
             a.kept, a.failures, a.again, a.stop["user"], a.stop["beat"]),
         h \in {a.hub, "stopped"}, a.beat = "stopping", a.init \in Life!Over,
         \/ where = "hub" /\ a.runtime = "running" /\ a.held
         \/ where = "done" /\ ~a.held
         \/ where \in {"await", "raised"},
         \/ a.kind = "full" /\ x = a.alive /\ a.stop["beat"] \in {"no", "hub"}
              /\ where \in {"hub", "await"} /\ a.kept
         \/ a.kind = "tool" /\ x = FALSE /\ where = "await" /\ a.stop["beat"] = "no"
         \/ a.kind = "tool" /\ x = FALSE /\ a.stop["beat"] \in {"await", "hub"}
              /\ where # "await"
  PROVE  Lives(Life!At(r, "beat", where))
<1> USE LifeAssumption
<1>1. r \in Wrapper /\ a \in Wrapper
  BY DEF Has, Lives
<1>2. PICK d : d = Life!At(r, "beat", where) /\ Called(d, r, r.stop["user"], where)
  BY <1>1, AtBeat DEF Stage, Life!Over
<1>3. Called(d, r, r.stop["user"], where)
  BY <1>2
<1>4. Lives(d)
  BY <1>3, <1>1, WrapperFields DEF Called, Has, Lives, Starting, Beating, Closing,
       FullStops, ToolStops, Stopped, Life!Over
<1> QED BY <1>2, <1>4

(* What a record has, with a field or two changed, is plain.               *)
LEMMA Itself ==
  ASSUME NEW a \in Wrapper
  PROVE  Has(a, a.kind, a.init, a.runtime, a.held, a.alive, a.initialized, a.hub, a.beat,
             a.kept, a.failures, a.again, a.stop["user"], a.stop["beat"])
  BY DEF Has

LEMMA CalledOff ==
  ASSUME NEW a \in Wrapper
  PROVE  Has([a EXCEPT !.alive = FALSE], a.kind, a.init, a.runtime, a.held, FALSE,
             a.initialized, a.hub, a.beat, a.kept, a.failures, a.again,
             a.stop["user"], a.stop["beat"])
  BY DEF Has, Wrapper

LEMMA Told ==
  ASSUME NEW a \in Wrapper
  PROVE  Has([a EXCEPT !.hub = "stopped"], a.kind, a.init, a.runtime, a.held, a.alive,
             a.initialized, "stopped", a.beat, a.kept, a.failures, a.again,
             a.stop["user"], a.stop["beat"])
  BY DEF Has, Wrapper

LEMMA LetGo ==
  ASSUME NEW a \in Wrapper
  PROVE  Has([a EXCEPT !.kept = FALSE], a.kind, a.init, a.runtime, a.held, a.alive,
             a.initialized, a.hub, a.beat, FALSE, a.failures, a.again,
             a.stop["user"], a.stop["beat"])
  BY DEF Has, Wrapper

LEMMA UserStops ==
  ASSUME Lives(agent), Life!Stop("user")
  PROVE  Lives(agent')
<1>1. agent \in Wrapper
  BY DEF Lives
<1>2. agent.stop["user"] = "no" /\ agent.init \in Life!Over
  BY DEF Life!Stop
<1>3. PICK cutOff \in BOOLEAN :
        agent' = IF agent.kind # "tool" THEN Life!TellHub(agent, "user", cutOff)
                 ELSE LET r == [agent EXCEPT !.alive = FALSE] IN
                      IF r.kept THEN Life!AwaitBeat(r, "user", cutOff)
                      ELSE Life!TellHub(r, "user", cutOff)
  BY DEF Life!Stop
<1>4. CASE agent.kind = "sse"
  <2>1. PICK where \in {"hub", "done", "raised"} :
          /\ agent' = Life!At(agent, "user", where)
          /\ \/ where = "hub" /\ agent.runtime = "running" /\ agent.held
             \/ where = "done" /\ ~agent.held
             \/ where = "raised"
    BY <1>3, <1>4 DEF Life!TellHub, Life!HubFails
  <2>2. Lives(Life!At(agent, "user", where))
    BY <1>1, <1>2, <1>4, <2>1, Itself, UserGoes
  <2> QED BY <2>1, <2>2
<1>5. CASE agent.kind = "full"
  <2>1. agent' = Life!TellHub(agent, "user", cutOff)
    BY <1>3, <1>5
  <2>2. agent.kept => agent.runtime = "running" /\ agent.held
    BY <1>1, <1>5, WrapperFields DEF Lives, Starting, FullStops
  <2>3. CASE agent.initialized /\ agent.held /\ agent.runtime = "running"
    <3>1. agent' = Life!At(agent, "user", "hub")
      BY <1>5, <2>1, <2>3 DEF Life!TellHub
    <3> QED BY <1>1, <1>2, <1>5, <2>3, <3>1, Itself, UserGoes
  <2>4. CASE ~(agent.initialized /\ agent.held /\ agent.runtime = "running")
    <3>1. agent' = Life!AwaitIfKept(agent, "user", cutOff)
      BY <1>1, <1>5, <2>1, <2>4, WrapperFields DEF Life!TellHub, Life!HubFails
    <3>2. CASE agent.kept
      BY <1>1, <1>2, <1>5, <3>1, <3>2, Itself, UserAwaits DEF Life!AwaitIfKept
    <3>3. CASE ~agent.kept
      BY <1>1, <1>2, <1>5, <3>1, <3>3, Itself, UserCloses DEF Life!AwaitIfKept
    <3> QED BY <3>2, <3>3
  <2> QED BY <2>3, <2>4
<1>6. CASE agent.kind = "tool"
  <2>1. PICK r : r = [agent EXCEPT !.alive = FALSE]
    OBVIOUS
  <2>2. Has(r, agent.kind, agent.init, agent.runtime, agent.held, FALSE,
            agent.initialized, agent.hub, agent.beat, agent.kept, agent.failures,
            agent.again, agent.stop["user"], agent.stop["beat"])
    BY <1>1, <2>1, CalledOff
  <2>3. CASE agent.kept
    <3>1. agent' = Life!AwaitBeat(r, "user", cutOff)
      BY <1>1, <1>3, <1>6, <2>1, <2>3 DEF Wrapper
    <3> QED BY <1>2, <1>6, <2>2, <2>3, <3>1, UserAwaits
  <2>4. CASE ~agent.kept
    <3>1. agent' = Life!TellHub(r, "user", cutOff)
      BY <1>1, <1>3, <1>6, <2>1, <2>4 DEF Wrapper
    <3>2. r.kind = "tool" /\ r.held = agent.held /\ r.runtime = agent.runtime
      BY <1>6, <2>2 DEF Has
    <3>3. PICK where \in {"hub", "done", "raised"} :
            /\ agent' = Life!At(r, "user", where)
            /\ \/ where = "hub" /\ agent.runtime = "running" /\ agent.held
               \/ where = "done" /\ ~agent.held
               \/ where = "raised"
      BY <3>1, <3>2 DEF Life!TellHub, Life!HubFails
    <3>4. agent.beat = "none"
      BY <1>1, <1>6, <2>4, WrapperFields DEF Lives, ToolStops
    <3>5. Lives(Life!At(r, "user", where))
      BY <1>2, <1>6, <2>2, <3>3, <3>4, UserGoes
    <3> QED BY <3>3, <3>5
  <2> QED BY <2>3, <2>4
<1> QED BY <1>1, <1>4, <1>5, <1>6, WrapperFields

LEMMA BeatStops ==
  ASSUME Lives(agent), Life!Stop("beat")
  PROVE  Lives(agent')
<1>1. agent \in Wrapper
  BY DEF Lives
<1>2. agent.stop["beat"] = "no" /\ agent.beat = "stopping"
  BY DEF Life!Stop
<1>3. PICK cutOff \in BOOLEAN :
        agent' = IF agent.kind # "tool" THEN Life!TellHub(agent, "beat", cutOff)
                 ELSE LET r == [agent EXCEPT !.alive = FALSE] IN
                      IF r.kept THEN Life!AwaitBeat(r, "beat", cutOff)
                      ELSE Life!TellHub(r, "beat", cutOff)
  BY DEF Life!Stop
<1>4. agent.kind # "sse" /\ agent.init \in Life!Over /\ agent.kept
  BY <1>1, <1>2, WrapperFields DEF Lives, Starting, Beating, FullStops, ToolStops, Life!Over
<1>5. CASE agent.kind = "full"
  <2>1. agent' = Life!TellHub(agent, "beat", cutOff)
    BY <1>3, <1>5
  <2>2. agent.runtime = "running" /\ agent.held
    BY <1>1, <1>4, <1>5, WrapperFields DEF Lives, Starting, FullStops
  <2>3. PICK where \in {"hub", "await"} : agent' = Life!At(agent, "beat", where)
    BY <1>4, <1>5, <2>1, <2>2 DEF Life!TellHub, Life!AwaitIfKept, Life!AwaitBeat
  <2>4. Lives(Life!At(agent, "beat", where))
    BY <1>1, <1>2, <1>4, <1>5, <2>2, <2>3, Itself, BeatGoes
  <2> QED BY <2>3, <2>4
<1>6. CASE agent.kind = "tool"
  <2>1. PICK r : r = [agent EXCEPT !.alive = FALSE]
    OBVIOUS
  <2>2. Has(r, agent.kind, agent.init, agent.runtime, agent.held, FALSE,
            agent.initialized, agent.hub, agent.beat, agent.kept, agent.failures,
            agent.again, agent.stop["user"], agent.stop["beat"])
    BY <1>1, <2>1, CalledOff
  <2>3. agent' = Life!At(r, "beat", "await")
    BY <1>1, <1>3, <1>4, <1>6, <2>1 DEF Life!AwaitBeat, Wrapper
  <2> QED BY <1>2, <1>4, <1>6, <2>2, <2>3, BeatGoes
<1> QED BY <1>1, <1>4, <1>5, <1>6, WrapperFields

LEMMA UserHubEnds ==
  ASSUME Lives(agent), Life!HubEnds("user")
  PROVE  Lives(agent')
<1>1. agent \in Wrapper /\ agent.stop["user"] = "hub"
  BY DEF Lives, Life!HubEnds
<1>2. agent.init \in Life!Over
  BY <1>1, WrapperFields DEF Lives, Starting
<1>3. ASSUME NEW r, NEW cutOff \in BOOLEAN, NEW h \in {agent.hub, "stopped"},
             Has(r, agent.kind, agent.init, agent.runtime, agent.held, agent.alive,
                 agent.initialized, h, agent.beat, agent.kept, agent.failures,
                 agent.again, agent.stop["user"], agent.stop["beat"]),
             \/ h = "stopped" /\ agent' = Life!AfterHub(r, "user", cutOff)
             \/ r = agent /\ agent' = Life!HubFails(r, "user", cutOff)
      PROVE  Lives(agent')
  <2>4. r.kind = agent.kind /\ r.kept = agent.kept
    BY <1>3 DEF Has
  <2>5. CASE agent.kind = "full"
    <3>1. agent' = Life!AwaitIfKept(r, "user", cutOff)
      BY <1>3, <2>4, <2>5 DEF Life!AfterHub, Life!HubFails
    <3>2. CASE agent.kept
      BY <1>1, <1>2, <1>3, <2>4, <2>5, <3>1, <3>2, UserAwaits DEF Life!AwaitIfKept
    <3>3. CASE ~agent.kept
      BY <1>1, <1>2, <1>3, <2>4, <2>5, <3>1, <3>3, UserCloses DEF Life!AwaitIfKept
    <3> QED BY <3>2, <3>3
  <2>6. CASE agent.kind # "full" /\ agent' = Life!CloseRuntime(r, "user") /\ h = "stopped"
    BY <1>1, <1>2, <1>3, <2>6, UserCloses
  <2>7. CASE agent.kind # "full" /\ agent' = Life!At(r, "user", "raised") /\ r = agent
    <3>1. agent.kind = "tool" => agent.alive = FALSE /\ agent.beat \in {"none", "ended"}
      BY <1>1, WrapperFields DEF Lives, ToolStops
    <3>2. Lives(Life!At(agent, "user", "raised"))
      BY <1>1, <1>2, <2>7, <3>1, WrapperFields, Itself, UserGoes
    <3> QED BY <2>7, <3>2
  <2> QED BY <1>3, <2>4, <2>5, <2>6, <2>7 DEF Life!AfterHub, Life!HubFails
<1>4. PICK cutOff \in BOOLEAN :
        \/ agent' = Life!AfterHub([agent EXCEPT !.hub = "stopped"], "user", cutOff)
        \/ agent' = Life!HubFails(agent, "user", cutOff)
  BY DEF Life!HubEnds
<1>5. CASE agent' = Life!AfterHub([agent EXCEPT !.hub = "stopped"], "user", cutOff)
  <2>1. PICK r : r = [agent EXCEPT !.hub = "stopped"]
    OBVIOUS
  <2>2. Has(r, agent.kind, agent.init, agent.runtime, agent.held, agent.alive,
            agent.initialized, "stopped", agent.beat, agent.kept, agent.failures,
            agent.again, agent.stop["user"], agent.stop["beat"])
    BY <1>1, <2>1, Told
  <2>3. agent' = Life!AfterHub(r, "user", cutOff)
    BY <1>5, <2>1
  <2> QED BY <1>3, <2>2, <2>3
<1>6. CASE agent' = Life!HubFails(agent, "user", cutOff)
  BY <1>1, <1>3, <1>6, Itself
<1> QED BY <1>4, <1>5, <1>6

LEMMA BeatHubEnds ==
  ASSUME Lives(agent), Life!HubEnds("beat")
  PROVE  Lives(agent')
<1>1. agent \in Wrapper /\ agent.stop["beat"] = "hub" /\ agent.beat = "stopping"
  BY DEF Lives, Life!HubEnds, Beating
<1>2. agent.kind # "sse" /\ agent.init \in Life!Over /\ agent.kept
  BY <1>1, WrapperFields DEF Lives, Starting, Beating, FullStops, ToolStops, Life!Over
<1>3. ASSUME NEW r, NEW cutOff \in BOOLEAN, NEW h \in {agent.hub, "stopped"},
             Has(r, agent.kind, agent.init, agent.runtime, agent.held, agent.alive,
                 agent.initialized, h, agent.beat, agent.kept, agent.failures,
                 agent.again, agent.stop["user"], agent.stop["beat"]),
             \/ h = "stopped" /\ agent' = Life!AfterHub(r, "beat", cutOff)
             \/ r = agent /\ agent' = Life!HubFails(r, "beat", cutOff)
      PROVE  Lives(agent')
  <2>4. r.kind = agent.kind /\ r.kept = agent.kept
    BY <1>3 DEF Has
  <2>5. CASE agent.kind = "full"
    <3>1. agent' = Life!At(r, "beat", "await")
      BY <1>2, <1>3, <2>4, <2>5 DEF Life!AfterHub, Life!HubFails, Life!AwaitIfKept, Life!AwaitBeat
    <3> QED BY <1>1, <1>2, <1>3, <2>5, <3>1, BeatGoes
  <2>6. CASE agent.kind = "tool" /\ agent' = Life!CloseRuntime(r, "beat") /\ h = "stopped"
    BY <1>1, <1>2, <1>3, <2>6, BeatCloses
  <2>7. CASE agent.kind = "tool" /\ agent' = Life!At(r, "beat", "raised") /\ r = agent
    <3>1. agent.alive = FALSE
      BY <1>1, <2>7, WrapperFields DEF Lives, ToolStops
    <3>2. Lives(Life!At(agent, "beat", "raised"))
      BY <1>1, <1>2, <2>7, <3>1, Itself, BeatGoes
    <3> QED BY <2>7, <3>2
  <2> QED BY <1>1, <1>2, <1>3, <2>4, <2>5, <2>6, <2>7, WrapperFields DEF Life!AfterHub, Life!HubFails
<1>4. PICK cutOff \in BOOLEAN :
        \/ agent' = Life!AfterHub([agent EXCEPT !.hub = "stopped"], "beat", cutOff)
        \/ agent' = Life!HubFails(agent, "beat", cutOff)
  BY DEF Life!HubEnds
<1>5. CASE agent' = Life!AfterHub([agent EXCEPT !.hub = "stopped"], "beat", cutOff)
  <2>1. PICK r : r = [agent EXCEPT !.hub = "stopped"]
    OBVIOUS
  <2>2. Has(r, agent.kind, agent.init, agent.runtime, agent.held, agent.alive,
            agent.initialized, "stopped", agent.beat, agent.kept, agent.failures,
            agent.again, agent.stop["user"], agent.stop["beat"])
    BY <1>1, <2>1, Told
  <2>3. agent' = Life!AfterHub(r, "beat", cutOff)
    BY <1>5, <2>1
  <2> QED BY <1>3, <2>2, <2>3
<1>6. CASE agent' = Life!HubFails(agent, "beat", cutOff)
  BY <1>1, <1>3, <1>6, Itself
<1> QED BY <1>4, <1>5, <1>6

LEMMA UserAwaitEnds ==
  ASSUME Lives(agent), Life!AwaitEnds("user")
  PROVE  Lives(agent')
<1>1. /\ agent \in Wrapper /\ agent.stop["user"] = "await"
      /\ agent.beat \in {"ended", "died"}
  BY DEF Lives, Life!AwaitEnds
<1>2. agent.init \in Life!Over
  BY <1>1, WrapperFields DEF Lives, Starting
<1>3. agent.kind = "tool" => agent.alive = FALSE
  BY <1>1, WrapperFields DEF Lives, ToolStops
<1>9. agent.kind # "sse" /\ (agent.kind = "full" => agent.beat = "ended")
  BY <1>1 DEF Lives, Beating, FullStops
<1>4. CASE agent.beat = "died"
  <2>1. agent' = Life!At(agent, "user", "raised")
    BY <1>4 DEF Life!AwaitEnds
  <2> QED BY <1>1, <1>2, <1>3, <1>4, <1>9, <2>1, WrapperFields, Itself, UserGoes
<1>5. CASE agent.beat = "ended" /\ agent.kind = "full"
  <2>1. PICK r : r = [agent EXCEPT !.kept = FALSE]
    OBVIOUS
  <2>2. Has(r, agent.kind, agent.init, agent.runtime, agent.held, agent.alive,
            agent.initialized, agent.hub, agent.beat, FALSE, agent.failures,
            agent.again, agent.stop["user"], agent.stop["beat"])
    BY <1>1, <2>1, LetGo
  <2>3. agent' = Life!CloseRuntime(r, "user")
    BY <1>5, <2>1 DEF Life!AwaitEnds, Life!Full
  <2> QED BY <1>1, <1>2, <1>5, <2>2, <2>3, UserCloses
<1>6. CASE agent.beat = "ended" /\ agent.kind = "tool"
  <2>1. PICK where \in {"hub", "done", "raised"} :
          /\ agent' = Life!At(agent, "user", where)
          /\ \/ where = "hub" /\ agent.runtime = "running" /\ agent.held
             \/ where = "done" /\ ~agent.held
             \/ where = "raised"
    BY <1>6 DEF Life!AwaitEnds, Life!Full, Life!TellHub, Life!HubFails
  <2>2. Lives(Life!At(agent, "user", where))
    BY <1>1, <1>2, <1>3, <1>6, <2>1, Itself, UserGoes
  <2> QED BY <2>1, <2>2
<1> QED BY <1>1, <1>4, <1>5, <1>6, <1>9, WrapperFields

LEMMA BeatAwaitEnds ==
  ASSUME Lives(agent), Life!AwaitEnds("beat")
  PROVE  Lives(agent')
<1>1. agent \in Wrapper /\ agent.stop["beat"] = "await" /\ agent.beat = "stopping"
  BY DEF Lives, Life!AwaitEnds, Beating
<1>2. agent.kind # "sse" /\ agent.init \in Life!Over /\ agent.kept
  BY <1>1, WrapperFields DEF Lives, Starting, Beating, FullStops, ToolStops, Life!Over
<1>3. agent.kind = "tool" => agent.alive = FALSE
  BY <1>1, WrapperFields DEF Lives, ToolStops
<1>5. CASE agent.kind = "full"
  <2>1. PICK r : r = [agent EXCEPT !.kept = FALSE]
    OBVIOUS
  <2>2. Has(r, agent.kind, agent.init, agent.runtime, agent.held, agent.alive,
            agent.initialized, agent.hub, agent.beat, FALSE, agent.failures,
            agent.again, agent.stop["user"], agent.stop["beat"])
    BY <1>1, <2>1, LetGo
  <2>3. agent' = Life!CloseRuntime(r, "beat")
    BY <1>1, <1>5, <2>1 DEF Life!AwaitEnds, Life!Full
  <2> QED BY <1>1, <1>2, <1>5, <2>2, <2>3, BeatCloses
<1>6. CASE agent.kind = "tool"
  <2>1. PICK where \in {"hub", "done", "raised"} :
          /\ agent' = Life!At(agent, "beat", where)
          /\ \/ where = "hub" /\ agent.runtime = "running" /\ agent.held
             \/ where = "done" /\ ~agent.held
             \/ where = "raised"
    BY <1>1, <1>6 DEF Life!AwaitEnds, Life!Full, Life!TellHub, Life!HubFails
  <2>2. Lives(Life!At(agent, "beat", where))
    BY <1>1, <1>2, <1>3, <1>6, <2>1, Itself, BeatGoes
  <2> QED BY <2>1, <2>2
<1> QED BY <1>1, <1>2, <1>5, <1>6, WrapperFields

LEMMA UserRuntimeStops ==
  ASSUME Lives(agent), Life!RuntimeStops("user")
  PROVE  Lives(agent')
<1>1. agent \in Wrapper /\ agent.stop["user"] = "closing"
  BY DEF Lives, Life!RuntimeStops
<1>2. PICK c : c = Life!At(agent, "user", "done") /\ Called(c, agent, "done", agent.stop["beat"])
  BY <1>1, AtUser DEF Stage, Life!Over
<1>3. PICK full \in BOOLEAN : full = (agent.kind = "full")
  OBVIOUS
<1>4. agent' = [c EXCEPT !.runtime = "stopped", !.held = ~full]
  BY <1>2, <1>3 DEF Life!RuntimeStops, Life!Full
<1>5. Called(c, agent, "done", agent.stop["beat"])
  BY <1>2
<1>6. Has(agent', c.kind, c.init, "stopped", ~full, c.alive, c.initialized, c.hub,
          c.beat, c.kept, c.failures, c.again, c.stop["user"], c.stop["beat"])
  BY <1>4, <1>5 DEF Called, Has, Wrapper
<1> QED BY LifeAssumption, <1>1, <1>3, <1>5, <1>6, WrapperFields DEF Called, Has, Lives, Starting, Beating, Closing,
         FullStops, ToolStops, Stopped, Life!Over

LEMMA BeatRuntimeStops ==
  ASSUME Lives(agent), Life!RuntimeStops("beat")
  PROVE  Lives(agent')
<1>1. agent \in Wrapper /\ agent.stop["beat"] = "closing"
  BY DEF Lives, Life!RuntimeStops
<1>2. PICK c : c = Life!At(agent, "beat", "done") /\ Called(c, agent, agent.stop["user"], "done")
  BY <1>1, AtBeat DEF Stage, Life!Over
<1>3. PICK full \in BOOLEAN : full = (agent.kind = "full")
  OBVIOUS
<1>4. agent' = [c EXCEPT !.runtime = "stopped", !.held = ~full]
  BY <1>2, <1>3 DEF Life!RuntimeStops, Life!Full
<1>5. Called(c, agent, agent.stop["user"], "done")
  BY <1>2
<1>6. Has(agent', c.kind, c.init, "stopped", ~full, c.alive, c.initialized, c.hub,
          c.beat, c.kept, c.failures, c.again, c.stop["user"], c.stop["beat"])
  BY <1>4, <1>5 DEF Called, Has, Wrapper
<1> QED BY LifeAssumption, <1>1, <1>3, <1>5, <1>6, WrapperFields DEF Called, Has, Lives, Starting, Beating, Closing,
         FullStops, ToolStops, Stopped, Life!Over

LEMMA BeatStoppedLives ==
  ASSUME Lives(agent), Life!BeatStopped
  PROVE  Lives(agent')
<1>1. /\ agent \in Wrapper /\ agent.beat = "stopping"
      /\ agent.stop["beat"] \in {"done", "raised"}
  BY DEF Lives, Life!BeatStopped, Life!Over
<1>2. agent.kind # "sse" /\ agent.init \in Life!Over
  BY <1>1, WrapperFields DEF Lives, Starting, Beating, Life!Over
<1>3. ASSUME NEW beat \in {"ended", "died"}, agent' = [agent EXCEPT !.beat = beat],
             beat = "ended" <=> agent.stop["beat"] = "done"
      PROVE  Lives(agent')
  <2>1. Has(agent', agent.kind, agent.init, agent.runtime, agent.held, agent.alive,
            agent.initialized, agent.hub, beat, agent.kept, agent.failures,
            agent.again, agent.stop["user"], agent.stop["beat"])
    BY <1>1, <1>3 DEF Has, Wrapper
  <2> QED BY LifeAssumption, <1>1, <1>2, <1>3, <2>1, WrapperFields DEF Has, Lives, Starting, Beating, Closing,
         FullStops, ToolStops, Stopped, Life!Over
<1>4. CASE agent.stop["beat"] = "raised" /\ agent.again
  <2>1. PICK c : c = Life!At(agent, "beat", "no") /\ Called(c, agent, agent.stop["user"], "no")
    BY <1>1, AtBeat DEF Stage
  <2>2. agent.failures \in 0..MaxFailures
    BY LifeAssumption, <1>1, <1>4 DEF Lives, Beating, Wrapper
  <2>3. PICK f \in 0..MaxFailures + 1 : f = agent.failures + 1
    BY LifeAssumption, <2>2
  <2>4. agent' = [c EXCEPT !.again = FALSE, !.failures = f]
    BY <1>4, <2>1, <2>3 DEF Life!BeatStopped, Called, Has
  <2>5. Called(c, agent, agent.stop["user"], "no")
    BY <2>1
  <2>6. Has(agent', c.kind, c.init, c.runtime, c.held, c.alive, c.initialized, c.hub,
            c.beat, c.kept, f, FALSE, c.stop["user"], c.stop["beat"])
    BY <2>4, <2>5 DEF Called, Has, Wrapper
  <2>7. f # 0
    BY <2>2, <2>3
  <2> QED BY LifeAssumption, <1>1, <1>2, <1>4, <2>5, <2>6, <2>7, WrapperFields DEF Called, Has, Lives, Starting, Beating, Closing,
         FullStops, ToolStops, Stopped, Life!Over
<1>5. CASE agent.stop["beat"] = "done"
  BY <1>3, <1>5 DEF Life!BeatStopped
<1>6. CASE agent.stop["beat"] = "raised" /\ ~agent.again
  BY <1>3, <1>6 DEF Life!BeatStopped
<1> QED BY <1>1, <1>4, <1>5, <1>6

(* A heartbeat that is sent, or not.                                       *)
LEMMA FailedLives ==
  ASSUME Lives(agent), agent.beat \in {"ready", "sending"}, NEW timedOut \in BOOLEAN,
         agent' = Life!Failed(timedOut)
  PROVE  Lives(agent')
<1>1. agent \in Wrapper /\ agent.failures \in 0..MaxFailures /\ agent.failures < MaxFailures
  BY LifeAssumption DEF Lives, Wrapper, Beating
<1>2. PICK f \in 0..MaxFailures + 1 : f = agent.failures + 1
  BY LifeAssumption, <1>1
<1>3. ASSUME NEW beat \in {"stopping", "sleeping"}, NEW again \in BOOLEAN,
             agent' = [agent EXCEPT !.failures = f, !.beat = beat, !.again = again],
             \/ beat = "sleeping" /\ f < MaxFailures
             \/ beat = "stopping" /\ f >= 2
      PROVE  Lives(agent')
  <2>1. Has(agent', agent.kind, agent.init, agent.runtime, agent.held, agent.alive,
            agent.initialized, agent.hub, beat, agent.kept, f, again,
            agent.stop["user"], agent.stop["beat"])
    BY <1>1, <1>3 DEF Has, Wrapper
  <2>2. /\ f # 0 /\ f <= MaxFailures
        /\ agent.failures = 0 => f = 1 /\ beat = "sleeping"
    BY LifeAssumption, <1>1, <1>2, <1>3
  <2> QED BY LifeAssumption, <1>1, <1>3, <2>1, <2>2, WrapperFields DEF Has, Lives, Starting,
         Beating, Closing, FullStops, ToolStops, Stopped, Life!Over
<1>4. agent' = [agent EXCEPT !.failures = f,
                  !.beat = IF f >= MaxFailures THEN "stopping" ELSE "sleeping",
                  !.again = f >= MaxFailures /\ timedOut]
  BY <1>1, <1>2 DEF Life!Failed
<1>5. CASE f >= MaxFailures
  <2>1. agent' = [agent EXCEPT !.failures = f, !.beat = "stopping", !.again = timedOut]
    BY <1>4, <1>5
  <2>2. f >= 2
    BY LifeAssumption, <1>2, <1>5
  <2> QED BY <1>3, <2>1, <2>2
<1>6. CASE ~(f >= MaxFailures)
  <2>1. agent' = [agent EXCEPT !.failures = f, !.beat = "sleeping", !.again = FALSE]
    BY <1>4, <1>6
  <2>2. f < MaxFailures
    BY LifeAssumption, <1>2, <1>6
  <2> QED BY <1>3, <2>1, <2>2
<1> QED BY <1>5, <1>6

LEMMA Sends ==
  ASSUME Lives(agent), agent.beat = "ready",
         agent' = [agent EXCEPT !.beat = "sending"]
  PROVE  Lives(agent')
<1>1. agent \in Wrapper 
  BY LifeAssumption DEF Lives
<1>2. Has(agent', agent.kind, agent.init, agent.runtime, agent.held, agent.alive,
          agent.initialized, agent.hub, "sending", agent.kept,
          agent.failures, agent.again, agent.stop["user"],
          agent.stop["beat"])
  BY <1>1 DEF Has, Wrapper, Life!Over
<1> QED BY LifeAssumption, <1>1, <1>2, WrapperFields DEF Has, Lives, Starting, Beating, Closing,
         FullStops, ToolStops, Stopped, Life!Over

LEMMA Sent ==
  ASSUME Lives(agent), agent.beat = "sending",
         agent' = [agent EXCEPT !.beat = "sleeping", !.failures = 0]
  PROVE  Lives(agent')
<1>1. agent \in Wrapper /\ 0 \in 0..MaxFailures + 1
  BY LifeAssumption DEF Lives
<1>2. Has(agent', agent.kind, agent.init, agent.runtime, agent.held, agent.alive,
          agent.initialized, agent.hub, "sleeping", agent.kept, 0,
          agent.again, agent.stop["user"], agent.stop["beat"])
  BY <1>1 DEF Has, Wrapper, Life!Over
<1> QED BY LifeAssumption, <1>1, <1>2, WrapperFields DEF Has, Lives, Starting, Beating, Closing,
         FullStops, ToolStops, Stopped, Life!Over

LEMMA Wakes ==
  ASSUME Lives(agent), agent.beat = "sleeping", agent.init \in Life!Over,
         agent' = [agent EXCEPT !.beat = "ready"]
  PROVE  Lives(agent')
<1>1. agent \in Wrapper 
  BY LifeAssumption DEF Lives
<1>2. Has(agent', agent.kind, agent.init, agent.runtime, agent.held, agent.alive,
          agent.initialized, agent.hub, "ready", agent.kept, agent.failures,
          agent.again, agent.stop["user"], agent.stop["beat"])
  BY <1>1 DEF Has, Wrapper, Life!Over
<1> QED BY LifeAssumption, <1>1, <1>2, WrapperFields DEF Has, Lives, Starting, Beating, Closing,
         FullStops, ToolStops, Stopped, Life!Over

LEMMA Raises ==
  ASSUME Lives(agent), agent.init \in {"no", "start", "prepare"},
         agent' = [agent EXCEPT !.init = "raised"]
  PROVE  Lives(agent')
<1>1. agent \in Wrapper 
  BY LifeAssumption DEF Lives
<1>2. Has(agent', agent.kind, "raised", agent.runtime, agent.held, agent.alive,
          agent.initialized, agent.hub, agent.beat, agent.kept,
          agent.failures, agent.again, agent.stop["user"],
          agent.stop["beat"])
  BY <1>1 DEF Has, Wrapper, Life!Over
<1> QED BY LifeAssumption, <1>1, <1>2, WrapperFields DEF Has, Lives, Starting, Beating, Closing,
         FullStops, ToolStops, Stopped, Life!Over

LEMMA Begins ==
  ASSUME Lives(agent), agent.init = "no",
         agent' = [agent EXCEPT !.init = "start", !.held = TRUE]
  PROVE  Lives(agent')
<1>1. agent \in Wrapper 
  BY LifeAssumption DEF Lives
<1>2. Has(agent', agent.kind, "start", agent.runtime, TRUE, agent.alive,
          agent.initialized, agent.hub, agent.beat, agent.kept,
          agent.failures, agent.again, agent.stop["user"],
          agent.stop["beat"])
  BY <1>1 DEF Has, Wrapper, Life!Over
<1> QED BY LifeAssumption, <1>1, <1>2, WrapperFields DEF Has, Lives, Starting, Beating, Closing,
         FullStops, ToolStops, Stopped, Life!Over

LEMMA Starts ==
  ASSUME Lives(agent), agent.init = "start", NEW init \in {"hub", "prepare"}, init = "hub" <=> agent.kind = "sse",
         agent' = [agent EXCEPT !.runtime = "running", !.init = init]
  PROVE  Lives(agent')
<1>1. agent \in Wrapper 
  BY LifeAssumption DEF Lives
<1>2. Has(agent', agent.kind, init, "running", agent.held, agent.alive,
          agent.initialized, agent.hub, agent.beat, agent.kept,
          agent.failures, agent.again, agent.stop["user"],
          agent.stop["beat"])
  BY <1>1 DEF Has, Wrapper, Life!Over
<1> QED BY LifeAssumption, <1>1, <1>2, WrapperFields DEF Has, Lives, Starting, Beating, Closing,
         FullStops, ToolStops, Stopped, Life!Over

LEMMA PreparesFull ==
  ASSUME Lives(agent), agent.init = "prepare", agent.kind = "full",
         agent' = [agent EXCEPT !.init = "hub"]
  PROVE  Lives(agent')
<1>1. agent \in Wrapper 
  BY LifeAssumption DEF Lives
<1>2. Has(agent', agent.kind, "hub", agent.runtime, agent.held, agent.alive,
          agent.initialized, agent.hub, agent.beat, agent.kept,
          agent.failures, agent.again, agent.stop["user"],
          agent.stop["beat"])
  BY <1>1 DEF Has, Wrapper, Life!Over
<1> QED BY LifeAssumption, <1>1, <1>2, WrapperFields DEF Has, Lives, Starting, Beating, Closing,
         FullStops, ToolStops, Stopped, Life!Over

LEMMA PreparesTool ==
  ASSUME Lives(agent), agent.init = "prepare", agent.kind # "full",
         agent' = [agent EXCEPT !.init = "hub", !.beat = "ready", !.kept = TRUE]
  PROVE  Lives(agent')
<1>1. agent \in Wrapper 
  BY LifeAssumption DEF Lives
<1>2. Has(agent', agent.kind, "hub", agent.runtime, agent.held, agent.alive,
          agent.initialized, agent.hub, "ready", TRUE, agent.failures,
          agent.again, agent.stop["user"], agent.stop["beat"])
  BY <1>1 DEF Has, Wrapper, Life!Over
<1> QED BY LifeAssumption, <1>1, <1>2, WrapperFields DEF Has, Lives, Starting, Beating, Closing,
         FullStops, ToolStops, Stopped, Life!Over

LEMMA Registers ==
  ASSUME Lives(agent), agent.init = "hub", NEW hub \in {agent.hub, "running"},
         NEW init \in {"load", "done"}, init = "load" <=> agent.kind = "full",
         agent' = [agent EXCEPT !.hub = hub, !.init = init]
  PROVE  Lives(agent')
<1>1. agent \in Wrapper 
  BY LifeAssumption DEF Lives
<1>2. Has(agent', agent.kind, init, agent.runtime, agent.held, agent.alive,
          agent.initialized, hub, agent.beat, agent.kept, agent.failures,
          agent.again, agent.stop["user"], agent.stop["beat"])
  BY <1>1 DEF Has, Wrapper, Life!Over
<1> QED BY LifeAssumption, <1>1, <1>2, WrapperFields DEF Has, Lives, Starting, Beating, Closing,
         FullStops, ToolStops, Stopped, Life!Over

LEMMA Loads ==
  ASSUME Lives(agent), agent.init = "load",
         agent' = [agent EXCEPT !.init = "done", !.initialized = TRUE, !.beat = "ready", !.kept = TRUE]
  PROVE  Lives(agent')
<1>1. agent \in Wrapper 
  BY LifeAssumption DEF Lives
<1>2. Has(agent', agent.kind, "done", agent.runtime, agent.held, agent.alive, TRUE,
          agent.hub, "ready", TRUE, agent.failures, agent.again,
          agent.stop["user"], agent.stop["beat"])
  BY <1>1 DEF Has, Wrapper, Life!Over
<1> QED BY LifeAssumption, <1>1, <1>2, WrapperFields DEF Has, Lives, Starting, Beating, Closing,
         FullStops, ToolStops, Stopped, Life!Over

LEMMA LifeInit ==
  ASSUME Life!Init
  PROVE  Lives(agent)
<1>1. /\ agent.kind \in Kinds /\ agent.init = "no" /\ agent.runtime = "made"
      /\ agent.held \in BOOLEAN /\ agent.alive = TRUE /\ agent.initialized = FALSE
      /\ agent.hub = "none" /\ agent.beat = "none" /\ agent.kept = FALSE
      /\ agent.failures = 0 /\ agent.again = FALSE
      /\ agent.stop = [p \in {"user", "beat"} |-> "no"]
  BY DEF Life!Init
<1>2. agent.stop["user"] = "no" /\ agent.stop["beat"] = "no"
  BY <1>1
<1>3. agent \in Wrapper
  <2>1. 0 \in 0..MaxFailures + 1
    BY LifeAssumption
  <2>2. agent.stop \in [{"user", "beat"} -> {"no", "hub", "await", "closing"} \cup Life!Over]
    BY <1>1
  <2>3. agent \in [kind : Kinds, init : {"no"}, runtime : {"made"}, held : BOOLEAN,
                  alive : {TRUE}, initialized : {FALSE}, hub : {"none"}, beat : {"none"},
                  kept : {FALSE}, failures : {0}, again : {FALSE}, stop : {agent.stop}]
    BY <1>1 DEF Life!Init
  <2> QED BY <2>1, <2>2, <2>3 DEF Wrapper
<1>4. agent.held <=> agent.kind = "full"
  BY DEF Life!Init
<1> QED BY LifeAssumption, <1>1, <1>2, <1>3, <1>4, WrapperFields DEF Lives, Starting, Beating, Closing,
         FullStops, ToolStops, Stopped, Life!Over

LEMMA LifeStep ==
  ASSUME Lives(agent), Life!Next
  PROVE  Lives(agent')
<1>0. agent \in Wrapper
  BY DEF Lives
<1>1. CASE Life!Begin
  BY <1>1, Raises, Begins DEF Life!Begin, Life!Raise
<1>2. CASE Life!RuntimeStarts
  <2>1. CASE Life!Raise
    BY <1>2, <2>1, Raises DEF Life!RuntimeStarts, Life!Raise
  <2>2. CASE ~Life!Raise
    BY <1>2, <2>2, Starts DEF Life!RuntimeStarts
  <2> QED BY <2>1, <2>2
<1>3. CASE Life!Prepare
  <2>1. CASE Life!Raise
    BY <1>3, <2>1, Raises DEF Life!Prepare, Life!Raise
  <2>2. CASE ~Life!Raise /\ agent.kind = "full"
    BY <1>3, <2>2, PreparesFull DEF Life!Prepare, Life!Full
  <2>3. CASE ~Life!Raise /\ agent.kind # "full"
    <3>1. agent' = [agent EXCEPT !.init = "hub", !.beat = "ready", !.kept = TRUE]
      BY <1>3, <2>3 DEF Life!Prepare, Life!Full, Life!StartBeat
    <3> QED BY <1>3, <2>3, <3>1, PreparesTool DEF Life!Prepare
  <2> QED BY <2>1, <2>2, <2>3
<1>4. CASE Life!Register
  <2>1. PICK hub \in {agent.hub, "running"}, init \in {"load", "done"} :
          /\ agent' = [agent EXCEPT !.hub = hub, !.init = init]
          /\ init = "load" <=> agent.kind = "full"
    BY <1>4 DEF Life!Register, Life!Full
  <2> QED BY <1>4, <2>1, Registers DEF Life!Register
<1>5. CASE Life!LoadServers
  <2>1. agent' = [agent EXCEPT !.init = "done", !.initialized = TRUE, !.beat = "ready",
                    !.kept = TRUE]
    BY <1>5 DEF Life!LoadServers, Life!StartBeat
  <2> QED BY <1>5, <2>1, Loads DEF Life!LoadServers
<1>6. CASE Life!Beat
  <2>1. agent.beat = "ready" /\ agent.alive
    BY <1>6 DEF Life!Beat, Lives, Beating
  <2>2. CASE agent' = [agent EXCEPT !.beat = "sending"]
    BY <2>1, <2>2, Sends
  <2>3. CASE agent' = Life!Failed(FALSE)
    BY <2>1, <2>3, FailedLives
  <2> QED BY <1>6, <2>1, <2>2, <2>3 DEF Life!Beat
<1>7. CASE Life!BeatEnds
  BY <1>7, Sent, FailedLives DEF Life!BeatEnds
<1>8. CASE Life!Wake
  BY <1>8, Wakes DEF Life!Wake
<1>9. CASE Life!Stop("beat")
  BY <1>9, BeatStops
<1>10. CASE Life!Stopping("beat")
  BY <1>10, BeatHubEnds, BeatAwaitEnds, BeatRuntimeStops DEF Life!Stopping
<1>11. CASE Life!BeatStopped
  BY <1>11, BeatStoppedLives
<1>12. CASE Life!Stop("user")
  BY <1>12, UserStops
<1>13. CASE Life!Stopping("user")
  BY <1>13, UserHubEnds, UserAwaitEnds, UserRuntimeStops DEF Life!Stopping
<1> QED BY <1>1, <1>2, <1>3, <1>4, <1>5, <1>6, <1>7, <1>8, <1>9, <1>10, <1>11, <1>12,
       <1>13 DEF Life!Next, Life!Initialize, Life!Heartbeat

LEMMA LivesImplies ==
  ASSUME Lives(agent)
  PROVE  Life!TypeOK /\ Life!StopStops
  BY DEF Lives, Wrapper, Stopped, Life!TypeOK, Life!StopStops, Life!Over

-----------------------------------------------------------------------------
(* The event bus.                                                          *)

Elements(s) == Bus!Range(s)

Increasing(s) == \A i, j \in DOMAIN s : i < j => s[i] < s[j]

(* The number of the last event that was queued.                           *)
Queued == IF posting = 0 THEN emitted ELSE emitted - 1

Ordered(q, h, td, hd, n) ==
  /\ q \in Seq(Nat) /\ h \in Nat /\ n \in Nat /\ hd \in [Listeners -> Seq(Nat)]
  /\ td \subseteq Listeners
  /\ Increasing(q) /\ \A l \in Listeners : Increasing(hd[l])
  /\ h <= n /\ \A e \in Elements(q) : h < e /\ e <= n
  /\ td # {} => h # 0
  /\ \A l \in Listeners : \A e \in Elements(hd[l]) :
       /\ e <= n /\ \A f \in Elements(q) : e < f
       /\ h # 0 => e <= h
       /\ l \in td => e < h

InHand(h) == IF h = 0 THEN 0 ELSE 1

Counted(q, h, u, c, n) ==
  /\ u \in Nat /\ u <= n /\ Len(q) + InHand(h) <= u
  /\ c = {} => u = Len(q) + InHand(h)

Reached(h, td, hd) ==
  h # 0 => \A l \in Listeners \ td : h \in Elements(hd[l])

Settled(b, q, h, hd, gone) ==
  \A e \in b : e \in Elements(q) \/ e = h \/ e \in gone
                 \/ \A l \in Listeners : e \in Elements(hd[l])

-----------------------------------------------------------------------------
LEMMA ElementsOf ==
  ASSUME NEW s \in Seq(Nat)
  PROVE  /\ \A e : e \in Elements(s) <=> \E i \in 1..Len(s) : s[i] = e
         /\ \A e \in Elements(s) : e \in Nat
  BY DEF Elements, Bus!Range

LEMMA ElementsOfAppend ==
  ASSUME NEW s \in Seq(Nat), NEW e \in Nat
  PROVE  /\ Append(s, e) \in Seq(Nat) /\ Len(Append(s, e)) = Len(s) + 1
         /\ \A f : f \in Elements(Append(s, e)) <=> f \in Elements(s) \/ f = e
<1>0. /\ Append(s, e) \in Seq(Nat) /\ Len(Append(s, e)) = Len(s) + 1
      /\ Append(s, e)[Len(s) + 1] = e
      /\ \A i \in 1..Len(s) : Append(s, e)[i] = s[i]
  OBVIOUS
<1>1. PICK t : /\ t = Append(s, e) /\ t \in Seq(Nat) /\ Len(t) = Len(s) + 1
               /\ t[Len(s) + 1] = e /\ \A i \in 1..Len(s) : t[i] = s[i]
  BY <1>0
<1>2. /\ t \in Seq(Nat) /\ Len(t) = Len(s) + 1 /\ t[Len(s) + 1] = e
      /\ \A i \in 1..Len(s) : t[i] = s[i]
  BY <1>1
<1>3. ASSUME NEW f
      PROVE  f \in Elements(t) <=> f \in Elements(s) \/ f = e
  <2>1. ASSUME f \in Elements(t)
        PROVE  f \in Elements(s) \/ f = e
    <3>1. PICK i \in 1..Len(t) : t[i] = f
      BY <1>2, <2>1, ElementsOf
    <3>2. CASE i = Len(s) + 1
      BY <1>2, <3>1, <3>2
    <3>3. CASE i \in 1..Len(s)
      BY <1>2, <3>1, <3>3, ElementsOf
    <3> QED BY <1>2, <3>2, <3>3
  <2>2. ASSUME f \in Elements(s)
        PROVE  f \in Elements(t)
    <3>1. PICK i \in 1..Len(s) : s[i] = f
      BY <2>2, ElementsOf
    <3>2. i \in 1..Len(t) /\ t[i] = f
      BY <1>2, <3>1
    <3> QED BY <1>2, <3>2, ElementsOf
  <2>3. e \in Elements(t)
    <3>1. Len(s) + 1 \in 1..Len(t)
      BY <1>2
    <3> QED BY <1>2, <3>1, ElementsOf
  <2> QED BY <2>1, <2>2, <2>3
<1> QED BY <1>1, <1>2, <1>3

LEMMA IncreasingOf ==
  ASSUME NEW s \in Seq(Nat)
  PROVE  Increasing(s) <=> \A i, j \in 1..Len(s) : i < j => s[i] < s[j]
  BY DEF Increasing

LEMMA IncreasingAppend ==
  ASSUME NEW s \in Seq(Nat), NEW e \in Nat, Increasing(s), \A f \in Elements(s) : f < e
  PROVE  Increasing(Append(s, e))
<1>0. /\ Append(s, e) \in Seq(Nat) /\ Len(Append(s, e)) = Len(s) + 1
      /\ Append(s, e)[Len(s) + 1] = e
      /\ \A i \in 1..Len(s) : Append(s, e)[i] = s[i]
  OBVIOUS
<1>1. PICK t : /\ t = Append(s, e) /\ t \in Seq(Nat) /\ Len(t) = Len(s) + 1
               /\ t[Len(s) + 1] = e /\ \A i \in 1..Len(s) : t[i] = s[i]
  BY <1>0
<1>2. /\ t \in Seq(Nat) /\ Len(t) = Len(s) + 1 /\ t[Len(s) + 1] = e
      /\ \A i \in 1..Len(s) : t[i] = s[i]
  BY <1>1
<1>3. \A i \in 1..Len(s) : s[i] < e
  BY ElementsOf
<1>4. Increasing(t)
  <2>1. SUFFICES ASSUME NEW i \in 1..Len(s) + 1, NEW j \in 1..Len(s) + 1, i < j
                 PROVE  t[i] < t[j]
    BY <1>2, IncreasingOf
  <2>5. \A k, m \in 1..Len(s) : k < m => s[k] < s[m]
    BY IncreasingOf
  <2>2. i \in 1..Len(s)
    BY <2>1
  <2>3. CASE j = Len(s) + 1
    BY <1>2, <1>3, <2>2, <2>3
  <2>4. CASE j \in 1..Len(s)
    BY <1>2, <2>1, <2>2, <2>4, <2>5
  <2> QED BY <2>3, <2>4
<1> QED BY <1>1, <1>4

LEMMA OfTail ==
  ASSUME NEW s \in Seq(Nat), s # <<>>, Increasing(s)
  PROVE  /\ Tail(s) \in Seq(Nat) /\ Head(s) \in Nat /\ Len(Tail(s)) = Len(s) - 1
         /\ Increasing(Tail(s))
         /\ \A f : f \in Elements(s) <=> f \in Elements(Tail(s)) \/ f = Head(s)
         /\ \A f \in Elements(Tail(s)) : Head(s) < f
<1>0. /\ Tail(s) \in Seq(Nat) /\ Len(s) \in Nat \ {0} /\ Len(Tail(s)) = Len(s) - 1
      /\ \A i \in 1..Len(s) - 1 : Tail(s)[i] = s[i + 1]
  OBVIOUS
<1>1. PICK t : /\ t = Tail(s) /\ t \in Seq(Nat) /\ Len(t) = Len(s) - 1
               /\ \A i \in 1..Len(s) - 1 : t[i] = s[i + 1]
  BY <1>0
<1>2. /\ t \in Seq(Nat) /\ Len(s) \in Nat \ {0} /\ Len(t) = Len(s) - 1
      /\ \A i \in 1..Len(s) - 1 : t[i] = s[i + 1]
  BY <1>0, <1>1
<1>3. Head(s) = s[1] /\ Head(s) \in Nat
  BY <1>2
<1>8. \A k, m \in 1..Len(s) : k < m => s[k] < s[m]
  BY IncreasingOf
<1>4. ASSUME NEW i \in 1..Len(t)
      PROVE  i + 1 \in 1..Len(s) /\ t[i] = s[i + 1] /\ s[1] < s[i + 1]
  <2>1. i + 1 \in 1..Len(s) /\ 1 \in 1..Len(s) /\ 1 < i + 1 /\ i \in 1..Len(s) - 1
    BY <1>2
  <2> QED BY <1>2, <1>8, <2>1
<1>5. Increasing(t)
  <2>1. SUFFICES ASSUME NEW i \in 1..Len(t), NEW j \in 1..Len(t), i < j
                 PROVE  t[i] < t[j]
    BY <1>2, IncreasingOf
  <2>2. i + 1 < j + 1
    BY <2>1
  <2> QED BY <1>4, <1>8, <2>2
<1>6. ASSUME NEW f
      PROVE  f \in Elements(s) <=> f \in Elements(t) \/ f = Head(s)
  <2>1. ASSUME f \in Elements(s)
        PROVE  f \in Elements(t) \/ f = Head(s)
    <3>1. PICK i \in 1..Len(s) : s[i] = f
      BY <2>1, ElementsOf
    <3>2. CASE i = 1
      BY <1>3, <3>1, <3>2
    <3>3. CASE i # 1
      <4>1. PICK k \in 1..Len(t) : i = k + 1
        BY <1>2, <3>3
      <4>2. t[k] = f
        BY <1>4, <3>1, <4>1
      <4> QED BY <1>2, <4>2, ElementsOf
    <3> QED BY <3>2, <3>3
  <2>2. ASSUME f \in Elements(t)
        PROVE  f \in Elements(s)
    <3>1. PICK i \in 1..Len(t) : t[i] = f
      BY <1>2, <2>2, ElementsOf
    <3>2. i + 1 \in 1..Len(s) /\ s[i + 1] = f
      BY <1>4, <3>1
    <3> QED BY <3>2, ElementsOf
  <2>3. Head(s) \in Elements(s)
    <3>1. 1 \in 1..Len(s)
      BY <1>2
    <3> QED BY <1>3, <3>1, ElementsOf
  <2> QED BY <2>1, <2>2, <2>3
<1>7. ASSUME NEW f \in Elements(t)
      PROVE  Head(s) < f
  <2>1. PICK i \in 1..Len(t) : t[i] = f
    BY <1>2, ElementsOf
  <2> QED BY <1>3, <1>4, <2>1
<1> QED BY <1>1, <1>2, <1>3, <1>5, <1>6, <1>7

LEMMA OrderedPut ==
  ASSUME NEW q, NEW h, NEW td, NEW hd, NEW n, Ordered(q, h, td, hd, n)
  PROVE  Ordered(Append(q, n + 1), h, td, hd, n + 1)
<1>1. q \in Seq(Nat) /\ n + 1 \in Nat /\ \A f \in Elements(q) : f \in Nat /\ f < n + 1
  BY ElementsOf DEF Ordered
<1>2. PICK t : t = Append(q, n + 1)
  OBVIOUS
<1>3. /\ t \in Seq(Nat) /\ Increasing(t)
      /\ \A f : f \in Elements(t) <=> f \in Elements(q) \/ f = n + 1
  BY <1>1, <1>2, ElementsOfAppend, IncreasingAppend DEF Ordered
<1>4. \A l \in Listeners : \A e \in Elements(hd[l]) : e \in Nat
  BY ElementsOf DEF Ordered
<1>5. Ordered(t, h, td, hd, n + 1)
  BY <1>1, <1>3, <1>4 DEF Ordered
<1> QED BY <1>2, <1>5

LEMMA OrderedTake ==
  ASSUME NEW q, NEW td, NEW hd, NEW n, Ordered(q, 0, td, hd, n), q # <<>>
  PROVE  Ordered(Tail(q), Head(q), Listeners, hd, n)
<1>1. q \in Seq(Nat) /\ Increasing(q)
  BY DEF Ordered
<1>2. PICK t, h : t = Tail(q) /\ h = Head(q)
  OBVIOUS
<1>3. /\ t \in Seq(Nat) /\ h \in Nat /\ Increasing(t)
      /\ \A f : f \in Elements(q) <=> f \in Elements(t) \/ f = h
      /\ \A f \in Elements(t) : h < f
  BY <1>1, <1>2, OfTail
<1>4. \A l \in Listeners : \A e \in Elements(hd[l]) : e \in Nat
  BY ElementsOf DEF Ordered
<1>5. 0 < h
  BY <1>3 DEF Ordered
<1>6. Ordered(t, h, Listeners, hd, n)
  BY <1>3, <1>4, <1>5 DEF Ordered
<1> QED BY <1>2, <1>6

LEMMA OrderedHandle ==
  ASSUME NEW q, NEW h, NEW td, NEW hd, NEW n, Ordered(q, h, td, hd, n),
         h # 0, NEW l \in td
  PROVE  Ordered(q, h, td \ {l}, [hd EXCEPT ![l] = Append(@, h)], n)
<1>1. /\ l \in Listeners /\ hd[l] \in Seq(Nat) /\ h \in Nat /\ Increasing(hd[l])
      /\ \A f \in Elements(hd[l]) : f < h
  BY DEF Ordered
<1>2. PICK s : s = Append(hd[l], h)
  OBVIOUS
<1>3. /\ s \in Seq(Nat) /\ Increasing(s)
      /\ \A f : f \in Elements(s) <=> f \in Elements(hd[l]) \/ f = h
  BY <1>1, <1>2, ElementsOfAppend, IncreasingAppend
<1>4. PICK g : g = [hd EXCEPT ![l] = s]
  OBVIOUS
<1>5. /\ g \in [Listeners -> Seq(Nat)] /\ g[l] = s
      /\ \A k \in Listeners : k # l => g[k] = hd[k]
  BY <1>1, <1>3, <1>4 DEF Ordered
<1>6. \A k \in Listeners : \A e \in Elements(hd[k]) : e \in Nat
  BY ElementsOf DEF Ordered
<1>7. \A k \in Listeners : Increasing(g[k])
  BY <1>3, <1>5 DEF Ordered
<1>8. ASSUME NEW k \in Listeners, NEW e \in Elements(g[k])
      PROVE  /\ e <= n /\ \A f \in Elements(q) : e < f
             /\ e <= h
             /\ k \in td \ {l} => e < h
  <2>1. CASE k = l /\ e = h
    BY <2>1 DEF Ordered
  <2>2. CASE ~(k = l /\ e = h)
    <3>1. e \in Elements(hd[k])
      BY <1>3, <1>5, <2>2
    <3> QED BY <3>1 DEF Ordered
  <2> QED BY <2>1, <2>2
<1>9. Ordered(q, h, td \ {l}, g, n)
  BY <1>5, <1>7, <1>8 DEF Ordered
<1> QED BY <1>2, <1>4, <1>9

LEMMA OrderedLetGo ==
  ASSUME NEW q, NEW h, NEW td, NEW hd, NEW n, Ordered(q, h, td, hd, n)
  PROVE  Ordered(q, 0, {}, hd, n)
<1>1. \A e \in Elements(q) : 0 < e
  <2>1. \A e \in Elements(q) : e \in Nat /\ h < e
    BY ElementsOf DEF Ordered
  <2>2. h \in Nat
    BY DEF Ordered
  <2> QED BY <2>1, <2>2
<1> QED BY <1>1 DEF Ordered

LEMMA OrderedEmpty ==
  ASSUME NEW q, NEW h, NEW td, NEW hd, NEW n, Ordered(q, h, td, hd, n)
  PROVE  Ordered(<<>>, h, td, hd, n)
<1>0. <<>> \in Seq(Nat) /\ Len(<<>>) = 0
  OBVIOUS
<1>1. PICK t : t = <<>> /\ t \in Seq(Nat) /\ Len(t) = 0
  BY <1>0
<1>2. t \in Seq(Nat) /\ ~\E i : i \in 1..Len(t)
  BY <1>1
<1>3. \A e : e \notin Elements(t)
  BY <1>2, ElementsOf
<1>4. Increasing(t)
  BY <1>2, IncreasingOf
<1>5. Ordered(t, h, td, hd, n)
  BY <1>2, <1>3, <1>4 DEF Ordered
<1> QED BY <1>1, <1>5

-----------------------------------------------------------------------------
BusTasks ==
  /\ emitted \in 0..MaxEvents /\ posting \in {0, emitted}
  /\ running => stopping = "no" /\ task = "loop"
  /\ stopping # "no" => task # "none"
  /\ stopping = "no" => bound = {}
  /\ hand # 0 => task \in {"loop", "drain"}
  /\ stopping = "wait" => task \in {"drain", "ended"}
  /\ stopping = "listeners" => task = "ended"

BusStops ==
  /\ \A e \in bound : e <= Queued
  /\ stopping \in {"cancel", "wait", "listeners"} => \A e \in bound : e \notin Elements(queue)
  /\ stopping = "join" => unfinished > 0
  /\ stopping = "join" /\ task = "ended" => cut # {}
  /\ drained # {} => slow \/ cut # {}

BusInv ==
  /\ Bus!TypeOK /\ BusTasks /\ BusStops
  /\ Ordered(queue, hand, todo, handled, Queued)
  /\ Counted(queue, hand, unfinished, cut, Queued)
  /\ Reached(hand, todo, handled)
  /\ Settled(bound, queue, hand, handled, cut \cup drained)

LEMMA AppendType ==
  ASSUME NEW S, NEW s \in Seq(S), NEW e \in S
  PROVE  Append(s, e) \in Seq(S)
  OBVIOUS

LEMMA TailType ==
  ASSUME NEW S, NEW s \in Seq(S), s # <<>>
  PROVE  Tail(s) \in Seq(S) /\ Head(s) \in S
  OBVIOUS

LEMMA QueuedIsNat ==
  ASSUME BusInv
  PROVE  Queued \in Nat /\ Queued <= MaxEvents
  BY EventsAssumption DEF BusInv, BusTasks, Queued, Ordered

(* An event is queued.                                                     *)
LEMMA PutKeeps ==
  ASSUME BusInv, NEW e, e = Queued + 1, e <= MaxEvents, Queued' = e, Bus!Put(e),
         UNCHANGED <<hand, todo, task, running, stopping, handled, cut, drained, slow, bound>>,
         emitted' \in 0..MaxEvents, posting' \in {0, emitted'}, batch' \in Seq(1..MaxEvents)
  PROVE  BusInv'
<1> USE EventsAssumption
<1>1. /\ Queued \in Nat /\ e \in 1..MaxEvents /\ e \in Nat
      /\ queue \in Seq(1..MaxEvents) /\ queue \in Seq(Nat)
      /\ unfinished \in Nat /\ unfinished <= Queued
  BY QueuedIsNat DEF BusInv, Bus!TypeOK, Ordered, Counted
<1>2. PICK q, u : /\ q = Append(queue, e) /\ q \in Seq(1..MaxEvents) /\ Len(q) = Len(queue) + 1
                  /\ \A f : f \in Elements(q) <=> f \in Elements(queue) \/ f = e
                  /\ Ordered(q, hand, todo, handled, e)
                  /\ u = unfinished + 1 /\ u \in 0..MaxEvents /\ u <= e
  <2>1. Append(queue, e) \in Seq(1..MaxEvents)
    BY <1>1, AppendType
  <2>2. /\ Len(Append(queue, e)) = Len(queue) + 1
        /\ \A f : f \in Elements(Append(queue, e)) <=> f \in Elements(queue) \/ f = e
    BY <1>1, ElementsOfAppend
  <2>3. Ordered(Append(queue, e), hand, todo, handled, e)
    BY OrderedPut DEF BusInv
  <2>4. unfinished + 1 \in 0..MaxEvents /\ unfinished + 1 <= e
    BY <1>1
  <2> QED BY <2>1, <2>2, <2>3, <2>4
<1>3. queue' = q /\ unfinished' = u
  BY <1>2 DEF Bus!Put
<1>4. /\ q \in Seq(1..MaxEvents) /\ Len(q) = Len(queue) + 1
      /\ \A f : f \in Elements(q) <=> f \in Elements(queue) \/ f = e
      /\ Ordered(q, hand, todo, handled, e)
      /\ u = unfinished + 1 /\ u \in 0..MaxEvents /\ u <= e
  BY <1>2
<1>5. Bus!TypeOK'
  BY <1>3, <1>4 DEF BusInv, Bus!TypeOK
<1>6. BusTasks'
  BY DEF BusInv, BusTasks
<1>7. BusStops'
  <2>1. \A f \in bound : f \in Nat /\ f <= Queued /\ f # e
    BY <1>1 DEF BusInv, BusStops, Bus!TypeOK
  <2> QED BY <1>1, <1>3, <1>4, <2>1 DEF BusInv, BusStops
<1>8. Ordered(queue, hand, todo, handled, Queued)'
  BY <1>3, <1>4
<1>9. Counted(queue, hand, unfinished, cut, Queued)'
  <2>1. Len(queue) \in Nat /\ InHand(hand) \in Nat
    BY <1>1 DEF InHand
  <2> QED BY <1>1, <1>3, <1>4, <2>1 DEF BusInv, Counted, InHand
<1>10. Reached(hand, todo, handled)'
  BY DEF BusInv, Reached
<1>11. Settled(bound, queue, hand, handled, cut \cup drained)'
  BY <1>3, <1>4 DEF BusInv, Settled
<1> QED BY <1>5, <1>6, <1>7, <1>8, <1>9, <1>10, <1>11 DEF BusInv

LEMMA EmitKeeps ==
  ASSUME BusInv, Bus!Emit
  PROVE  BusInv'
<1> USE EventsAssumption
<1>1. /\ emitted \in Nat /\ emitted < MaxEvents /\ posting = 0 /\ Queued = emitted
      /\ emitted' = emitted + 1 /\ emitted' \in 1..MaxEvents
  BY DEF BusInv, BusTasks, Bus!Emit, Queued
<1>2. batch' \in Seq(1..MaxEvents)
  BY <1>1, AppendType DEF BusInv, Bus!TypeOK, Bus!Emit
<1>3. CASE posting' = emitted' /\ UNCHANGED <<queue, unfinished>>
  <2>1. Queued' = Queued
    BY <1>1, <1>3 DEF Queued
  <2>2. posting' \in 0..MaxEvents /\ emitted' \in 0..MaxEvents
    BY <1>1, <1>3
  <2> QED BY <1>2, <1>3, <2>1, <2>2 DEF Bus!Emit, BusInv, Bus!TypeOK, BusTasks, BusStops, Ordered,
       Counted, Reached, Settled
<1>4. CASE Bus!Put(emitted') /\ UNCHANGED posting
  <2>1. Queued' = emitted' /\ emitted' = Queued + 1 /\ emitted' <= MaxEvents
          /\ emitted' \in 0..MaxEvents /\ posting' \in {0, emitted'}
    BY <1>1, <1>4 DEF Queued
  <2> QED BY <1>2, <1>4, <2>1, PutKeeps DEF Bus!Emit
<1> QED BY <1>3, <1>4 DEF Bus!Emit

LEMMA PostEndsKeeps ==
  ASSUME BusInv, Bus!PostEnds
  PROVE  BusInv'
<1> USE EventsAssumption
<1>1. /\ emitted \in 0..MaxEvents /\ posting # 0 /\ posting = emitted /\ Queued = emitted - 1
      /\ posting' = 0 /\ emitted' = emitted
  BY DEF BusInv, BusTasks, Bus!PostEnds, Queued
<1>2. Queued' = posting /\ posting = Queued + 1 /\ posting <= MaxEvents
        /\ emitted' \in 0..MaxEvents /\ posting' \in {0, emitted'}
  BY <1>1 DEF Queued
<1>3. batch' \in Seq(1..MaxEvents)
  BY DEF Bus!PostEnds
<1> QED BY <1>2, <1>3, PutKeeps DEF Bus!PostEnds

LEMMA ConfigureKeeps ==
  ASSUME BusInv, Bus!Configure
  PROVE  BusInv'
<1>1. Queued' = Queued
  BY DEF Bus!Configure, Queued
<1> QED BY <1>1 DEF Bus!Configure, BusInv, Bus!TypeOK, BusTasks, BusStops, Ordered, Counted,
       Reached, Settled

LEMMA TakeKeeps ==
  ASSUME BusInv, Bus!Take
  PROVE  BusInv'
<1>1. /\ hand = 0 /\ queue # <<>> /\ queue \in Seq(1..MaxEvents) /\ queue \in Seq(Nat)
      /\ Increasing(queue) /\ task \in {"loop", "drain"}
      /\ todo' = Listeners /\ Queued' = Queued
      /\ UNCHANGED <<unfinished, task, running, stopping, emitted, batch,
                     posting, handled, cut, drained, slow, bound>>
  BY DEF BusInv, Bus!TypeOK, Ordered, Bus!Take, Queued
<1>2. PICK q, h : /\ q = Tail(queue) /\ h = Head(queue)
                  /\ q \in Seq(1..MaxEvents) /\ h \in 1..MaxEvents
                  /\ Len(q) = Len(queue) - 1
                  /\ \A f : f \in Elements(queue) <=> f \in Elements(q) \/ f = h
                  /\ Ordered(q, h, Listeners, handled, Queued)
  <2>1. Tail(queue) \in Seq(1..MaxEvents) /\ Head(queue) \in 1..MaxEvents
    BY <1>1, TailType
  <2>2. /\ Len(Tail(queue)) = Len(queue) - 1
        /\ \A f : f \in Elements(queue) <=> f \in Elements(Tail(queue)) \/ f = Head(queue)
    BY <1>1, OfTail
  <2>3. Ordered(queue, 0, todo, handled, Queued)
    BY <1>1 DEF BusInv
  <2>4. Ordered(Tail(queue), Head(queue), Listeners, handled, Queued)
    BY <1>1, <2>3, OrderedTake
  <2> QED BY <2>1, <2>2, <2>4
<1>3. queue' = q /\ hand' = h
  BY <1>2 DEF Bus!Take
<1>4. /\ q \in Seq(1..MaxEvents) /\ h \in 1..MaxEvents
      /\ Len(q) = Len(queue) - 1
      /\ \A f : f \in Elements(queue) <=> f \in Elements(q) \/ f = h
      /\ Ordered(q, h, Listeners, handled, Queued)
  BY <1>2
<1>5. Bus!TypeOK'
  BY <1>1, <1>3, <1>4 DEF BusInv, Bus!TypeOK
<1>6. BusTasks'
  BY <1>1, <1>3 DEF BusInv, BusTasks
<1>7. BusStops'
  BY <1>1, <1>3, <1>4 DEF BusInv, BusStops
<1>8. Ordered(queue, hand, todo, handled, Queued)'
  BY <1>1, <1>3, <1>4
<1>9. Counted(queue, hand, unfinished, cut, Queued)'
  <2>1. Len(queue) \in Nat /\ h # 0 /\ InHand(hand) = 0 /\ InHand(h) = 1
    BY <1>1, <1>4 DEF InHand
  <2> QED BY <1>1, <1>3, <1>4, <2>1 DEF BusInv, Counted
<1>10. Reached(hand, todo, handled)'
  BY <1>1 DEF BusInv, Reached
<1>11. Settled(bound, queue, hand, handled, cut \cup drained)'
  BY <1>1, <1>3, <1>4 DEF BusInv, Settled, Bus!TypeOK
<1> QED BY <1>5, <1>6, <1>7, <1>8, <1>9, <1>10, <1>11 DEF BusInv

LEMMA HandleKeeps ==
  ASSUME BusInv, NEW l \in Listeners, Bus!Handle(l)
  PROVE  BusInv'
<1>1. /\ hand # 0 /\ hand \in 1..MaxEvents /\ l \in todo /\ Queued' = Queued
      /\ handled \in [Listeners -> Seq(1..MaxEvents)] /\ handled[l] \in Seq(1..MaxEvents)
      /\ handled[l] \in Seq(Nat) /\ todo' = todo \ {l} /\ hand \in Nat
      /\ UNCHANGED <<queue, hand, unfinished, task, running, stopping, emitted, batch,
                     posting, cut, drained, slow, bound>>
  BY EventsAssumption DEF BusInv, Bus!TypeOK, Ordered, Bus!Handle, Queued
<1>2. PICK s : /\ s = Append(handled[l], hand) /\ s \in Seq(1..MaxEvents)
               /\ \A f : f \in Elements(s) <=> f \in Elements(handled[l]) \/ f = hand
  <2>1. Append(handled[l], hand) \in Seq(1..MaxEvents)
    BY <1>1, AppendType
  <2>2. \A f : f \in Elements(Append(handled[l], hand)) <=> f \in Elements(handled[l]) \/ f = hand
    BY <1>1, ElementsOfAppend
  <2> QED BY <2>1, <2>2
<1>3. PICK g : /\ g = [handled EXCEPT ![l] = Append(@, hand)]
               /\ g \in [Listeners -> Seq(1..MaxEvents)] /\ g[l] = s
               /\ \A k \in Listeners : k # l => g[k] = handled[k]
               /\ Ordered(queue, hand, todo \ {l}, g, Queued)
  <2>1. Ordered(queue, hand, todo \ {l}, [handled EXCEPT ![l] = Append(@, hand)], Queued)
    BY <1>1, OrderedHandle DEF BusInv
  <2> QED BY <1>1, <1>2, <2>1
<1>4. handled' = g
  BY <1>3 DEF Bus!Handle
<1>5. \A f : f \in Elements(s) <=> f \in Elements(handled[l]) \/ f = hand
  BY <1>2
<1>6. /\ g \in [Listeners -> Seq(1..MaxEvents)] /\ g[l] = s
      /\ \A k \in Listeners : k # l => g[k] = handled[k]
      /\ Ordered(queue, hand, todo \ {l}, g, Queued)
  BY <1>3
<1>7. Bus!TypeOK' /\ BusTasks' /\ BusStops'
  BY <1>1, <1>4, <1>6 DEF BusInv, Bus!TypeOK, BusTasks, BusStops
<1>8. Ordered(queue, hand, todo, handled, Queued)'
  BY <1>1, <1>4, <1>6
<1>9. Counted(queue, hand, unfinished, cut, Queued)'
  BY <1>1 DEF BusInv
<1>10. Reached(hand, todo, handled)'
  BY <1>1, <1>4, <1>5, <1>6 DEF BusInv, Reached
<1>11. Settled(bound, queue, hand, handled, cut \cup drained)'
  BY <1>1, <1>4, <1>5, <1>6 DEF BusInv, Settled
<1> QED BY <1>7, <1>8, <1>9, <1>10, <1>11 DEF BusInv

LEMMA TaskDoneKeeps ==
  ASSUME BusInv, Bus!TaskDone
  PROVE  BusInv'
<1>1. /\ hand # 0 /\ todo = {} /\ Queued' = Queued /\ hand' = 0
      /\ unfinished' = unfinished - 1 /\ queue \in Seq(Nat)
      /\ stopping' = IF stopping = "join" /\ unfinished' = 0 THEN "cancel" ELSE stopping
      /\ UNCHANGED <<queue, todo, task, running, emitted, batch, posting, handled, cut,
                     drained, slow, bound>>
  BY DEF BusInv, Ordered, Bus!TaskDone, Queued
<1>2. /\ Len(queue) \in Nat /\ unfinished \in Nat /\ Len(queue) <= unfinished - 1
      /\ cut = {} => unfinished - 1 = Len(queue)
      /\ unfinished - 1 \in Nat /\ unfinished - 1 <= Queued
      /\ unfinished - 1 \in 0..MaxEvents
  BY EventsAssumption, <1>1, QueuedIsNat DEF BusInv, Counted, InHand
<1>3. Bus!TypeOK'
  <2>1. hand' \in 0..MaxEvents /\ unfinished' \in 0..MaxEvents
    BY EventsAssumption, <1>1, <1>2
  <2>2. stopping' \in {"no", "join", "cancel", "wait", "listeners"}
    BY <1>1 DEF BusInv, Bus!TypeOK
  <2> QED BY <1>1, <2>1, <2>2 DEF BusInv, Bus!TypeOK
<1>4. BusTasks'
  BY <1>1 DEF BusInv, BusTasks
<1>5. BusStops'
  <2>1. unfinished' = 0 => \A e : e \notin Elements(queue)
    BY <1>1, <1>2, ElementsOf
  <2> QED BY <1>1, <1>2, <2>1 DEF BusInv, BusStops, BusTasks
<1>6. Ordered(queue, hand, todo, handled, Queued)'
  BY <1>1, OrderedLetGo DEF BusInv
<1>7. Counted(queue, hand, unfinished, cut, Queued)'
  BY <1>1, <1>2 DEF Counted, InHand
<1>8. Reached(hand, todo, handled)'
  BY <1>1 DEF Reached
<1>9. Settled(bound, queue, hand, handled, cut \cup drained)'
  BY <1>1 DEF BusInv, Settled, Reached
<1> QED BY <1>3, <1>4, <1>5, <1>6, <1>7, <1>8, <1>9 DEF BusInv

LEMMA LoopEndsKeeps ==
  ASSUME BusInv, Bus!LoopEnds
  PROVE  BusInv'
<1>1. Queued' = Queued
  BY DEF Bus!LoopEnds, Queued
<1> QED BY <1>1 DEF Bus!LoopEnds, Bus!AfterLoop, BusInv, Bus!TypeOK, BusTasks, BusStops, Ordered,
       Counted, Reached, Settled

LEMMA DrainEndsKeeps ==
  ASSUME BusInv, Bus!DrainEnds
  PROVE  BusInv'
<1>1. /\ Queued' = Queued /\ task = "drain" /\ hand = 0 /\ queue = <<>> /\ task' = "ended"
      /\ UNCHANGED <<queue, unfinished, hand, todo, running, stopping, emitted, batch,
                     posting, handled, cut, drained, slow, bound>>
  BY DEF Bus!DrainEnds, Queued
<1>2. stopping = "join" => cut # {}
  <2>1. Len(queue) = 0
    BY <1>1
  <2> QED BY <1>1, <2>1 DEF BusInv, BusStops, Counted, InHand
<1>3. Bus!TypeOK' /\ BusTasks'
  BY <1>1 DEF BusInv, Bus!TypeOK, BusTasks
<1>4. BusStops'
  BY <1>1, <1>2 DEF BusInv, BusStops
<1> QED BY <1>1, <1>3, <1>4 DEF BusInv

LEMMA StopKeeps ==
  ASSUME BusInv, Bus!Stop
  PROVE  BusInv'
<1>1. /\ running /\ stopping = "no" /\ running' = FALSE /\ Queued' = Queued
      /\ stopping' = IF queue = <<>> THEN "cancel" ELSE "join"
      /\ bound' = Elements(queue) \cup ({hand} \ {0})
      /\ UNCHANGED <<queue, unfinished, hand, todo, task, emitted, batch, posting,
                     handled, cut, drained, slow>>
  BY DEF Bus!Stop, Queued, Elements
<1>2. /\ task = "loop" /\ queue \in Seq(Nat) /\ hand \in Nat /\ hand <= Queued
      /\ \A e \in Elements(queue) : e \in Nat /\ hand < e /\ e <= Queued
      /\ Queued \in Nat /\ Queued <= MaxEvents
  BY <1>1, ElementsOf, QueuedIsNat DEF BusInv, BusTasks, Ordered
<1>3. \A e \in bound' : e \in 1..MaxEvents /\ e <= Queued
  BY EventsAssumption, <1>1, <1>2
<1>4. Bus!TypeOK'
  <2>1. bound' \subseteq 1..MaxEvents
    BY <1>3
  <2>2. stopping' \in {"no", "join", "cancel", "wait", "listeners"}
    BY <1>1
  <2> QED BY <1>1, <2>1, <2>2 DEF BusInv, Bus!TypeOK
<1>5. BusTasks'
  BY <1>1, <1>2 DEF BusInv, BusTasks
<1>6. BusStops'
  <2>1. CASE queue = <<>>
    <3>1. \A e : e \notin Elements(queue)
      <4>1. ~\E i : i \in 1..Len(queue)
        BY <2>1
      <4> QED BY <1>2, <4>1, ElementsOf
    <3>2. stopping' = "cancel"
      BY <1>1, <2>1
    <3> QED BY <1>1, <1>3, <3>1, <3>2 DEF BusInv, BusStops
  <2>2. CASE queue # <<>>
    <3>1. Len(queue) \in Nat /\ Len(queue) # 0
      BY <1>2, <2>2
    <3>2. unfinished > 0
      BY <1>2, <3>1 DEF BusInv, Counted, InHand
    <3>3. stopping' = "join"
      BY <1>1, <2>2
    <3> QED BY <1>1, <1>2, <1>3, <3>2, <3>3 DEF BusInv, BusStops
  <2> QED BY <2>1, <2>2
<1>7. Settled(bound, queue, hand, handled, cut \cup drained)'
  BY <1>1 DEF Settled
<1> QED BY <1>1, <1>4, <1>5, <1>6, <1>7 DEF BusInv

LEMMA JoinTimesOutKeeps ==
  ASSUME BusInv, Bus!JoinTimesOut
  PROVE  BusInv'
<1>1. /\ stopping = "join" /\ stopping' = "cancel" /\ Queued' = Queued
      /\ todo # {} \/ task = "ended"
      /\ drained' = drained \cup Elements(queue)
      /\ slow' = (slow \/ todo # {})
      /\ unfinished' = unfinished - Len(queue) /\ queue' = <<>>
      /\ queue \in Seq(Nat) /\ queue \in Seq(1..MaxEvents)
      /\ UNCHANGED <<hand, todo, task, running, emitted, batch, posting, handled,
                     cut, bound>>
  BY DEF BusInv, Ordered, Bus!TypeOK, Bus!JoinTimesOut, Bus!JoinLimit, Queued, Elements
<1>2. PICK q : /\ q = <<>> /\ Len(q) = 0 /\ q \in Seq(1..MaxEvents)
               /\ Ordered(q, hand, todo, handled, Queued)
  <2>1. Ordered(<<>>, hand, todo, handled, Queued)
    BY OrderedEmpty DEF BusInv
  <2>2. Len(<<>>) = 0 /\ <<>> \in Seq(1..MaxEvents)
    OBVIOUS
  <2> QED BY <2>1, <2>2
<1>3. queue' = q
  BY <1>1, <1>2
<1>4. /\ Len(q) = 0 /\ q \in Seq(1..MaxEvents)
      /\ Ordered(q, hand, todo, handled, Queued) /\ q \in Seq(Nat)
  BY <1>2 DEF Ordered
<1>5. \A e : e \notin Elements(q)
  <2>1. ~\E i : i \in 1..Len(q)
    BY <1>4
  <2> QED BY <1>4, <2>1, ElementsOf
<1>6. /\ Len(queue) \in Nat /\ unfinished' \in Nat /\ InHand(hand) <= unfinished'
      /\ cut = {} => unfinished' = InHand(hand)
      /\ unfinished' <= Queued /\ unfinished' \in 0..MaxEvents
  BY EventsAssumption, <1>1, QueuedIsNat DEF BusInv, Counted, InHand
<1>7. \A e \in Elements(queue) : e \in 1..MaxEvents
  <2>1. \A e \in Elements(queue) : e \in Nat /\ hand < e /\ e <= Queued
    BY <1>1, ElementsOf DEF BusInv, Ordered
  <2>2. hand \in Nat /\ Queued \in Nat /\ Queued <= MaxEvents
    BY QueuedIsNat DEF BusInv, Ordered
  <2> QED BY EventsAssumption, <2>1, <2>2
<1>8. Bus!TypeOK'
  <2>1. (cut \cup drained)' \subseteq 1..MaxEvents /\ slow' \in BOOLEAN
    BY <1>1, <1>7 DEF BusInv, Bus!TypeOK
  <2> QED BY <1>1, <1>3, <1>4, <1>6, <2>1 DEF BusInv, Bus!TypeOK
<1>9. BusTasks'
  BY <1>1 DEF BusInv, BusTasks
<1>10. BusStops'
  BY <1>1, <1>3, <1>5 DEF BusInv, BusStops
<1>11. Counted(queue, hand, unfinished, cut, Queued)'
  BY <1>1, <1>3, <1>4, <1>6 DEF Counted, InHand
<1>12. Reached(hand, todo, handled)'
  BY <1>1 DEF BusInv, Reached
<1>13. Settled(bound, queue, hand, handled, cut \cup drained)'
  BY <1>1 DEF BusInv, Settled
<1>14. Ordered(queue, hand, todo, handled, Queued)'
  BY <1>1, <1>3, <1>4
<1> QED BY <1>8, <1>9, <1>10, <1>11, <1>12, <1>13, <1>14 DEF BusInv

(* The event in hand is cut off: it is counted among the cut.              *)
LEMMA CutOffKeeps ==
  ASSUME BusInv, Bus!CutOff, UNCHANGED <<queue, unfinished, emitted, posting, handled, drained, bound>>
  PROVE  /\ Ordered(queue, hand, todo, handled, Queued)'
         /\ Counted(queue, hand, unfinished, cut, Queued)'
         /\ Reached(hand, todo, handled)'
         /\ Settled(bound, queue, hand, handled, cut \cup drained)'
         /\ hand' = 0 /\ todo' = {} /\ cut' \subseteq 1..MaxEvents /\ cut \subseteq cut'
<1>1. /\ Queued' = Queued /\ hand' = 0 /\ todo' = {} /\ cut' = cut \cup ({hand} \ {0})
      /\ hand \in 0..MaxEvents /\ bound \subseteq 1..MaxEvents /\ cut \subseteq 1..MaxEvents
      /\ queue \in Seq(Nat)
  BY DEF Bus!CutOff, Queued, BusInv, Bus!TypeOK, Ordered
<1>2. Ordered(queue, hand, todo, handled, Queued)'
  BY <1>1, OrderedLetGo DEF BusInv
<1>3. Counted(queue, hand, unfinished, cut, Queued)'
  <2>1. Len(queue) \in Nat
    BY <1>1
  <2> QED BY <1>1, <2>1 DEF BusInv, Counted, InHand
<1>4. Reached(hand, todo, handled)'
  BY <1>1 DEF Reached
<1>5. Settled(bound, queue, hand, handled, cut \cup drained)'
  BY EventsAssumption, <1>1 DEF BusInv, Settled
<1> QED BY EventsAssumption, <1>1, <1>2, <1>3, <1>4, <1>5

LEMMA CancelKeeps ==
  ASSUME BusInv, Bus!Cancel
  PROVE  BusInv'
<1>1. /\ stopping = "cancel" /\ (task = "drain" => hand # 0) /\ Queued' = Queued
      /\ UNCHANGED <<queue, unfinished, running, emitted, batch, posting, handled,
                     drained, slow, bound>>
  BY DEF Bus!Cancel, Queued
<1>2. CASE task = "ended"
  <2>1. stopping' = "listeners" /\ UNCHANGED <<task, hand, todo, cut>>
    BY <1>2 DEF Bus!Cancel
  <2> QED BY <1>1, <1>2, <2>1 DEF BusInv, Bus!TypeOK, BusTasks, BusStops, Ordered, Counted,
       Reached, Settled
<1>3. CASE task # "ended"
  <2>1. /\ stopping' = "wait" /\ Bus!CutOff
        /\ task' = IF task = "loop" THEN "drain" ELSE "ended"
    BY <1>3 DEF Bus!Cancel, Bus!AfterLoop
  <2>2. /\ Ordered(queue, hand, todo, handled, Queued)'
        /\ Counted(queue, hand, unfinished, cut, Queued)'
        /\ Reached(hand, todo, handled)'
        /\ Settled(bound, queue, hand, handled, cut \cup drained)'
        /\ hand' = 0 /\ todo' = {} /\ cut' \subseteq 1..MaxEvents /\ cut \subseteq cut'
    BY <1>1, <2>1, CutOffKeeps
  <2>3. Bus!TypeOK'
    <3>1. 0 \in 0..MaxEvents
      BY EventsAssumption
    <3> QED BY <1>1, <2>1, <2>2, <3>1 DEF BusInv, Bus!TypeOK
  <2>4. BusTasks'
    BY <1>1, <2>1, <2>2 DEF BusInv, BusTasks
  <2>5. BusStops'
    BY <1>1, <2>1, <2>2 DEF BusInv, BusStops
  <2> QED BY <2>2, <2>3, <2>4, <2>5 DEF BusInv
<1> QED BY <1>2, <1>3

LEMMA TaskEndedKeeps ==
  ASSUME BusInv, Bus!TaskEnded
  PROVE  BusInv'
<1>1. Queued' = Queued
  BY DEF Bus!TaskEnded, Queued
<1> QED BY <1>1 DEF Bus!TaskEnded, BusInv, Bus!TypeOK, BusTasks, BusStops, Ordered, Counted,
       Reached, Settled

LEMMA WaitTimesOutKeeps ==
  ASSUME BusInv, Bus!WaitTimesOut
  PROVE  BusInv'
<1>1. /\ stopping = "wait" /\ stopping' = "listeners" /\ task' = "ended" /\ Bus!CutOff
      /\ Queued' = Queued
      /\ UNCHANGED <<queue, unfinished, running, emitted, batch, posting, handled,
                     drained, slow, bound>>
  BY DEF Bus!WaitTimesOut, Queued
<1>2. /\ Ordered(queue, hand, todo, handled, Queued)'
      /\ Counted(queue, hand, unfinished, cut, Queued)'
      /\ Reached(hand, todo, handled)'
      /\ Settled(bound, queue, hand, handled, cut \cup drained)'
      /\ hand' = 0 /\ todo' = {} /\ cut' \subseteq 1..MaxEvents /\ cut \subseteq cut'
  BY <1>1, CutOffKeeps
<1>3. Bus!TypeOK'
  <2>1. 0 \in 0..MaxEvents
    BY EventsAssumption
  <2> QED BY <1>1, <1>2, <2>1 DEF BusInv, Bus!TypeOK
<1>4. BusTasks' /\ BusStops'
  BY <1>1, <1>2 DEF BusInv, BusTasks, BusStops
<1> QED BY <1>2, <1>3, <1>4 DEF BusInv

LEMMA StopListenersKeeps ==
  ASSUME BusInv, Bus!StopListeners
  PROVE  BusInv'
<1>1. Queued' = Queued
  BY DEF Bus!StopListeners, Queued
<1> QED BY <1>1 DEF Bus!StopListeners, BusInv, Bus!TypeOK, BusTasks, BusStops, Ordered, Counted,
       Reached, Settled

LEMMA BusStep ==
  ASSUME BusInv, Bus!Next
  PROVE  BusInv'
  BY ConfigureKeeps, EmitKeeps, PostEndsKeeps, TakeKeeps, HandleKeeps, TaskDoneKeeps,
     LoopEndsKeeps, DrainEndsKeeps, StopKeeps, JoinTimesOutKeeps, CancelKeeps,
     TaskEndedKeeps, WaitTimesOutKeeps, StopListenersKeeps
     DEF Bus!Next, Bus!Process, Bus!StopStep

LEMMA BusInit ==
  ASSUME Bus!Init
  PROVE  BusInv
<1>1. PICK q : q = <<>> /\ q \in Seq(Nat) /\ q \in Seq(1..MaxEvents) /\ Len(q) = 0
  <2>1. <<>> \in Seq(Nat) /\ <<>> \in Seq(1..MaxEvents) /\ Len(<<>>) = 0
    OBVIOUS
  <2> QED BY <2>1
<1>2. q \in Seq(Nat) /\ q \in Seq(1..MaxEvents) /\ Len(q) = 0 /\ ~\E i : i \in 1..Len(q)
  BY <1>1
<1>3. (\A e : e \notin Elements(q)) /\ Increasing(q)
  BY <1>2, ElementsOf, IncreasingOf
<1>4. PICK g : g = [l \in Listeners |-> q]
  OBVIOUS
<1>5. /\ g \in [Listeners -> Seq(Nat)] /\ g \in [Listeners -> Seq(1..MaxEvents)]
      /\ \A l \in Listeners : g[l] = q
  BY <1>2, <1>4
<1>6. /\ queue = q /\ batch = q /\ handled = g /\ unfinished = 0 /\ hand = 0 /\ todo = {}
      /\ task = "none" /\ running = FALSE /\ stopping = "no" /\ emitted = 0 /\ posting = 0
      /\ cut = {} /\ drained = {} /\ slow = FALSE /\ bound = {}
  BY <1>1, <1>4 DEF Bus!Init
<1>7. Queued = 0
  BY <1>6 DEF Queued
<1>8. 0 \in 0..MaxEvents
  BY EventsAssumption
<1>9. Bus!TypeOK
  BY <1>2, <1>5, <1>6, <1>8 DEF Bus!TypeOK
<1>10. BusTasks /\ BusStops
  BY <1>6, <1>8 DEF BusTasks, BusStops
<1>11. Ordered(queue, hand, todo, handled, Queued)
  BY <1>2, <1>3, <1>5, <1>6, <1>7 DEF Ordered
<1>12. Counted(queue, hand, unfinished, cut, Queued)
  BY <1>2, <1>6, <1>7 DEF Counted, InHand
<1>13. Reached(hand, todo, handled) /\ Settled(bound, queue, hand, handled, cut \cup drained)
  BY <1>6 DEF Reached, Settled
<1> QED BY <1>9, <1>10, <1>11, <1>12, <1>13 DEF BusInv

LEMMA BusInvImplies ==
  ASSUME BusInv
  PROVE  Bus!TypeOK /\ Bus!EventsAreHandled
<1>1. ASSUME NEW l \in Listeners, NEW i \in DOMAIN handled[l], NEW j \in DOMAIN handled[l], i < j
      PROVE  handled[l][i] < handled[l][j]
  BY <1>1 DEF BusInv, Ordered, Increasing
<1>2. ASSUME stopping = "listeners", NEW e \in bound, e \notin cut \cup drained
      PROVE  \A l \in Listeners : e \in Bus!Range(handled[l])
  BY EventsAssumption, <1>2 DEF BusInv, Bus!TypeOK, BusTasks, BusStops, Settled, Elements
<1>3. drained # {} => slow \/ cut # {}
  BY DEF BusInv, BusStops
<1>4. Bus!TypeOK
  BY DEF BusInv
<1> QED BY <1>1, <1>2, <1>3, <1>4 DEF Bus!EventsAreHandled

-----------------------------------------------------------------------------
(* The parts together.                                                     *)

RuntimeInv == SigInv /\ ConnInv /\ Lives(agent) /\ BusInv

LEMMA RuntimeInit == Init => RuntimeInv
<1> SUFFICES ASSUME Init
             PROVE  RuntimeInv
  OBVIOUS
<1>1. SigInv
  BY SignalsAssumption DEF Init, Sig!Init, SigInv, Sig!TypeOK, Sig!SignalsAreNotStale
<1>2. ConnInv
  BY ConnectionsAssumption, FS_EmptySet DEF Init, Conn!Init, ConnInv, Conn!TypeOK,
     Conn!OneConnectionPerServer
<1>3. Lives(agent) /\ BusInv
  BY LifeInit, BusInit DEF Init
<1> QED BY <1>1, <1>2, <1>3 DEF RuntimeInv

LEMMA RuntimeStep == RuntimeInv /\ [Next]_allVars => RuntimeInv'
<1> SUFFICES ASSUME RuntimeInv, [Next]_allVars
             PROVE  RuntimeInv'
  OBVIOUS
<1>1. UNCHANGED sigVars => SigInv'
  BY DEF RuntimeInv, SigInv, sigVars, Sig!TypeOK, Sig!SignalsAreNotStale
<1>2. UNCHANGED connVars => ConnInv'
  BY DEF RuntimeInv, ConnInv, connVars, Conn!TypeOK, Conn!OneConnectionPerServer
<1>3. UNCHANGED agent => Lives(agent')
  BY DEF RuntimeInv
<1>4. UNCHANGED busVars => BusInv'
  BY DEF RuntimeInv, BusInv, busVars, Bus!TypeOK, BusTasks, BusStops, Queued
<1>5. CASE OnlyBus /\ Bus!Next
  BY <1>1, <1>2, <1>3, <1>5, BusStep DEF OnlyBus, RuntimeInv
<1>6. CASE OnlySig /\ Sig!Next
  BY <1>2, <1>3, <1>4, <1>6, SigStep DEF OnlySig, RuntimeInv
<1>7. CASE OnlyConn /\ Conn!Next
  BY <1>1, <1>3, <1>4, <1>7, ConnStep DEF OnlyConn, RuntimeInv
<1>8. CASE OnlyLife /\ Life!Next
  BY <1>1, <1>2, <1>4, <1>8, LifeStep DEF OnlyLife, RuntimeInv
<1>9. CASE UNCHANGED allVars
  BY <1>1, <1>2, <1>3, <1>4, <1>9 DEF allVars, RuntimeInv
<1> QED BY <1>5, <1>6, <1>7, <1>8, <1>9 DEF Next

(* The parts of a process keep their invariants, whichever of them runs.   *)
THEOREM RuntimeInvHolds == Spec => []RuntimeInv
  BY RuntimeInit, RuntimeStep, PTL DEF Spec

(* Every variable has its type.                                            *)
THEOREM RuntimeTypes == Spec => []TypeOK
<1>1. RuntimeInv => TypeOK
  BY LivesImplies, BusInvImplies DEF RuntimeInv, SigInv, ConnInv, TypeOK
<1> QED BY <1>1, RuntimeInvHolds, PTL

(* However many listeners there are and however stop falls between the     *)
(* events, each listener is handed them once and in order, and what was    *)
(* queued when the bus was stopped is not missed (AsyncEventBus.stop and   *)
(* _process_events, transport.py 303-424).                                 *)
THEOREM EventsReachListeners == Spec => []EventsAreHandled
<1>1. RuntimeInv => EventsAreHandled
  BY BusInvImplies DEF RuntimeInv, EventsAreHandled
<1> QED BY <1>1, RuntimeInvHolds, PTL

(* A wait for a signal never ends with a signal that was sent before it    *)
(* began, with any number of waiters and requests for input.               *)
THEOREM SignalsAreFresh == Spec => []SignalsAreNotStale
<1>1. RuntimeInv => SignalsAreNotStale
  BY DEF RuntimeInv, SigInv, SignalsAreNotStale
<1> QED BY <1>1, RuntimeInvHolds, PTL

(* A server that was let go has no connection that still counts as its own,*)
(* and an agent whose stop returned has neither runtime nor heartbeat,     *)
(* whether the user or the heartbeat called it and whatever the other did  *)
(* meanwhile.                                                              *)
THEOREM WhatStopsIsDown == Spec => []NothingStaysBehind
<1>1. RuntimeInv => NothingStaysBehind
  BY LivesImplies DEF RuntimeInv, ConnInv, NothingStaysBehind
<1> QED BY <1>1, RuntimeInvHolds, PTL
=============================================================================
