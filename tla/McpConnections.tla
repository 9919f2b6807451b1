--------------------------- MODULE McpConnections ---------------------------
(* MCPConnectionManager (aip_agent/mcp/mcp_connection_manager.py): the     *)
(* persistent connections of an aggregator.  Each connection is held by a  *)
(* lifecycle task in the manager's task group; callers of get_server share *)
(* the connection of a server.  When a lifecycle task raises, the group    *)
(* cancels all the others.                                                 *)
EXTENDS Naturals, FiniteSets

CONSTANTS
    Servers,
    Callers,          \* coroutines that call get_server
    Host,             \* the caller that entered the task group
    MaxConnections    \* bound: connections launched

VARIABLES
    group,      \* the task group: "none", "open", "cancelled", "exiting", "left"
    current,    \* running_servers: the connection of a server, 0 for none
    conn,       \* the connections launched, with their lifecycle tasks
    caller      \* what each caller is doing

mcpVars == <<group, current, conn, caller>>

(* A connection: task "starting", "session" (transport open, initializing),*)
(* "up", or "gone"; ready and asked are its two events.                    *)
Connection ==
    [id : 1..MaxConnections, server : Servers,
     task : {"starting", "session", "up", "gone"},
     session : BOOLEAN, ready : BOOLEAN, asked : BOOLEAN, raised : BOOLEAN]

TypeOK ==
    /\ group \in {"none", "open", "cancelled", "exiting", "left"}
    /\ current \in [Servers -> 0..MaxConnections]
    /\ conn \subseteq Connection
    /\ caller \in [Callers -> [at : {"idle", "wait", "have", "failed"},
                               id : 0..MaxConnections]]

Init ==
    /\ group = "none"
    /\ current = [s \in Servers |-> 0]
    /\ conn = {}
    /\ caller = [c \in Callers |-> [at |-> "idle", id |-> 0]]

Replace(k, new) == conn' = (conn \ {k}) \cup {new}

(* __aenter__                                                              *)
Enter ==
    /\ group = "none"
    /\ group' = "open"
    /\ UNCHANGED <<current, conn, caller>>

Fresh(s) ==
    [id |-> Cardinality(conn) + 1, server |-> s, task |-> "starting",
     session |-> FALSE, ready |-> FALSE, asked |-> FALSE, raised |-> FALSE]

(* get_server and launch_server, up to the wait: the sections under the    *)
(* lock do not wait for anything.  A registered connection is returned as  *)
(* it is, initialized, failed or neither; a group that was left takes no   *)
(* task, and what was registered for it stays.                             *)
GetServer(c, s) ==
    /\ group # "none"
    /\ c = Host => group # "exiting"
    /\ caller[c].at \in {"idle", "have", "failed"}
    /\ IF current[s] # 0
       THEN /\ caller' = [caller EXCEPT ![c] = [at |-> "have", id |-> current[s]]]
            /\ UNCHANGED <<current, conn>>
       ELSE IF group = "left"
       THEN /\ caller' = [caller EXCEPT ![c] = [at |-> "failed", id |-> 0]]
            /\ UNCHANGED <<current, conn>>
       ELSE /\ Cardinality(conn) < MaxConnections
            /\ caller' = [caller EXCEPT ![c] = [at |-> "wait", id |-> Fresh(s).id]]
            /\ current' = [current EXCEPT ![s] = Fresh(s).id]
            /\ conn' = conn \cup {Fresh(s)}
    /\ UNCHANGED group

(* The rest of get_server.  A session that was created but could not be    *)
(* initialized is handed out all the same.                                 *)
HandOut(c) ==
    /\ caller[c].at = "wait"
    /\ \E k \in conn :
         /\ k.id = caller[c].id /\ k.ready
         /\ caller' = [caller EXCEPT ![c] =
              [at |-> IF k.session THEN "have" ELSE "failed", id |-> k.id]]
    /\ UNCHANGED <<group, current, conn>>

(* A cancelled group also interrupts the task that entered it.             *)
Interrupt(c) ==
    /\ c = Host /\ group = "cancelled"
    /\ caller[c].at = "wait"
    /\ caller' = [caller EXCEPT ![c].at = "failed"]
    /\ UNCHANGED <<group, current, conn>>

(* _server_lifecycle_task                                                  *)
OpenSession(k) ==
    /\ k.task = "starting"
    /\ Replace(k, [k EXCEPT !.task = "session", !.session = TRUE])
    /\ UNCHANGED <<group, current, caller>>

Initialized(k) ==
    /\ k.task = "session"
    /\ Replace(k, [k EXCEPT !.task = "up", !.ready = TRUE])
    /\ UNCHANGED <<group, current, caller>>

(* The shutdown event is looked at only once the session is initialized.   *)
ShutDown(k) ==
    /\ k.task = "up" /\ k.asked
    /\ Replace(k, [k EXCEPT !.task = "gone"])
    /\ UNCHANGED <<group, current, caller>>

(* Opening the transport (an unsupported one included) or initializing the *)
(* session raises.  The connection's own waiters are released, and the     *)
(* group is cancelled.  The connection stays registered.                   *)
LifecycleRaises(k) ==
    /\ k.task \in {"starting", "session"}
    /\ Replace(k, [k EXCEPT !.task = "gone", !.ready = TRUE, !.raised = TRUE])
    /\ group' = IF group = "open" THEN "cancelled" ELSE group
    /\ UNCHANGED <<current, caller>>

(* In a cancelled group every lifecycle task is interrupted where it       *)
(* waits; this is no Exception, and nobody releases its waiters.           *)
Cancelled(k) ==
    /\ \E j \in conn : j.raised
    /\ k.task # "gone"
    /\ Replace(k, [k EXCEPT !.task = "gone"])
    /\ UNCHANGED <<group, current, caller>>

AskedNothing(k) == k

Asked(k) == [k EXCEPT !.asked = TRUE]

(* disconnect_server, of the connection registered now.                    *)
Disconnect(s) ==
    /\ current[s] # 0
    /\ conn' = {IF k.id = current[s] THEN Asked(k) ELSE k : k \in conn}
    /\ current' = [current EXCEPT ![s] = 0]
    /\ UNCHANGED <<group, caller>>

(* disconnect_all and __aexit__, as MCPAggregator.close calls them, from   *)
(* the task that entered the group.                                        *)
Close ==
    /\ group \in {"open", "cancelled"}
    /\ caller[Host].at # "wait"
    /\ conn' = {IF k.id = current[k.server] THEN Asked(k) ELSE k : k \in conn}
    /\ current' = [s \in Servers |-> 0]
    /\ group' = "exiting"
    /\ UNCHANGED caller

(* The group is left once every lifecycle task has ended.                  *)
Leave ==
    /\ group = "exiting"
    /\ \A k \in conn : k.task = "gone"
    /\ group' = "left"
    /\ UNCHANGED <<current, conn, caller>>

Resumes(c) == HandOut(c) \/ Interrupt(c)

Lifecycle(k) == OpenSession(k) \/ Initialized(k) \/ ShutDown(k) \/ Cancelled(k)

LifecycleOf(i) == \E k \in conn : k.id = i /\ Lifecycle(k)

Next ==
    \/ Enter
    \/ \E c \in Callers : (\E s \in Servers : GetServer(c, s)) \/ Resumes(c)
    \/ \E k \in conn : Lifecycle(k) \/ LifecycleRaises(k)
    \/ \E s \in Servers : Disconnect(s)
    \/ Close \/ Leave

(* Callers and lifecycle tasks go on; the servers that are waited for come *)
(* up or fail.                                                             *)
Spec ==
    /\ Init /\ [][Next]_mcpVars
    /\ \A c \in Callers : WF_mcpVars(Resumes(c))
    /\ \A i \in 1..MaxConnections : WF_mcpVars(LifecycleOf(i))
    /\ WF_mcpVars(Leave)

-----------------------------------------------------------------------------
(* Of the connections of one server, at most one is kept: any other was    *)
(* asked to shut down or is gone; and what is kept is what is registered,  *)
(* so nothing survives close (get_server, launch_server, disconnect).      *)
OneConnectionPerServer ==
    \A k \in conn : k.task # "gone" /\ ~k.asked => current[k.server] = k.id

(* A caller that waits gets its connection or an error, the one exception  *)
(* being that another server failed: of the callers then waiting only the  *)
(* one that entered the group is sure to go on.                            *)
GetServerReturns ==
    \A c \in Callers :
        caller[c].at = "wait" ~>
            (caller[c].at # "wait" \/ (c # Host /\ \E k \in conn : k.raised))

(* close ends, provided no server is launched while it waits.              *)
CloseReturns ==
    (group = "exiting") ~> (group = "left" \/ \E k \in conn : (~k.asked /\ k.task # "gone"))
=============================================================================
