--------------------------- MODULE McpAggregator ----------------------------
(* MCPAggregator (aip_agent/mcp/mcp_aggregator.py) and the agent built on  *)
(* it (agents/agent.py): the index of the tools of several servers, loaded *)
(* at the start or server by server, and the call of a tool by its name.   *)
(*                                                                         *)
(* A name is a sequence of the parts between its separators, so that the   *)
(* name of a tool of a server is the concatenation of the two.             *)
EXTENDS Naturals, Sequences, FiniteSetsExt

CONSTANTS
    Configured,     \* server_names at the start, without repetition
    Grpc,           \* the servers reached over the worker runtime
    Loadable,       \* the servers the agent may be told to load
    ToolsOf,        \* the tools of each server, a set of names
    Functions,      \* names of the functions the agent runs itself
    Called,         \* names that are called
    Tasks,          \* coroutines that use the aggregator
    MaxNames        \* bound: no server is loaded by name beyond it

(* names, for server_names; map, for _namespaced_tool_map; rows, for       *)
(* _server_to_tool_map, in the order of insertion; grpc, for               *)
(* _grpc_server_map; loaded, for initialized; persist, for                 *)
(* connection_persistence; manager, the connection manager; job, what each *)
(* coroutine does; absent, servers whose load raised, for the properties.  *)
VARIABLE agg

Servers == Range(Configured) \cup Loadable

Steps == {"idle", "ask", "connect", "gather", "askOne", "getOne", "called"}

Nowhere == [server |-> <<>>, tool |-> <<>>]

(* A coroutine: where it is, how far it has gone through server_names, the *)
(* servers it loads, the name it calls, what the index had under that name *)
(* when it was called, and what it came to call.                           *)
Idle == [at |-> "idle", next |-> 1, load |-> <<>>, call |-> <<>>, want |-> Nowhere,
         target |-> Nowhere]

TypeOK ==
    /\ Range(agg.names) \subseteq Servers /\ agg.grpc \subseteq Grpc
    /\ \A r \in Range(agg.rows) : r.server \in Servers /\ r.tools \subseteq ToolsOf[r.server]
    /\ agg.manager \in {"none", "open", "cancelled", "closed"}
    /\ {agg.loaded, agg.persist} \subseteq BOOLEAN
    /\ \A t \in Tasks : agg.job[t].at \in Steps

Init ==
    agg \in [names : {Configured}, map : {<<>>}, rows : {<<>>}, grpc : {{}},
             loaded : {FALSE}, persist : BOOLEAN, manager : {"none"},
             job : {[t \in Tasks |-> Idle]}, absent : {{}}]

-----------------------------------------------------------------------------
(* The parts between two waits, as operators on the record.                *)

Do(a, t, j) == [a EXCEPT !.job[t] = j]

(* The coroutine returns or raises.                                        *)
Quit(a, t) == Do(a, t, Idle)

IsListed(a, s) == \E r \in Range(a.rows) : r.server = s

(* The tools of a server enter the index, those of an equal name replaced. *)
Index(a, s, tools) ==
    LET new == {s \o t : t \in tools}
        row == [server |-> s, tools |-> tools] IN
    [a EXCEPT !.map = [n \in new \cup DOMAIN a.map |->
                         IF n \in new THEN [server |-> s, tool |-> SubSeq(n, Len(s) + 1, Len(n))]
                         ELSE a.map[n]],
              !.rows = IF IsListed(a, s)
                       THEN [i \in DOMAIN @ |-> IF @[i].server = s THEN row ELSE @[i]]
                       ELSE Append(@, row),
              !.absent = @ \ {s}]

(* load_grpc_server, once it is answered: without tools it leaves no trace.*)
IndexGrpc(a, s, tools) ==
    IF tools = {} THEN a
    ELSE [Index(a, s, tools) EXCEPT !.names = Append(@, s), !.grpc = @ \cup {s}]

SplitLast(name) ==
    [server |-> SubSeq(name, 1, Len(name) - 1), tool |-> <<name[Len(name)]>>]

(* name.split(SEP, 1): the server is what stands before the first one.     *)
Split(name) == [server |-> <<Head(name)>>, tool |-> Tail(name)]

(* A name without separator is looked for in all rows; the loop over the   *)
(* rows goes on after a match, so that the last one counts.                *)
Find(a, name) ==
    LET with == {i \in DOMAIN a.rows : name \in a.rows[i].tools} IN
    IF with = {} THEN Nowhere ELSE [server |-> a.rows[Max(with)].server, tool |-> name]

(* call_tool, up to the request to the server.                             *)
Call(a, t) ==
    LET name == a.job[t].call IN
    Do(a, t, [Idle EXCEPT
        !.at = "called", !.call = name, !.want = a.job[t].want,
        !.target = IF Len(name) > 1 THEN Split(name) ELSE Find(a, name)])

Loaded(a, t) == IF a.job[t].call = <<>> THEN Quit(a, t) ELSE Call(a, t)

Gather(a, t) == Do(a, t, [a.job[t] EXCEPT !.at = "gather", !.load = a.names])

(* load_servers walks the list, which grows meanwhile, to the next server  *)
(* to ask over the runtime, or to its end and to the connections.          *)
Walk(a, t) ==
    LET asks == {i \in a.job[t].next..Len(a.names) : a.names[i] \in Grpc \ a.grpc} IN
    IF asks # {}
    THEN LET i == Min(asks) IN
         Do(a, t, [a.job[t] EXCEPT !.at = "ask", !.next = i + 1, !.load = <<a.names[i]>>])
    ELSE IF a.persist /\ \E s \in Range(a.names) : s \notin Grpc
    THEN Do(a, t, [a.job[t] EXCEPT !.at = "connect"])
    ELSE Gather(a, t)

(* load_servers, unless it was done.                                       *)
Load(a, t) ==
    IF a.loaded THEN Loaded(a, t)
    ELSE Walk(Do([a EXCEPT !.map = <<>>, !.rows = <<>>], t, [a.job[t] EXCEPT !.next = 1]), t)

-----------------------------------------------------------------------------
Free(t) == agg.job[t].at \in {"idle", "called"}

Begin(t, name) ==
    Do(agg, t, [Idle EXCEPT
        !.call = name,
        !.want = IF name \in DOMAIN agg.map THEN agg.map[name] ELSE Nowhere])

(* __aenter__: Agent.initialize, and Agent.list_tools when not initialized.*)
Enter(t) ==
    /\ Free(t) /\ ~agg.loaded
    /\ LET a == Begin(t, <<>>) IN
         agg' = Load(IF a.persist THEN [a EXCEPT !.manager = "open"] ELSE a, t)

(* Agent.call_tool and call_tool of a tool that is no function of its own. *)
CallTool(t) ==
    /\ Free(t)
    /\ \E name \in Called \ Functions : agg' = Load(Begin(t, name), t)

CallFunction(t) ==
    /\ Free(t)
    /\ \E name \in Called \cap Functions :
         LET own == [server |-> <<>>, tool |-> name] IN
         agg' = Do(agg, t, [Idle EXCEPT !.at = "called", !.call = name,
                                        !.want = own, !.target = own])

(* list_servers, list_tool and list_tools of the aggregator.               *)
List(t) == Free(t) /\ agg' = Load(Begin(t, <<>>), t)

(* load_server, up to its first wait.                                      *)
LoadServer(t) ==
    /\ Free(t) /\ Len(agg.names) < MaxNames
    /\ \E s \in Loadable :
         /\ ~IsListed(agg, s)
         /\ agg' = Do(agg, t, [Idle EXCEPT !.at = IF s \in Grpc THEN "askOne" ELSE "getOne",
                                            !.load = <<s>>])

(* The runtime answers list_tools of a server, or the request raises.      *)
Asked(t) ==
    /\ agg.job[t].at \in {"ask", "askOne"}
    /\ LET s == agg.job[t].load[1] IN
         \/ agg' = Quit(agg, t)
         \/ \E tools \in {ToolsOf[s], {}} :
              LET a == IndexGrpc(agg, s, tools) IN
              agg' = IF agg.job[t].at = "ask" THEN Walk(a, t) ELSE Quit(a, t)

(* The persistent connections of the servers listed are made.              *)
Connected(t) ==
    /\ agg.job[t].at = "connect"
    /\ \/ agg.manager = "open" /\ agg' = Gather(agg, t)
       \/ agg' = Quit(agg, t)

(* load_server over SSE: the connection, then its tools, none if that      *)
(* fails; without persistence there is no manager to ask.                  *)
GotOne(t) ==
    /\ agg.job[t].at = "getOne"
    /\ LET s == agg.job[t].load[1] IN
         \/ agg' = Quit(agg, t)
         \/ /\ agg.manager = "open"
            /\ \E tools \in {ToolsOf[s], {}} :
                 agg' = [Index(Quit(agg, t), s, tools) EXCEPT !.names = Append(@, s)]

(* What gather gave for a server: its tools, none, or an exception.        *)
Enters(a, s, good, empty) ==
    IF s \in good THEN Index(a, s, ToolsOf[s])
    ELSE IF s \in empty THEN Index(a, s, {})
    ELSE [a EXCEPT !.absent = @ \cup {s}]

(* The loop over the results, in the order of the servers.                 *)
AllEntered(a, load, good, empty) ==
    LET after[n \in 0..Len(load)] ==
          IF n = 0 THEN a ELSE Enters(after[n - 1], load[n], good, empty)
    IN  after[Len(load)]

(* gather ends, every server with its tools, with none, or with an         *)
(* exception.  The list has the runtime's servers too, whose transport is  *)
(* refused: a persistent manager is then cancelled with all it holds.      *)
Gathered(t) ==
    /\ agg.job[t].at = "gather"
    /\ LET all == Range(agg.job[t].load)
           refused == agg.persist /\ all \cap Grpc # {} /\ agg.manager = "open"
           sound == ~agg.persist \/ (agg.manager = "open" /\ ~refused) IN
       \E good \in SUBSET (all \ Grpc), empty \in SUBSET (all \ Grpc) :
         /\ good \cap empty = {} /\ (sound \/ good = {})
         /\ LET a == AllEntered(agg, agg.job[t].load, good, empty) IN
            agg' = Loaded([a EXCEPT !.loaded = TRUE,
                              !.manager = IF refused THEN "cancelled" ELSE @], t)

(* A task that is in the cancelled group is interrupted instead.           *)
Interrupted(t) ==
    /\ agg.job[t].at \in {"connect", "gather", "getOne"}
    /\ agg.manager = "cancelled" \/ (agg.persist /\ Range(agg.job[t].load) \cap Grpc # {})
    /\ agg' = [Quit(agg, t) EXCEPT !.manager = IF @ = "open" THEN "cancelled" ELSE @]

(* close; without persistence it does nothing.                             *)
Close ==
    /\ agg.persist /\ agg.manager \in {"open", "cancelled"}
    /\ agg' = [agg EXCEPT !.manager = "closed", !.loaded = FALSE]

Next ==
    \/ \E t \in Tasks :
         \/ Enter(t) \/ CallTool(t) \/ CallFunction(t) \/ List(t) \/ LoadServer(t)
         \/ Asked(t) \/ Connected(t) \/ GotOne(t) \/ Gathered(t) \/ Interrupted(t)
    \/ Close

Spec == Init /\ [][Next]_agg

-----------------------------------------------------------------------------
(* A call of a name that the index listed goes to the server it was listed *)
(* for, if the server's own name has no separator, and a call without      *)
(* separator to a server that has the tool, also when the index was loaded *)
(* anew or extended in between (call_tool, lines 493-552).                 *)
CallReachesItsServer ==
    \A t \in Tasks : agg.job[t].at = "called" =>
        LET j == agg.job[t] IN
        /\ Len(j.want.server) = 1 => j.target = j.want
        /\ Len(j.call) = 1 /\ Len(j.target.server) > 0 =>
             j.target.tool \in ToolsOf[j.target.server]

(* Once the index is loaded, every configured server but those over the    *)
(* runtime has its row, unless its load raised, and every tool in a row is *)
(* found by its full name (load_servers, lines 168-249).                   *)
LoadedServersAreListed ==
    /\ agg.loaded => \A s \in Range(Configured) \ Grpc : IsListed(agg, s) \/ s \in agg.absent
    /\ \A r \in Range(agg.rows) : \A t \in r.tools : r.server \o t \in DOMAIN agg.map
=============================================================================
