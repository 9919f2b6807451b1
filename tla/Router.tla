------------------------------- MODULE Router -------------------------------
(* One call of LLMRouter.route, route_to_server, route_to_agent or         *)
(* route_to_function (workflows/router): the categories are built once, a  *)
(* model is shown those of the wanted kinds and names some, and the names  *)
(* are looked up.  The model may name anything.                            *)
EXTENDS Naturals, Sequences, SequencesExt, FiniteSets, Lists

CONSTANTS
    CategoryNames,   \* names of servers, agents and functions
    Configured,      \* the servers of the registry's configuration
    MaxTop,          \* largest top_k asked for
    MaxNamed         \* bound: categories the model names

VARIABLE run

At(l) == run.kind = "router" /\ run.at = l

Kinds == {"server", "agent", "function"}

TypeOK == run.kind = "router" =>
    /\ run.at \in {"start", "ask", "done"}
    /\ run.outcome \in {"none", "returned", "raised"}
    /\ run.named \in [Kinds -> SUBSET CategoryNames]
    /\ run.wanted \subseteq Kinds
    /\ run.top \in 1..MaxTop
    /\ run.shown \subseteq CategoryNames
    /\ run.answer \in Seq(CategoryNames \cup {"unknown"})
    /\ run.result \in Seq(Kinds \X CategoryNames)

Started(named, wanted, top) ==
    [kind |-> "router", at |-> "start", named |-> named, wanted |-> wanted,
     top |-> top, shown |-> {}, answer |-> <<>>, result |-> <<>>,
     outcome |-> "none"]

(* A router has at least one category.                                     *)
Init == \E named \in [Kinds -> SUBSET CategoryNames], top \in 1..MaxTop,
           wanted \in {Kinds} \cup {{k} : k \in Kinds} :
          /\ \E k \in Kinds : named[k] # {}
          /\ run = Started(named, wanted, top)

(* initialize and _generate_context: a server without a configuration has  *)
(* no description to read, and building its category raises.               *)
Initialize ==
    /\ At("start")
    /\ run' = IF run.named["server"] \subseteq Configured
              THEN [run EXCEPT !.at = "ask",
                      !.shown = UNION {run.named[k] : k \in run.wanted}]
              ELSE [run EXCEPT !.at = "done", !.outcome = "raised"]

(* categories holds one entry per name; of two kinds with the same name    *)
(* the function stays before the agent, and the agent before the server.   *)
CategoryOf(n) ==
    IF n \in run.named["function"] THEN "function"
    ELSE IF n \in run.named["agent"] THEN "agent" ELSE "server"

Known == UNION {run.named[k] : k \in Kinds}

(* _route_with_llm: names nobody registered are skipped, and the first     *)
(* top_k of the rest are returned.  The kinds wanted play no part here.    *)
Routed(answer) ==
    LET kept == Filtered(answer, Known)
        all  == [j \in DOMAIN kept |-> <<CategoryOf(kept[j]), kept[j]>>]
    IN  IF Len(all) > run.top THEN SubSeq(all, 1, run.top) ELSE all

ModelNames ==
    /\ At("ask")
    /\ \E n \in 0..MaxNamed : \E answer \in [1..n -> CategoryNames \cup {"unknown"}] :
         run' = [run EXCEPT !.at = "done", !.outcome = "returned",
                            !.answer = answer, !.result = Routed(answer)]

ModelRaises == At("ask") /\ run' = [run EXCEPT !.at = "done", !.outcome = "raised"]

Next ==
    \/ Initialize
    \/ ModelNames
    \/ ModelRaises

Spec == Init /\ [][Next]_run

-----------------------------------------------------------------------------
(* Every route leads to something registered under the name the model gave *)
(* and, of the wanted kind, when the model kept to what it was shown and   *)
(* no two categories share a name; the best named come first, and there    *)
(* are fewer than top_k only when the model named fewer (lines 172-236).   *)
RoutesAreRegistered == run.kind = "router" /\ run.outcome = "returned" =>
    /\ \A j \in DOMAIN run.result : run.result[j][2] \in run.named[run.result[j][1]]
    /\ Range(run.answer) \subseteq run.shown =>
         /\ Len(run.result) = IF Len(run.answer) < run.top THEN Len(run.answer) ELSE run.top
         /\ \A j \in DOMAIN run.result : run.result[j][2] = run.answer[j]
         /\ (\A k, l \in Kinds : k # l => run.named[k] \cap run.named[l] = {})
              => \A j \in DOMAIN run.result : run.result[j][1] \in run.wanted
=============================================================================
