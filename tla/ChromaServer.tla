----------------------------- MODULE ChromaServer -----------------------------
(* The tool server of a vector store of memories (aip_chroma/chroma.py):    *)
(* calls of several clients are handled by one event loop, which leaves a   *)
(* handler only where it sleeps before it tries again.                      *)
EXTENDS Naturals, Sequences, FiniteSets, Functions

CONSTANTS
    Clients, Memories, Contents,
    Tries,          \* retry_operation's max_retries, and MAX_RETRIES
    MaxCalls,       \* bound: calls begun
    MaxFaults       \* bound: operations that the store or the hub fails

(* docs, the collection: a content and metadata for every id; hub, the last *)
(* record of every id; call, the call of each client; stuck, whether the    *)
(* loop waits for ever for an upload; calls and faults, what the bounds     *)
(* count.  For the property: apart, ids whose last change was not made and  *)
(* uploaded as one.                                                         *)
VARIABLE chroma

(* Metadata is a value of a field: none, a number, or the number's text.    *)
Metas == {"none", "number", "text"}

Quiet == [at |-> "quiet"]

Asks ==
    [name : {"create", "update"}, id : Memories, content : Contents, meta : Metas]
      \cup [name : {"read", "delete"}, id : Memories]
      \cup [name : {"list"}] \cup [name : {"search"}, meta : Metas]

TypeOK ==
    /\ DOMAIN chroma.docs \subseteq Memories /\ DOMAIN chroma.hub \subseteq Memories
    /\ Range(chroma.docs) \subseteq [content : Contents, meta : Metas]
    /\ \A c \in Clients :
         \/ chroma.call[c] = Quiet
         \/ chroma.call[c].at = "done"
         \/ /\ chroma.call[c].at \in {"try", "delete"}
            /\ chroma.call[c].ask \in Asks
            /\ chroma.call[c].tries \in 0..(Tries - 1)
    /\ chroma.apart \subseteq Memories

Init ==
    chroma = [docs |-> <<>>, hub |-> <<>>, call |-> [c \in Clients |-> Quiet], stuck |-> FALSE,
              calls |-> 0, faults |-> 0, apart |-> {}]

-----------------------------------------------------------------------------
(* A state is what a handler leaves; several are what it may leave.         *)

Put(f, id, v) == [i \in {id} \cup DOMAIN f |-> IF i = id THEN v ELSE f[i]]

Drop(f, id) == [i \in DOMAIN f \ {id} |-> f[i]]

Reply(s, c, r) == [s EXCEPT !.call[c] = [at |-> "done", reply |-> r]]

RaiseOnceMore(s, c, error) ==
    IF s.call[c].tries = Tries THEN Reply(s, c, <<error>>)
    ELSE [s EXCEPT !.call[c].tries = @ + 1, !.call[c].at = "try"]

(* The wrapper tries again what raises, whatever it raised, after a sleep.  *)
Raise(s, c, error) ==
    IF s.call[c].tries = Tries - 1 THEN Reply(s, c, <<error>>)
    ELSE [s EXCEPT !.call[c].tries = @ + 1, !.call[c].at = "try"]

Faulty(s) == [s EXCEPT !.faults = @ + 1]

(* upload_hub: the hub has the record, or the loop waits for ever.          *)
Upload(s, ask, type, as) ==
    {[s EXCEPT !.hub = Put(@, ask.id, [type |-> type, content |-> IF type = "delete" THEN "none" ELSE ask.content]), !.apart = as],
     [Faulty(s) EXCEPT !.stuck = TRUE, !.apart = @ \cup {ask.id}]}

Said(S, c, r) == {IF s.stuck THEN s ELSE Reply(s, c, <<r>>) : s \in S}

ExistsUnasked(s, id) == FALSE

Exists(s, id) == id \in DOMAIN s.docs

(* The store fails at an operation, before or after it has its effect.      *)
Failures(s, c, after) ==
    {Raise([Faulty(t) EXCEPT !.apart = @ \cup {s.call[c].ask.id}], c, "failed") : t \in {s, after}}

(* The store keeps what it has when an id is added again.                   *)
AddDoc(s, ask) ==
    IF ask.id \in DOMAIN s.docs THEN s
    ELSE [s EXCEPT !.docs = Put(@, ask.id, [content |-> ask.content,
                                            meta |-> IF ask.meta = "number" THEN "text" ELSE ask.meta])]

(* Stores there are refuse metadata without a field.                        *)
Refusals(s, c, ask) == IF ask.meta = "none" THEN {Raise(s, c, "failed")} ELSE {}

(* handle_create_memory: a number of the metadata becomes text.             *)
Create(s, c, ask) ==
    IF Exists(s, ask.id) THEN {Raise(s, c, "already exists")}
    ELSE Said(Upload(AddDoc(s, ask), ask, "create", s.apart \ {ask.id}), c, "created")
           \cup Failures(s, c, AddDoc(s, ask)) \cup Refusals(s, c, ask)

UpdateDoc(s, ask) ==
    [s EXCEPT !.docs[ask.id] = [content |-> ask.content,
                                meta |-> IF ask.meta = "none" THEN @.meta ELSE ask.meta]]

(* handle_update_memory: a number stays one; no metadata leaves what is.    *)
Update(s, c, ask) ==
    IF ~Exists(s, ask.id) THEN {Raise(s, c, "not found")}
    ELSE Said(Upload(UpdateDoc(s, ask), ask, "update", s.apart \ {ask.id}), c, "updated")
           \cup Failures(s, c, UpdateDoc(s, ask))

(* One try to delete: it is looked up afterwards, and what fails or is      *)
(* still there is tried again after a sleep; the last failure is tried      *)
(* again by the wrapper, from the start.                                    *)
Again(s, c) ==
    IF s.call[c].left = 1 THEN Raise(s, c, "failed")
    ELSE [s EXCEPT !.call[c].at = "delete", !.call[c].left = @ - 1]

DeleteDoc(s, c) ==
    LET id == s.call[c].ask.id
        first == s.call[c].left = Tries
        gone == [s EXCEPT !.docs = Drop(@, id), !.apart = IF first THEN @ ELSE @ \cup {id}] IN
    {Reply(gone, c, <<"deleted">>)}
      \cup {Again([Faulty(t) EXCEPT !.apart = @ \cup {id}], c) : t \in {s, gone}}

(* handle_delete_memory: the hub is told before the store.                  *)
Delete(s, c, ask) ==
    IF ~Exists(s, ask.id) THEN {Raise(s, c, "not found")}
    ELSE UNION {IF t.stuck THEN {t} ELSE DeleteDoc([t EXCEPT !.call[c].left = Tries], c) :
                  t \in Upload(s, ask, "delete", s.apart \ {ask.id})}

(* The text a filter is compared as is what create has made of a number,    *)
(* and never what update has left.                                          *)
Matches(s, ask) == {i \in DOMAIN s.docs : ask.meta # "none" => s.docs[i].meta = "text"}

(* handle_read_memory, handle_list_memory with a page for all, and          *)
(* handle_search_similar: a reply is what was found.                        *)
Read(s, c, ask) ==
    (IF ask.name = "read" /\ ~Exists(s, ask.id) THEN {Raise(s, c, "not found")}
     ELSE {Reply(s, c, CASE ask.name = "read" -> <<"read", s.docs[ask.id]>>
                         [] ask.name = "list" -> <<"listed", DOMAIN s.docs>>
                         [] ask.name = "search" -> <<"found", Matches(s, ask)>>)})
      \cup {Raise(Faulty(s), c, "failed")}

-----------------------------------------------------------------------------
(* The event loop.                                                          *)

(* One try of a handler, up to its reply or to its next sleep.              *)
Tried(s, c) ==
    LET ask == s.call[c].ask IN
    CASE ask.name = "create" -> Create(s, c, ask)
      [] ask.name = "update" -> Update(s, c, ask)
      [] ask.name = "delete" -> Delete(s, c, ask)
      [] OTHER -> Read(s, c, ask)

Free(c) == ~chroma.stuck /\ c \in Clients

(* A client calls a tool, once the reply to its last call is there.         *)
Call(c) ==
    /\ Free(c) /\ chroma.call[c].at \in {"quiet", "done"} /\ chroma.calls < MaxCalls
    /\ \E ask \in Asks :
         chroma' \in Tried([chroma EXCEPT !.calls = @ + 1,
                              !.call[c] = [at |-> "try", ask |-> ask, tries |-> 0, left |-> Tries]], c)

(* A handler has slept.                                                     *)
TryAgain(c) ==
    Free(c) /\ chroma.call[c].at = "try" /\ chroma' \in Tried(chroma, c)

DeleteAgain(c) ==
    Free(c) /\ chroma.call[c].at = "delete" /\ chroma' \in DeleteDoc(chroma, c)

(* The server starts again with the collection that its directory keeps.    *)
Restart ==
    /\ chroma.stuck
    /\ chroma' = [chroma EXCEPT !.stuck = FALSE, !.call = [c \in Clients |-> Quiet]]

Next ==
    \/ \E c \in Clients : (Call(c) \/ TryAgain(c) \/ DeleteAgain(c)) /\ chroma'.faults <= MaxFaults
    \/ Restart

Spec == Init /\ [][Next]_chroma

-----------------------------------------------------------------------------
(* Properties.                                                              *)

(* The collection is what the hub was told last, of every memory: two calls *)
(* of one id, whichever sleeps while the other is handled, are never both   *)
(* told to the hub and one of them kept.  Left out are ids whose last       *)
(* change met a failure: a change made before it failed, a deletion that    *)
(* slept after the hub was told, an upload that hung.                       *)
HubTellsTheCollection ==
    \A i \in Memories \ chroma.apart :
        /\ i \in DOMAIN chroma.docs <=> (i \in DOMAIN chroma.hub /\ chroma.hub[i].type # "delete")
        /\ i \in DOMAIN chroma.docs => chroma.hub[i].content = chroma.docs[i].content
=============================================================================
