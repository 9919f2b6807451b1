---------------------------- MODULE KnowledgeBase ----------------------------
(* ChromaKnowledgeBase (membase/knowledge/chroma.py): documents in a       *)
(* collection of a vector store, with a copy of each at the hub.           *)
(*                                                                         *)
(* A content is a point of a line, and the distance of two contents the    *)
(* distance of the points: a document without an id has its content for    *)
(* one, as its hash.                                                       *)
EXTENDS Naturals, Sequences, FiniteSets, Functions

CONSTANTS
    Contents,       \* a set of numbers
    Given,          \* ids given to documents, no numbers
    NoId,           \* a document without an id
    Alike,          \* evaluate_document: a nearer document is a duplicate
    MaxWrites       \* bound: calls that write

(* docs, the collection, a content for every id; hub, the copies; stuck,   *)
(* whether an upload waits for ever; writes, what the bound counts.  For   *)
(* the properties: apart, ids last uploaded by a call that did not store   *)
(* them; strict, whether all was added strictly, one document a call, and  *)
(* nothing was updated.                                                    *)
VARIABLE kb

Ids == Given \cup Contents

Docs == [id : Given \cup {NoId}, content : Contents]

IdOf(d) == IF d.id = NoId THEN d.content ELSE d.id

TypeOK ==
    /\ DOMAIN kb.docs \subseteq Ids /\ DOMAIN kb.hub \subseteq Ids
    /\ Range(kb.docs) \cup Range(kb.hub) \subseteq Contents
    /\ kb.apart \subseteq Ids /\ {kb.stuck, kb.strict} \subseteq BOOLEAN
    /\ kb.writes \in 0..MaxWrites

Init ==
    kb = [docs |-> <<>>, hub |-> <<>>, stuck |-> FALSE, writes |-> 0,
          apart |-> {}, strict |-> TRUE]

-----------------------------------------------------------------------------
(* Retrieval.                                                              *)

Distance(c, d) == IF c < d THEN d - c ELSE c - d

(* The k documents of a pool nearest to the query.                         *)
Nearest(docs, pool, query, k) ==
    CHOOSE near \in SUBSET pool :
        /\ Cardinality(near) = IF k < Cardinality(pool) THEN k ELSE Cardinality(pool)
        /\ \A i \in near, j \in pool \ near : Distance(docs[i], query) <= Distance(docs[j], query)

(* retrieve: the k nearest, without filters; a threshold leaves out what   *)
(* is nearer, and first all that do not contain the query.                 *)
Retrieve(docs, query, k, threshold) ==
    LET pool == {i \in DOMAIN docs : threshold > 0 => docs[i] = query} IN
    {i \in Nearest(docs, pool, query, k) : threshold > 0 => Distance(docs[i], query) >= threshold}

(* evaluate_document: whether the nearest document is nearer than Alike.   *)
Evaluated(docs, content) ==
    \E i \in Retrieve(docs, content, 1, 0) : Distance(docs[i], content) < Alike

-----------------------------------------------------------------------------
(* Calls that write, a list of documents each; at are positions in it.     *)

IdsOf(batch, at) == {IdOf(batch[n]) : n \in at}

(* The content that the last document of an id has.                        *)
LastOf(batch, at, i) ==
    batch[CHOOSE n \in at : /\ IdOf(batch[n]) = i
                            /\ \A m \in at : IdOf(batch[m]) = i => m <= n].content

Put(f, batch, at) ==
    [i \in DOMAIN f \cup IdsOf(batch, at) |-> IF i \in IdsOf(batch, at) THEN LastOf(batch, at, i) ELSE f[i]]

Twice(batch, at) == \E m, n \in at : m # n /\ IdOf(batch[m]) = IdOf(batch[n])

(* All of a list are uploaded; or the hub fails at one of them, which it   *)
(* may have by then, and the call, and the program with it, waits for ever.*)
Uploaded(k, batch, at) ==
    [k EXCEPT !.hub = Put(@, batch, at), !.apart = @ \ IdsOf(batch, at)]

Hung(k, batch, at) ==
    {[k EXCEPT !.hub = Put(@, batch, at \cap (1..n)), !.apart = @ \cup IdsOf(batch, at), !.stuck = TRUE] :
        n \in 0..Len(batch)}

Leave(k, ids) == [k EXCEPT !.apart = @ \cup ids]

Counted == [kb EXCEPT !.writes = @ + 1]

Free == ~kb.stuck /\ kb.writes < MaxWrites

Batches == {<<d>> : d \in Docs} \cup (Docs \X Docs)

(* Whether a document of a list is new: each is looked up in the           *)
(* collection as it was before the call.                                   *)
Kept(d, strict) ==
    IdOf(d) \notin DOMAIN kb.docs /\ (strict => ~Evaluated(kb.docs, d.content))

(* add_documents: a list with an id twice is refused by the store, before  *)
(* anything is written; then all are uploaded, those left out too.         *)
Add ==
    /\ Free
    /\ \E batch \in Batches, strict \in BOOLEAN :
         LET all == DOMAIN batch
             new == {n \in all : Kept(batch[n], strict)}
             k == [Counted EXCEPT !.docs = Put(@, batch, new), !.strict = @ /\ strict /\ Len(batch) = 1] IN
         IF Twice(batch, new) THEN kb' = Counted
         ELSE kb' \in {Leave(Uploaded(k, batch, all), IdsOf(batch, all \ new))} \cup Hung(k, batch, all)

(* update_documents: uploaded one by one, up to one without an id, which   *)
(* raises; then the store updates those it has, or refuses an id twice.    *)
Update ==
    /\ Free
    /\ \E batch \in Batches :
         LET all == DOMAIN batch
             sent == {n \in all : \A m \in 1..n : batch[m].id # NoId}
             known == {n \in all : batch[n].id \in DOMAIN kb.docs}
             k == [Counted EXCEPT !.strict = FALSE]
             after == Uploaded(k, batch, sent)
             ids == IdsOf(batch, sent) IN
         kb' \in Hung(k, batch, sent) \cup
                 IF sent # all \/ Twice(batch, all) THEN {Leave(after, ids)}
                 ELSE {Leave([after EXCEPT !.docs = Put(@, batch, known)], ids \ IdsOf(batch, known))}

(* delete_documents: the copies stay at the hub.                           *)
Delete ==
    /\ Free
    /\ \E ids \in SUBSET Ids :
         /\ Cardinality(ids) \in 1..2
         /\ kb' = [Counted EXCEPT !.docs = [i \in DOMAIN kb.docs \ ids |-> kb.docs[i]]]

(* clear: the collection is deleted and created again; the copies stay.    *)
Clear == Free /\ kb' = [Counted EXCEPT !.docs = <<>>]

(* The process starts again, with the collection of the directory.         *)
Restart == kb.stuck /\ kb' = [kb EXCEPT !.stuck = FALSE]

Next == Add \/ Update \/ Delete \/ Clear \/ Restart

Spec == Init /\ [][Next]_kb

-----------------------------------------------------------------------------
(* Properties.                                                             *)

(* The hub has a copy of every document of the collection, with its        *)
(* content, unless its id was last uploaded by a call that left it out,    *)
(* raised or never returned: additions, skips, updates and deletions in    *)
(* any order leave no other difference.                                    *)
HubHasTheDocuments ==
    \A i \in DOMAIN kb.docs \ kb.apart : i \in DOMAIN kb.hub /\ kb.hub[i] = kb.docs[i]

(* No two documents of a collection are alike as long as every call adds   *)
(* one, strictly, and none updates: the nearest document is the one to     *)
(* compare with.                                                           *)
StrictKeepsApart ==
    kb.strict => \A i, j \in DOMAIN kb.docs : i # j => Distance(kb.docs[i], kb.docs[j]) >= Alike
=============================================================================
