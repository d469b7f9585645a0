---------------------------- MODULE DocumentStore ---------------------------
(***************************************************************************)
(* What the JSON engine promises about documents, without shards,          *)
(* statements, batches, the metadata, the cache of collections, jobs and   *)
(* crashes: every operation happens at once, when it is acknowledged.      *)
(*                                                                         *)
(* A document is the set of the updates it contains.  An update keeps only *)
(* some of the updates before it, since the engine writes what it has read *)
(* earlier; but it never brings in one that was not made to this document. *)
(***************************************************************************)
CONSTANTS Keys,
          Own,      \* the keys that belong to one insertion each
          Writers,  \* who updates documents
          NoDoc

VARIABLES docs,     \* docs[k]: the document of a key, or NoDoc
          stored,   \* the insertions that were acknowledged
          changed,  \* changed[k]: the updates of k that were acknowledged
          gone      \* the documents that were deleted

storeVars == <<docs, stored, changed, gone>>

Init ==
    /\ docs = [k \in Keys |-> NoDoc]
    /\ changed = [k \in Keys |-> {}]
    /\ stored = {} /\ gone = {}

Insert(k) ==
    /\ k \notin stored
    /\ docs' = [docs EXCEPT ![k] = {}]
    /\ stored' = stored \cup {k}
    /\ UNCHANGED <<changed, gone>>

(* Documents under keys that others may make up too are replaced.          *)
InsertMany ==
    /\ UNCHANGED <<stored, changed, gone>>
    /\ \E K \in SUBSET (Keys \ Own) :
          docs' = [k \in Keys |-> IF k \in K THEN {} ELSE docs[k]]

(* The update of a document that is deleted meanwhile is acknowledged and  *)
(* has no effect.                                                          *)
Update(k, w) ==
    /\ k \in Own => k \in stored
    /\ w \notin changed[k]
    /\ \/ /\ docs[k] # NoDoc
          /\ \E older \in SUBSET changed[k] :
                docs' = [docs EXCEPT ![k] = older \cup {w}]
       \/ docs[k] = NoDoc /\ UNCHANGED docs
    /\ changed' = [changed EXCEPT ![k] = @ \cup {w}]
    /\ UNCHANGED <<stored, gone>>

Delete(k) ==
    /\ docs[k] # NoDoc
    /\ docs' = [docs EXCEPT ![k] = NoDoc]
    /\ gone' = gone \cup {k}
    /\ UNCHANGED <<stored, changed>>

Next ==
    \/ InsertMany
    \/ \E k \in Own : Insert(k)
    \/ \E k \in Keys : Delete(k) \/ \E w \in Writers : Update(k, w)

Spec == Init /\ [][Next]_storeVars
=============================================================================
