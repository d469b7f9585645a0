----------------------------- MODULE JSONEngine -----------------------------
(***************************************************************************)
(* The JSON document engine of internal/jsondb/engine.go and the bulk      *)
(* insertion of internal/jsondb/shard.go, for one collection.              *)
(*                                                                         *)
(* Every client is a goroutine that makes one call: CreateCollection,      *)
(* Insert, BulkInsert, Update or Delete.  Each SQL statement, or committed *)
(* transaction, is one step, and may fail with an error that changes       *)
(* nothing.  The statements that maintain document_count run in goroutines *)
(* of their own, after the call has returned: the jobs.                    *)
(*                                                                         *)
(* The metadata database and the shards survive a crash of the process;    *)
(* the collection cache, the calls and the jobs do not.                    *)
(***************************************************************************)
EXTENDS Integers, FiniteSets

CONSTANTS Clients,      \* the calls; also the document ids Insert makes up
          Shards,
          getShard(_),  \* the shard of an id, from the hash of the id
          BulkLen,      \* how many documents a BulkInsert has
          BatchSize,    \* BATCH_INSERT_SIZE
          MaxTime,      \* the last second of the clock
          MaxCrashes,
          NoRow

(* Insert makes up an id that is unique; BulkInsert uses the second and    *)
(* the index of the document, so two calls can make up the same ids.       *)
BulkIds == (0..MaxTime) \X (0..(BulkLen - 1))
Ids == Clients \cup BulkIds

ASSUME EngineAssumption ==
    /\ BulkLen \in Nat \ {0} /\ BatchSize \in Nat \ {0}
    /\ MaxTime \in Nat /\ MaxCrashes \in Nat
    /\ \A i \in Ids : getShard(i) \in Shards
    /\ Clients \cap BulkIds = {}
    /\ \A d \in SUBSET Clients : d # NoRow

VARIABLES
    meta,     \* the row of the collection exists in the metadata database
    count,    \* its document_count
    db,       \* db[s][i]: the document i in the shard s, or NoRow
    up,       \* the process is running
    cached,   \* the collection is in collectionCache
    unread,   \* history: the last start of the process did not read the row
    op,       \* op[c]: the call of client c
    jobs,     \* the pending updates of document_count
    clock,    \* time.Now().Unix()
    crashes,
    deleted,  \* history: the documents that a Delete has removed
    drifted   \* history: something happened that document_count misses

diskVars == <<meta, count, db>>
vars == <<diskVars, up, cached, unread, op, jobs, clock, crashes, deleted, drifted>>

-----------------------------------------------------------------------------
(* A document is the set of the updates it contains; read is what Update   *)
(* has read; now, i, todo and ok (the shards that have still to commit and *)
(* those that have committed) belong to the batch of a BulkInsert.         *)
Call(pc, id) == [pc |-> pc, id |-> id, read |-> {}, now |-> 0, i |-> 0,
                 todo |-> {}, ok |-> {}]

(* The process has been started on a directory with or without the         *)
(* collection, and has read its row if there is one.                       *)
Init ==
    /\ meta \in BOOLEAN /\ cached = meta /\ unread = FALSE /\ count = 0
    /\ db = [s \in Shards |-> [i \in Ids |-> NoRow]]
    /\ up = TRUE
    /\ op = [c \in Clients |-> Call("idle", c)]
    /\ jobs = {} /\ clock = 0 /\ crashes = 0
    /\ deleted = {} /\ drifted = FALSE

Row(i) == db[getShard(i)][i]
PutRow(i, d) == db' = [db EXCEPT ![getShard(i)][i] = d]

At(c, p) == up /\ op[c].pc = p
Goto(c, p) == op' = [op EXCEPT ![c].pc = p]
Job(c, n, delta) == [by |-> c, i |-> n, delta |-> delta]

(* A call returns an error; a statement that fails changes nothing.        *)
Fails(c) == Goto(c, "failed") /\ UNCHANGED <<diskVars, cached, jobs, deleted, drifted>>

(* getCollection finds the collection in the cache only: its query for the *)
(* row scans shard_key, which is always NULL, into a string and fails.     *)
getCollection == cached

-----------------------------------------------------------------------------
(* CreateCollection: is there a row, insert the row, fill the cache.       *)

CreateCheck(c) ==
    /\ At(c, "idle")
    /\ \/ ~meta /\ Goto(c, "create") /\ UNCHANGED <<diskVars, cached, jobs, deleted, drifted>>
       \/ Fails(c)
    /\ UNCHANGED <<up, clock, crashes, unread>>

(* Mutant: INSERT OR REPLACE.                                              *)
CreateReplace(c) ==
    /\ At(c, "create")
    /\ \/ /\ meta' = TRUE /\ count' = 0
          /\ Goto(c, "cache")
          /\ UNCHANGED <<db, cached, jobs, deleted, drifted>>
       \/ Fails(c)
    /\ UNCHANGED <<up, clock, crashes, unread>>

(* name is the primary key, so the insertion of a second row fails.        *)
CreateInsert(c) ==
    /\ At(c, "create")
    /\ \/ /\ ~meta
          /\ meta' = TRUE /\ count' = 0
          /\ Goto(c, "cache")
          /\ UNCHANGED <<db, cached, jobs, deleted, drifted>>
       \/ Fails(c)
    /\ UNCHANGED <<up, clock, crashes, unread>>

CreateCache(c) ==
    /\ At(c, "cache")
    /\ cached' = TRUE
    /\ Goto(c, "created")
    /\ UNCHANGED <<diskVars, up, jobs, clock, crashes, unread, deleted, drifted>>

-----------------------------------------------------------------------------
(* Insert: the collection and the schema, then the row and the job.        *)

InsertOpen(c) ==
    /\ At(c, "idle")
    /\ \/ getCollection /\ Goto(c, "insert") /\ UNCHANGED <<diskVars, cached, jobs, deleted, drifted>>
       \/ Fails(c)
    /\ UNCHANGED <<up, clock, crashes, unread>>

(* Mutant: the error of the statement is not looked at.                    *)
InsertRowUnchecked(c) ==
    /\ At(c, "insert")
    /\ \/ PutRow(c, {})
       \/ UNCHANGED db
    /\ jobs' = jobs \cup {Job(c, 0, 1)}
    /\ Goto(c, "inserted")
    /\ UNCHANGED <<meta, count, up, cached, clock, crashes, unread, deleted, drifted>>

(* Mutant: the document is not counted.                                    *)
InsertRowUncounted(c) ==
    /\ At(c, "insert")
    /\ PutRow(c, {})
    /\ Goto(c, "inserted")
    /\ UNCHANGED <<meta, count, up, cached, jobs, clock, crashes, unread, deleted, drifted>>

InsertRow(c) ==
    /\ At(c, "insert")
    /\ \/ /\ PutRow(c, {})
          /\ jobs' = jobs \cup {Job(c, 0, 1)}
          /\ Goto(c, "inserted")
          /\ UNCHANGED <<meta, count, cached, deleted, drifted>>
       \/ Fails(c)
    /\ UNCHANGED <<up, clock, crashes, unread>>

-----------------------------------------------------------------------------
(* Update reads the row, changes the document and writes it back.          *)

UpdateRead(c, i) ==
    /\ At(c, "idle")
    /\ \/ /\ Row(i) # NoRow
          /\ op' = [op EXCEPT ![c] = [@ EXCEPT !.pc = "update", !.id = i, !.read = Row(i)]]
          /\ UNCHANGED <<diskVars, cached, jobs, deleted, drifted>>
       \/ Fails(c)
    /\ UNCHANGED <<up, clock, crashes, unread>>

(* Mutant: the row is written with INSERT OR REPLACE.                      *)
UpdateUpsert(c) ==
    /\ At(c, "update")
    /\ \/ /\ PutRow(op[c].id, op[c].read \cup {c})
          /\ Goto(c, "updated")
          /\ UNCHANGED <<meta, count, cached, jobs, deleted, drifted>>
       \/ Fails(c)
    /\ UNCHANGED <<up, clock, crashes, unread>>

(* Mutant: the document is marshalled before the changes are made to it.   *)
UpdateUnmerged(c) ==
    /\ At(c, "update")
    /\ \/ /\ IF Row(op[c].id) # NoRow THEN PutRow(op[c].id, op[c].read)
                                      ELSE UNCHANGED db
          /\ Goto(c, "updated")
          /\ UNCHANGED <<meta, count, cached, jobs, deleted, drifted>>
       \/ Fails(c)
    /\ UNCHANGED <<up, clock, crashes, unread>>

(* UPDATE ... WHERE id: no row, no effect, no error.                       *)
UpdateWrite(c) ==
    /\ At(c, "update")
    /\ \/ /\ IF Row(op[c].id) # NoRow THEN PutRow(op[c].id, op[c].read \cup {c})
                                      ELSE UNCHANGED db
          /\ Goto(c, "updated")
          /\ UNCHANGED <<meta, count, cached, jobs, deleted, drifted>>
       \/ Fails(c)
    /\ UNCHANGED <<up, clock, crashes, unread>>

(* Delete decrements the count whether or not there was a row.             *)
Delete(c, i) ==
    /\ At(c, "idle")
    /\ \/ /\ PutRow(i, NoRow)
          /\ jobs' = jobs \cup {Job(c, 0, -1)}
          /\ Goto(c, "deleted")
          /\ deleted' = IF Row(i) = NoRow THEN deleted ELSE deleted \cup {i}
          /\ drifted' = (drifted \/ Row(i) = NoRow)
          /\ UNCHANGED <<meta, count, cached>>
       \/ Fails(c)
    /\ UNCHANGED <<up, clock, crashes, unread>>

-----------------------------------------------------------------------------
(* BulkInsert works batch by batch.  A batch makes up its ids and starts a *)
(* goroutine with a transaction for each shard concerned; when all have    *)
(* ended the batch fails if one of them failed.                            *)

LastOfBatch(i) == IF i + BatchSize < BulkLen THEN i + BatchSize - 1 ELSE BulkLen - 1
BatchOf(now, i) == {<<now, k>> : k \in i..LastOfBatch(i)}
BatchIds(c) == BatchOf(op[c].now, op[c].i)
ShardsOf(I) == {getShard(i) : i \in I}
InShard(s, I) == {i \in I : getShard(i) = s}

BulkStart(c) ==
    /\ At(c, "idle")
    /\ Goto(c, "batch")
    /\ UNCHANGED <<diskVars, up, cached, jobs, clock, crashes, unread, deleted, drifted>>

BatchOpen(c) ==
    /\ At(c, "batch")
    /\ \/ /\ getCollection
          /\ op' = [op EXCEPT ![c] =
                       [@ EXCEPT !.pc = "commit", !.now = clock, !.ok = {},
                                 !.todo = ShardsOf(BatchOf(clock, op[c].i))]]
          /\ UNCHANGED <<diskVars, cached, jobs, deleted, drifted>>
       \/ ~getCollection /\ Fails(c)
    /\ UNCHANGED <<up, clock, crashes, unread>>

(* Mutant: the end of the goroutine is not noted.                          *)
BatchCommitAgain(c, s) ==
    LET mine == InShard(s, BatchIds(c)) IN
    /\ At(c, "commit")
    /\ s \in op[c].todo
    /\ db' = [db EXCEPT ![s] = [i \in Ids |-> IF i \in mine THEN {} ELSE db[s][i]]]
    /\ op' = [op EXCEPT ![c] = [@ EXCEPT !.ok = op[c].ok \cup {s}]]
    /\ UNCHANGED <<meta, count, up, cached, jobs, clock, crashes, unread, deleted, drifted>>

(* One transaction of INSERT OR REPLACE statements: all rows or none.      *)
BatchCommit(c, s) ==
    LET mine == InShard(s, BatchIds(c)) IN
    /\ At(c, "commit")
    /\ s \in op[c].todo
    /\ \/ /\ db' = [db EXCEPT ![s] = [i \in Ids |-> IF i \in mine THEN {} ELSE db[s][i]]]
          /\ drifted' = (drifted \/ \E i \in mine : db[s][i] # NoRow)
          /\ op' = [op EXCEPT ![c] = [@ EXCEPT !.todo = op[c].todo \ {s},
                                                 !.ok = op[c].ok \cup {s}]]
       \/ /\ op' = [op EXCEPT ![c].todo = @ \ {s}]
          /\ UNCHANGED <<db, drifted>>
    /\ UNCHANGED <<meta, count, up, cached, jobs, clock, crashes, unread, deleted>>

BatchJoin(c) ==
    /\ At(c, "commit")
    /\ op[c].todo = {}
    /\ \/ /\ op[c].ok # ShardsOf(BatchIds(c))
          /\ Goto(c, "failed")
          /\ drifted' = (drifted \/ op[c].ok # {})
          /\ UNCHANGED jobs
       \/ /\ op[c].ok = ShardsOf(BatchIds(c))
          /\ jobs' = jobs \cup {Job(c, op[c].i, Cardinality(BatchIds(c)))}
          /\ op' = [op EXCEPT ![c] =
                       [@ EXCEPT !.i = LastOfBatch(op[c].i) + 1,
                                 !.pc = IF LastOfBatch(op[c].i) + 1 < BulkLen
                                        THEN "batch" ELSE "bulked"]]
          /\ UNCHANGED drifted
    /\ UNCHANGED <<diskVars, up, cached, clock, crashes, unread, deleted>>

-----------------------------------------------------------------------------
(* A job updates document_count; nobody looks at its error.                *)
ApplyJob(j) ==
    /\ up
    /\ j \in jobs
    /\ jobs' = jobs \ {j}
    /\ \/ count' = (IF meta THEN count + j.delta ELSE count) /\ UNCHANGED drifted
       \/ drifted' = TRUE /\ UNCHANGED count
    /\ UNCHANGED <<meta, db, up, cached, op, clock, crashes, unread, deleted>>

Tick ==
    /\ clock < MaxTime
    /\ clock' = clock + 1
    /\ UNCHANGED <<diskVars, up, cached, unread, op, jobs, crashes, deleted, drifted>>

Returned == {"idle", "created", "inserted", "updated", "deleted", "bulked", "failed"}

(* The process dies: calls that have not returned never will.              *)
Crash ==
    /\ up /\ crashes < MaxCrashes
    /\ up' = FALSE /\ crashes' = crashes + 1
    /\ cached' = FALSE
    /\ jobs' = {}
    /\ op' = [c \in Clients |->
                 IF op[c].pc \in Returned THEN op[c] ELSE [op[c] EXCEPT !.pc = "failed"]]
    /\ drifted' = (drifted \/ jobs # {} \/ \E c \in Clients : op[c].pc = "commit" /\ op[c].ok # {})
    /\ UNCHANGED <<diskVars, unread, clock, deleted>>

(* Mutant: the cache starts empty.                                         *)
InitEmptyCache ==
    /\ ~up
    /\ up' = TRUE
    /\ UNCHANGED <<diskVars, cached, op, jobs, clock, crashes, unread, deleted, drifted>>

(* Opens the databases and fills the cache from the metadata.  A row whose *)
(* Scan fails is skipped, and when rows.Next fails so is what is left:     *)
(* rows.Err is not called, and the start succeeds.                         *)
InitJSONEngine ==
    /\ ~up
    /\ up' = TRUE
    /\ \/ cached' = meta /\ unread' = FALSE
       \/ meta /\ cached' = FALSE /\ unread' = TRUE
    /\ UNCHANGED <<diskVars, op, jobs, clock, crashes, deleted, drifted>>

-----------------------------------------------------------------------------
CreateCollection(c) == CreateCheck(c) \/ CreateInsert(c) \/ CreateCache(c)
Insert(c) == InsertOpen(c) \/ InsertRow(c)
Update(c) == (\E i \in Ids : UpdateRead(c, i)) \/ UpdateWrite(c)
BulkInsert(c) == BulkStart(c) \/ BatchOpen(c) \/ (\E s \in Shards : BatchCommit(c, s))
                 \/ BatchJoin(c)

Next ==
    \/ \E c \in Clients : \/ CreateCollection(c) \/ Insert(c) \/ Update(c) \/ BulkInsert(c)
                          \/ \E i \in Ids : Delete(c, i)
    \/ \E j \in jobs : ApplyJob(j)
    \/ Tick \/ Crash \/ InitJSONEngine

Spec == Init /\ [][Next]_vars
-----------------------------------------------------------------------------
CallPC == Returned \cup {"create", "cache", "insert", "update", "batch", "commit"}

(* Every variable has its type, and a shard has committed its part of a    *)
(* batch or has still to do it, never both.                                *)
TypeOK ==
    /\ meta \in BOOLEAN /\ up \in BOOLEAN /\ cached \in BOOLEAN
    /\ unread \in BOOLEAN /\ drifted \in BOOLEAN
    /\ count \in Int /\ clock \in 0..MaxTime /\ crashes \in 0..MaxCrashes
    /\ db \in [Shards -> [Ids -> {NoRow} \cup SUBSET Clients]]
    /\ op \in [Clients -> [pc : CallPC, id : Ids, read : SUBSET Clients,
                           now : 0..MaxTime, i : 0..BulkLen,
                           todo : SUBSET Shards, ok : SUBSET Shards]]
    /\ \A c \in Clients : op[c].todo \cap op[c].ok = {}
    /\ \A j \in jobs : j.by \in Clients /\ j.i \in 0..BulkLen /\ j.delta \in Int
    /\ deleted \subseteq Ids

(* A collection whose creation was acknowledged can be used from then on,  *)
(* after restarts too, unless the start of the process failed to read its  *)
(* row; then it cannot be used, since getCollection cannot load it and the *)
(* primary key forbids to create it again, until a start that reads it.    *)
CreatedIsUsable ==
    up /\ (\E c \in Clients : op[c].pc = "created") => (cached <=> ~unread)

(* Of several concurrent creations of a collection one succeeds at most,   *)
(* although each looks for the row before it inserts it.                   *)
CreatedOnce == Cardinality({c \in Clients : op[c].pc = "created"}) <= 1

(* A document of Insert whose insertion was acknowledged is in its shard   *)
(* until it is deleted, whatever the other calls and crashes do.           *)
InsertedIsDurable ==
    \A c \in Clients : op[c].pc = "inserted" /\ c \notin deleted => Row(c) # NoRow

(* A deleted document of Insert does not come back: not even an Update     *)
(* that read it before and writes it after the deletion revives it.  (The  *)
(* id of a BulkInsert may be made up again, and then its document is back.)*)
DeletedStaysDeleted == \A c \in Clients \cap deleted : Row(c) = NoRow

UpdatesOf(i) == {c \in Clients : op[c].pc = "updated" /\ op[c].id = i}

Survives(i) == UpdatesOf(i) # {} /\ Row(i) # NoRow => Row(i) \cap UpdatesOf(i) # {}

(* A bulk insertion has committed a document with the id i.                *)
BulkPuts(i) ==
    \E c \in Clients : /\ op[c].pc = "commit" /\ i \in BatchIds(c)
                       /\ getShard(i) \in op'[c].ok \ op[c].ok

UpdatesKept(i) ==
    \/ Survives(i)'
    \/ BulkPuts(i)
    \/ ~Survives(i) /\ UpdatesOf(i)' = UpdatesOf(i)

(* Overlapping updates of a document overwrite one another, but not all of *)
(* them are lost: the document contains one of the acknowledged updates.   *)
(* Only a BulkInsert that makes up the same id again loses them all, and   *)
(* the next update that is acknowledged is in the document again.          *)
SomeUpdateSurvives == [][\A i \in Ids : UpdatesKept(i)]_vars

Docs == [i \in Ids |-> Row(i)]
Stored == {c \in Clients : op[c].pc = "inserted"}
Changed == [i \in Ids |-> UpdatesOf(i)]

Store == INSTANCE DocumentStore
    WITH Keys <- Ids, Own <- Clients, Writers <- Clients, NoDoc <- NoRow,
         docs <- Docs, stored <- Stored, changed <- Changed, gone <- deleted

(* The engine is a store of documents whose operations happen at once: an  *)
(* insertion is stored when it is acknowledged and not before, its document*)
(* is there until it is deleted and never again, an acknowledged update is *)
(* in the document until others replace it, and no document contains what  *)
(* was not written to it, in spite of failing statements, half-committed   *)
(* batches, crashes, and updates that write what they have read long ago.  *)
Stores == Store!Spec

Rows == {r \in Shards \X Ids : db[r[1]][r[2]] # NoRow}

(* When no job is pending and no batch is halfway, document_count is the   *)
(* number of documents, unless one of these has happened: a deletion of a  *)
(* document that was not there, bulk insertions that made up the same ids, *)
(* a batch that failed in some shards only, a failed or a lost job.        *)
CountExact ==
    ~drifted /\ jobs = {} /\ (\A c \in Clients : op[c].pc # "commit")
        => count = Cardinality(Rows)

=============================================================================
