-------------------------- MODULE JSONEngineProofs --------------------------
(***************************************************************************)
(* Proofs about JSONEngine, for every set of calls and shards, every hash  *)
(* of the ids, every length and size of the batches and any number of      *)
(* crashes.                                                                *)
(***************************************************************************)
EXTENDS JSONEngine, FiniteSetTheorems, TLAPS

Calls == [pc : CallPC, id : Ids, read : SUBSET Clients, now : 0..MaxTime,
          i : 0..BulkLen, todo : SUBSET Shards, ok : SUBSET Shards]

(* A job is a call's, for a batch (0 for a single document); it adds the   *)
(* number of documents or takes one off.                                   *)
Jobs == [by : Clients, i : 0..BulkLen, delta : Nat \cup {-1}]

(* The type invariant, with the jobs as records.                           *)
Types == TypeOK /\ jobs \subseteq Jobs

-----------------------------------------------------------------------------
(* What follows from the row of the collection: nobody has got further     *)
(* than looking for it unless it exists, one creation at most did, and a   *)
(* creation that is under way made the row after the start of the process. *)
Known ==
    /\ cached => meta
    /\ unread => meta
    /\ \A c \in Clients : op[c].pc = "cache" => up /\ ~unread
    /\ \A c \in Clients : op[c].pc \in {"cache", "created", "insert", "commit"} => meta
    /\ CreatedIsUsable
    /\ \A c, d \in Clients :
           op[c].pc \in {"cache", "created"} /\ op[d].pc \in {"cache", "created"} => c = d

(* A document that Insert has not stored yet was never stored: there is no *)
(* row of it, nobody has deleted it and nobody has read it for an update.  *)
Unborn ==
    \A i \in Clients : op[i].pc # "inserted" =>
        /\ Row(i) = NoRow
        /\ i \notin deleted
        /\ \A c \in Clients : op[c].pc \in {"update", "updated"} => op[c].id # i

Documents == Unborn /\ InsertedIsDurable /\ DeletedStaysDeleted

-----------------------------------------------------------------------------
(* What document_count does not contain yet: the documents that a pending  *)
(* job will add, the ones that a pending job will take off, and those of   *)
(* the batches that have committed in some shards.                         *)
Pending == UNION {{j} \X (1..j.delta) : j \in jobs}
Removed == {j \in jobs : j.delta = -1}
Uncounted == {x \in Clients \X Ids : /\ op[x[1]].pc = "commit"
                                     /\ x[2] \in BatchIds(x[1])
                                     /\ getShard(x[2]) \in op[x[1]].ok}

(* No call starts a job that is pending already.                           *)
JobsUnique ==
    \A j \in jobs : /\ op[j.by].pc \notin {"idle", "insert"}
                    /\ op[j.by].pc \in {"batch", "commit"} => j.i < op[j.by].i

AllFinite == IsFiniteSet(Rows) /\ IsFiniteSet(Pending) /\ IsFiniteSet(Removed)
             /\ IsFiniteSet(Uncounted)

Counted ==
    ~drifted => /\ Rows # {} \/ jobs # {} => meta
                /\ count = Cardinality(Rows) - Cardinality(Pending)
                              + Cardinality(Removed) - Cardinality(Uncounted)

Counting == JobsUnique /\ AllFinite /\ Counted

IInv == Types /\ Known /\ Documents /\ Counting

-----------------------------------------------------------------------------
(* Facts about the operators of the model.                                 *)

(* The end of a batch lies within the documents and behind its beginning.  *)
LEMMA LastFacts ==
    ASSUME NEW i \in 0..BulkLen
    PROVE  /\ LastOfBatch(i) \in Int
           /\ LastOfBatch(i) + 1 \in 0..BulkLen
           /\ i < BulkLen => i < LastOfBatch(i) + 1
  BY EngineAssumption DEF LastOfBatch

(* A batch makes up ids of BulkInsert, finitely many, in existing shards.  *)
LEMMA BatchFacts ==
    ASSUME NEW i \in 0..BulkLen, NEW now \in 0..MaxTime
    PROVE  /\ BatchOf(now, i) \subseteq BulkIds
           /\ BatchOf(now, i) \subseteq Ids
           /\ BatchOf(now, i) \cap Clients = {}
           /\ IsFiniteSet(BatchOf(now, i))
           /\ Cardinality(BatchOf(now, i)) \in Nat
           /\ ShardsOf(BatchOf(now, i)) \subseteq Shards
  <1>0. /\ LastOfBatch(i) \in Int /\ LastOfBatch(i) + 1 \in 0..BulkLen
        /\ BulkLen \in Nat /\ i \in Int
    BY LastFacts, EngineAssumption
  <1>1. BatchOf(now, i) = {now} \X (i..LastOfBatch(i))
    BY DEF BatchOf
  <1>2. i..LastOfBatch(i) \subseteq 0..(BulkLen - 1)
    BY <1>0
  <1>3. BatchOf(now, i) \subseteq BulkIds
    BY <1>1, <1>2 DEF BulkIds
  <1>4. IsFiniteSet(BatchOf(now, i))
    <2>1. IsFiniteSet({now}) /\ IsFiniteSet(i..LastOfBatch(i))
      BY <1>0, FS_Singleton, FS_Interval
    <2>2. \A S : IsFiniteSet(S) => IsFiniteSet({now} \X S)
      BY <2>1, FS_Product, Zenon
    <2> QED
      BY <1>1, <2>1, <2>2, Zenon
  <1>5. ShardsOf(BatchOf(now, i)) \subseteq Shards
    BY <1>3, EngineAssumption DEF ShardsOf, Ids
  <1> QED
    BY <1>3, <1>4, <1>5, FS_CardinalityType, EngineAssumption DEF Ids

-----------------------------------------------------------------------------
(* The types.                                                              *)

LEMMA TypesInit == Init => Types
  <1> SUFFICES ASSUME Init PROVE Types
    OBVIOUS
  <1>1. \A c \in Clients : Call("idle", c) \in Calls
    BY EngineAssumption DEF Call, Calls, CallPC, Returned, Ids
  <1>2. op \in [Clients -> Calls] /\ \A c \in Clients : op[c].todo \cap op[c].ok = {}
    BY <1>1 DEF Init, Call
  <1>3. db \in [Shards -> [Ids -> {NoRow} \cup SUBSET Clients]]
    BY DEF Init
  <1>4. /\ meta \in BOOLEAN /\ up \in BOOLEAN /\ cached \in BOOLEAN /\ drifted \in BOOLEAN
        /\ unread \in BOOLEAN
    BY Zenon DEF Init
  <1>5. /\ count \in Int /\ clock \in 0..MaxTime /\ crashes \in 0..MaxCrashes
        /\ jobs = {} /\ deleted = {}
    BY EngineAssumption DEF Init
  <1> QED
    BY <1>2, <1>3, <1>4, <1>5 DEF Types, TypeOK, Calls

(* A call moves on: what remains to be shown of its step.                  *)
LEMMA TypesMove ==
    ASSUME Types, NEW c \in Clients, NEW rec \in Calls, rec.todo \cap rec.ok = {},
           op' = [op EXCEPT ![c] = rec],
           meta' \in BOOLEAN, cached' \in BOOLEAN, drifted' \in BOOLEAN, count' \in Int,
           db' \in [Shards -> [Ids -> {NoRow} \cup SUBSET Clients]],
           jobs' \subseteq Jobs, deleted' \subseteq Ids, UNCHANGED <<up, clock, crashes, unread>>
    PROVE  Types'
  <1>1. op' \in [Clients -> Calls] /\ \A d \in Clients : op'[d].todo \cap op'[d].ok = {}
    BY DEF Types, TypeOK, Calls
  <1>2. \A j \in jobs' : j.by \in Clients /\ j.i \in 0..BulkLen /\ j.delta \in Int
    BY DEF Jobs
  <1> QED
    BY <1>1, <1>2 DEF Types, TypeOK, Calls

LEMMA TypesFacts ==
    ASSUME Types, NEW c \in Clients
    PROVE  /\ op[c] \in Calls /\ op \in [Clients -> Calls]
           /\ op[c].todo \cap op[c].ok = {}
           /\ db \in [Shards -> [Ids -> {NoRow} \cup SUBSET Clients]]
           /\ meta \in BOOLEAN /\ cached \in BOOLEAN /\ drifted \in BOOLEAN
           /\ up \in BOOLEAN /\ count \in Int /\ clock \in 0..MaxTime
           /\ jobs \subseteq Jobs /\ deleted \subseteq Ids
           /\ c \in Ids
  BY DEF Types, TypeOK, Calls, Ids

(* Goto changes the place of a call and nothing else of it.                *)
LEMMA GotoFacts ==
    ASSUME Types, NEW c \in Clients, NEW p \in CallPC, Goto(c, p)
    PROVE  /\ op' = [op EXCEPT ![c] = [op[c] EXCEPT !.pc = p]]
           /\ [op[c] EXCEPT !.pc = p] \in Calls
           /\ [op[c] EXCEPT !.pc = p].todo \cap [op[c] EXCEPT !.pc = p].ok = {}
  BY TypesFacts DEF Goto, Calls

LEMMA PutRowType ==
    ASSUME Types, NEW i \in Ids, NEW d \in {NoRow} \cup SUBSET Clients, PutRow(i, d)
    PROVE  db' \in [Shards -> [Ids -> {NoRow} \cup SUBSET Clients]]
  BY EngineAssumption DEF PutRow, Types, TypeOK


-----------------------------------------------------------------------------
(* The steps, one for each outcome: what a statement changes when it       *)
(* succeeds, and the steps that only move a call.                          *)

still == <<up, clock, crashes, unread>>

Quiet(c, p) == Goto(c, p) /\ UNCHANGED <<diskVars, cached, jobs, deleted, drifted, still>>

QuietMove(c) ==
    \/ op[c].pc \in {"idle", "create", "insert", "update", "batch"} /\ Quiet(c, "failed")
    \/ op[c].pc = "idle" /\ Quiet(c, "create")
    \/ op[c].pc = "idle" /\ cached /\ Quiet(c, "insert")
    \/ op[c].pc = "idle" /\ Quiet(c, "batch")

RowCreated(c) ==
    /\ up /\ op[c].pc = "create" /\ ~meta /\ meta' = TRUE /\ count' = 0 /\ Goto(c, "cache")
    /\ UNCHANGED <<db, cached, jobs, deleted, drifted, still>>

RowInserted(c) ==
    /\ op[c].pc = "insert" /\ PutRow(c, {}) /\ jobs' = jobs \cup {Job(c, 0, 1)}
    /\ Goto(c, "inserted")
    /\ UNCHANGED <<meta, count, cached, deleted, drifted, still>>

RowRead(c, i) ==
    /\ op[c].pc = "idle" /\ Row(i) # NoRow
    /\ op' = [op EXCEPT ![c] = [op[c] EXCEPT !.pc = "update", !.id = i, !.read = Row(i)]]
    /\ UNCHANGED <<diskVars, cached, jobs, deleted, drifted, still>>

RowWritten(c) ==
    /\ op[c].pc = "update" /\ Goto(c, "updated")
    /\ IF Row(op[c].id) # NoRow THEN PutRow(op[c].id, op[c].read \cup {c}) ELSE UNCHANGED db
    /\ UNCHANGED <<meta, count, cached, jobs, deleted, drifted, still>>

RowDeleted(c, i) ==
    /\ op[c].pc = "idle" /\ PutRow(i, NoRow) /\ jobs' = jobs \cup {Job(c, 0, -1)}
    /\ Goto(c, "deleted")
    /\ deleted' = IF Row(i) = NoRow THEN deleted ELSE deleted \cup {i}
    /\ drifted' = (drifted \/ Row(i) = NoRow)
    /\ UNCHANGED <<meta, count, cached, still>>

BatchOpened(c) ==
    /\ op[c].pc = "batch" /\ cached
    /\ op' = [op EXCEPT ![c] = [op[c] EXCEPT !.pc = "commit", !.now = clock, !.ok = {},
                                             !.todo = ShardsOf(BatchOf(clock, op[c].i))]]
    /\ UNCHANGED <<diskVars, cached, jobs, deleted, drifted, still>>

ShardCommitted(c, s) ==
    LET mine == InShard(s, BatchIds(c)) IN
    /\ op[c].pc = "commit" /\ s \in op[c].todo
    /\ db' = [db EXCEPT ![s] = [i \in Ids |-> IF i \in mine THEN {} ELSE db[s][i]]]
    /\ drifted' = (drifted \/ \E i \in mine : db[s][i] # NoRow)
    /\ op' = [op EXCEPT ![c] = [op[c] EXCEPT !.todo = op[c].todo \ {s}, !.ok = op[c].ok \cup {s}]]
    /\ UNCHANGED <<meta, count, cached, jobs, deleted, still>>

ShardFailed(c, s) ==
    /\ op[c].pc = "commit" /\ s \in op[c].todo
    /\ op' = [op EXCEPT ![c] = [op[c] EXCEPT !.todo = op[c].todo \ {s}]]
    /\ UNCHANGED <<diskVars, cached, jobs, deleted, drifted, still>>

BatchFailed(c) ==
    /\ op[c].pc = "commit" /\ Goto(c, "failed")
    /\ drifted' = (drifted \/ op[c].ok # {})
    /\ UNCHANGED <<diskVars, cached, jobs, deleted, still>>

BatchDone(c) ==
    /\ op[c].pc = "commit" /\ op[c].ok = ShardsOf(BatchIds(c))
    /\ jobs' = jobs \cup {Job(c, op[c].i, Cardinality(BatchIds(c)))}
    /\ \E p \in {"batch", "bulked"} :
           /\ p = "batch" => LastOfBatch(op[c].i) + 1 < BulkLen
           /\ op' = [op EXCEPT ![c] = [op[c] EXCEPT !.i = LastOfBatch(op[c].i) + 1, !.pc = p]]
    /\ UNCHANGED <<diskVars, cached, deleted, drifted, still>>

JobApplied(j) ==
    /\ j \in jobs /\ jobs' = jobs \ {j}
    /\ count' = (IF meta THEN count + j.delta ELSE count)
    /\ UNCHANGED <<meta, db, up, cached, unread, op, clock, crashes, deleted, drifted>>

JobFailed(j) ==
    /\ j \in jobs /\ jobs' = jobs \ {j} /\ drifted' = TRUE
    /\ UNCHANGED <<meta, count, db, up, cached, unread, op, clock, crashes, deleted>>

CallStep(c) ==
    \/ QuietMove(c) \/ RowCreated(c) \/ CreateCache(c) \/ RowInserted(c) \/ RowWritten(c)
    \/ BatchOpened(c) \/ BatchFailed(c) \/ BatchDone(c)
    \/ \E i \in Ids : RowRead(c, i) \/ RowDeleted(c, i)
    \/ \E s \in Shards : ShardCommitted(c, s) \/ ShardFailed(c, s)

LEMMA CallSteps ==
    ASSUME Types, NEW c \in Clients
    PROVE  /\ CreateCollection(c) \/ Insert(c) \/ Update(c) \/ BulkInsert(c) => CallStep(c)
           /\ (\E i \in Ids : Delete(c, i)) => CallStep(c)
  <1>0. /\ op \in [Clients -> Calls] /\ op[c] \in Calls
    BY TypesFacts
  <1>1. CreateCollection(c) => CallStep(c)
    BY DEF CreateCollection, CreateCheck, CreateInsert, At, Fails, CallStep, QuietMove,
           Quiet, RowCreated, still
  <1>2. Insert(c) => CallStep(c)
    BY DEF Insert, InsertOpen, InsertRow, getCollection, At, Fails, CallStep, QuietMove,
           Quiet, RowInserted, still
  <1>3. UpdateWrite(c) => CallStep(c)
    BY DEF UpdateWrite, At, Fails, CallStep, QuietMove, Quiet, RowWritten, still
  <1>4. ASSUME NEW i \in Ids, UpdateRead(c, i) PROVE CallStep(c)
    <2>1. RowRead(c, i) \/ QuietMove(c)
      BY <1>0, <1>4 DEF UpdateRead, At, Fails, QuietMove, Quiet, RowRead, still, Calls
    <2> QED
      BY <2>1 DEF CallStep
  <1>5. BulkStart(c) => CallStep(c)
    BY DEF BulkStart, At, CallStep, QuietMove, Quiet, still
  <1>6. BatchOpen(c) => CallStep(c)
    <2>1. BatchOpen(c) => BatchOpened(c) \/ QuietMove(c)
      BY <1>0 DEF BatchOpen, At, Fails, getCollection, QuietMove, Quiet, BatchOpened, still, Calls
    <2> QED
      BY <2>1 DEF CallStep
  <1>7. ASSUME NEW s \in Shards, BatchCommit(c, s) PROVE CallStep(c)
    <2>1. ShardCommitted(c, s) \/ ShardFailed(c, s)
      <3>1. op[c].pc = "commit" /\ s \in op[c].todo /\ UNCHANGED <<meta, count, cached, jobs, deleted, still>>
        BY <1>7 DEF BatchCommit, At, still
      <3>2. CASE op' = [op EXCEPT ![c].todo = @ \ {s}] /\ UNCHANGED <<db, drifted>>
        BY <1>0, <3>1, <3>2 DEF ShardFailed, diskVars
      <3>3. CASE ~(op' = [op EXCEPT ![c].todo = @ \ {s}] /\ UNCHANGED <<db, drifted>>)
        BY <1>0, <1>7, <3>1, <3>3, Zenon DEF BatchCommit, ShardCommitted
      <3> QED
        BY <3>2, <3>3
    <2> QED
      BY <2>1 DEF CallStep
  <1>8. BatchJoin(c) => CallStep(c)
    <2>1. BatchJoin(c) => BatchFailed(c) \/ BatchDone(c)
      <3> SUFFICES ASSUME BatchJoin(c) PROVE BatchFailed(c) \/ BatchDone(c)
        OBVIOUS
      <3> DEFINE p == IF LastOfBatch(op[c].i) + 1 < BulkLen THEN "batch" ELSE "bulked"
      <3>1. op[c].pc = "commit" /\ UNCHANGED <<diskVars, cached, deleted, still>>
        BY DEF BatchJoin, At, still
      <3>2. CASE op[c].ok # ShardsOf(BatchIds(c))
        BY <3>1, <3>2 DEF BatchJoin, BatchFailed
      <3>3. CASE op[c].ok = ShardsOf(BatchIds(c))
        <4>1. /\ jobs' = jobs \cup {Job(c, op[c].i, Cardinality(BatchIds(c)))}
              /\ UNCHANGED drifted
              /\ op' = [op EXCEPT ![c] = [op[c] EXCEPT !.i = LastOfBatch(op[c].i) + 1, !.pc = p]]
          BY <1>0, <3>3 DEF BatchJoin, Calls
        <4>2. p \in {"batch", "bulked"} /\ (p = "batch" => LastOfBatch(op[c].i) + 1 < BulkLen)
          OBVIOUS
        <4> HIDE DEF p
        <4> QED
          BY <3>1, <3>3, <4>1, <4>2 DEF BatchDone
      <3> QED
        BY <3>2, <3>3
    <2> QED
      BY <2>1 DEF CallStep
  <1>9. ASSUME NEW i \in Ids, Delete(c, i) PROVE CallStep(c)
    <2>1. RowDeleted(c, i) \/ QuietMove(c)
      BY <1>9 DEF Delete, At, Fails, QuietMove, Quiet, RowDeleted, still
    <2> QED
      BY <2>1 DEF CallStep
  <1> QED
    BY <1>1, <1>2, <1>3, <1>4, <1>5, <1>6, <1>7, <1>8, <1>9 DEF Update, BulkInsert

LEMMA JobSteps ==
    ASSUME NEW j \in jobs, ApplyJob(j)
    PROVE  JobApplied(j) \/ JobFailed(j)
  BY DEF ApplyJob, JobApplied, JobFailed

-----------------------------------------------------------------------------
(* Every step preserves the types.                                         *)

LEMMA TypesQuiet ==
    ASSUME Types, NEW c \in Clients, QuietMove(c)
    PROVE  Types'
  <1>1. PICK p \in CallPC : Quiet(c, p)
    BY DEF QuietMove, CallPC, Returned
  <1> QED
    BY <1>1, GotoFacts, TypesMove, TypesFacts DEF Quiet, diskVars, still

LEMMA TypesRow ==
    ASSUME Types, NEW c \in Clients,
           \/ RowCreated(c) \/ CreateCache(c) \/ RowInserted(c) \/ RowWritten(c)
           \/ \E i \in Ids : RowDeleted(c, i)
    PROVE  Types'
  <1>0. /\ {"cache", "created", "inserted", "updated", "deleted"} \subseteq CallPC
        /\ Job(c, 0, 1) \in Jobs /\ Job(c, 0, -1) \in Jobs
        /\ c \in Ids /\ op[c].id \in Ids /\ op[c].read \subseteq Clients
    BY TypesFacts, EngineAssumption DEF CallPC, Returned, Jobs, Job, Calls, Ids
  <1>1. CASE RowCreated(c)
    <2>1. meta' \in BOOLEAN /\ count' \in Int
      BY <1>1 DEF RowCreated
    <2> QED
      BY <1>0, <1>1, <2>1, GotoFacts, TypesMove, TypesFacts DEF RowCreated, still
  <1>2. CASE CreateCache(c)
    BY <1>0, <1>2, GotoFacts, TypesMove, TypesFacts DEF CreateCache, diskVars
  <1>3. CASE RowInserted(c)
    <2>1. {} \in {NoRow} \cup SUBSET Clients
      OBVIOUS
    <2>2. db' \in [Shards -> [Ids -> {NoRow} \cup SUBSET Clients]]
      BY <1>0, <1>3, <2>1, PutRowType DEF RowInserted
    <2>3. jobs' \subseteq Jobs
      BY <1>0, <1>3, TypesFacts DEF RowInserted
    <2> QED
      BY <1>0, <1>3, <2>2, <2>3, GotoFacts, TypesMove, TypesFacts DEF RowInserted, still
  <1>4. CASE RowWritten(c)
    <2>1. db' \in [Shards -> [Ids -> {NoRow} \cup SUBSET Clients]]
      <3>1. op[c].read \cup {c} \in SUBSET Clients
        BY <1>0
      <3>2. CASE Row(op[c].id) # NoRow
        BY <1>0, <1>4, <3>1, <3>2, PutRowType DEF RowWritten
      <3>3. CASE Row(op[c].id) = NoRow
        BY <1>4, <3>3, TypesFacts DEF RowWritten
      <3> QED
        BY <3>2, <3>3
    <2>2. /\ Goto(c, "updated")
          /\ UNCHANGED <<meta, count, cached, jobs, deleted, drifted, up, clock, crashes, unread>>
      BY <1>4 DEF RowWritten, still
    <2> QED
      BY <1>0, <2>1, <2>2, GotoFacts, TypesMove, TypesFacts
  <1>5. ASSUME NEW i \in Ids, RowDeleted(c, i) PROVE Types'
    <2>1. drifted' \in BOOLEAN /\ deleted' \subseteq Ids
      BY <1>5, TypesFacts DEF RowDeleted
    <2>2. NoRow \in {NoRow} \cup SUBSET Clients
      OBVIOUS
    <2>3. db' \in [Shards -> [Ids -> {NoRow} \cup SUBSET Clients]]
      BY <1>5, <2>2, PutRowType DEF RowDeleted
    <2>4. jobs' \subseteq Jobs
      BY <1>0, <1>5, TypesFacts DEF RowDeleted
    <2> QED
      BY <1>0, <1>5, <2>1, <2>3, <2>4, GotoFacts, TypesMove, TypesFacts DEF RowDeleted, still
  <1> QED
    BY <1>1, <1>2, <1>3, <1>4, <1>5

LEMMA TypesRead ==
    ASSUME Types, NEW c \in Clients, NEW i \in Ids, RowRead(c, i)
    PROVE  Types'
  <1> DEFINE rec == [op[c] EXCEPT !.pc = "update", !.id = i, !.read = Row(i)]
  <1>1. Row(i) \in SUBSET Clients
    BY EngineAssumption, TypesFacts DEF RowRead, Row
  <1>2. rec \in Calls /\ rec.todo \cap rec.ok = {}
    <2>1. /\ op[c] \in Calls /\ op[c].todo \cap op[c].ok = {} /\ "update" \in CallPC
      BY TypesFacts DEF CallPC
    <2>2. rec \in Calls
      BY <1>1, <2>1 DEF Calls
    <2>3. rec.todo = op[c].todo /\ rec.ok = op[c].ok
      BY <2>1 DEF Calls
    <2> QED
      BY <2>1, <2>2, <2>3
  <1>3. op' = [op EXCEPT ![c] = rec]
    BY DEF RowRead
  <1> HIDE DEF rec
  <1> QED
    BY <1>2, <1>3, TypesMove, TypesFacts DEF RowRead, diskVars, still

LEMMA TypesBatch ==
    ASSUME Types, NEW c \in Clients, BatchOpened(c) \/ BatchFailed(c) \/ BatchDone(c)
    PROVE  Types'
  <1>0. /\ op[c] \in Calls /\ op[c].todo \cap op[c].ok = {}
        /\ op[c].i \in 0..BulkLen /\ op[c].now \in 0..MaxTime /\ clock \in 0..MaxTime
    BY TypesFacts DEF Calls
  <1>1. CASE BatchOpened(c)
    <2> DEFINE rec == [op[c] EXCEPT !.pc = "commit", !.now = clock, !.ok = {},
                                    !.todo = ShardsOf(BatchOf(clock, op[c].i))]
    <2>1. rec \in Calls /\ rec.todo \cap rec.ok = {}
      BY <1>0, BatchFacts DEF Calls, CallPC
    <2>2. op' = [op EXCEPT ![c] = rec]
      BY <1>1 DEF BatchOpened
    <2> HIDE DEF rec
    <2> QED
      BY <1>1, <2>1, <2>2, TypesMove, TypesFacts DEF BatchOpened, diskVars, still
  <1>2. CASE BatchFailed(c)
    <2>1. drifted' \in BOOLEAN /\ "failed" \in CallPC
      BY <1>2, TypesFacts DEF BatchFailed, CallPC, Returned
    <2> QED
      BY <1>2, <2>1, GotoFacts, TypesMove, TypesFacts DEF BatchFailed, diskVars, still
  <1>3. CASE BatchDone(c)
    <2>1. PICK p \in {"batch", "bulked"} :
              op' = [op EXCEPT ![c] = [op[c] EXCEPT !.i = LastOfBatch(op[c].i) + 1, !.pc = p]]
      BY <1>3 DEF BatchDone
    <2> DEFINE rec == [op[c] EXCEPT !.i = LastOfBatch(op[c].i) + 1, !.pc = p]
    <2>2. rec \in Calls /\ rec.todo \cap rec.ok = {}
      BY <1>0, LastFacts DEF Calls, CallPC, Returned
    <2>3. Job(c, op[c].i, Cardinality(BatchIds(c))) \in Jobs
      BY <1>0, BatchFacts DEF Jobs, Job, BatchIds
    <2> HIDE DEF rec
    <2> QED
      BY <1>3, <2>1, <2>2, <2>3, TypesMove, TypesFacts DEF BatchDone, diskVars, still, rec
  <1> QED
    BY <1>1, <1>2, <1>3

LEMMA TypesShard ==
    ASSUME Types, NEW c \in Clients, NEW s \in Shards,
           ShardCommitted(c, s) \/ ShardFailed(c, s)
    PROVE  Types'
  <1>0. op[c] \in Calls /\ op[c].todo \cap op[c].ok = {}
    BY TypesFacts
  <1>1. CASE ShardCommitted(c, s)
    <2> DEFINE rec == [op[c] EXCEPT !.todo = op[c].todo \ {s}, !.ok = op[c].ok \cup {s}]
    <2>1. rec \in Calls /\ rec.todo \cap rec.ok = {}
      BY <1>0 DEF Calls
    <2>2. op' = [op EXCEPT ![c] = rec] /\ UNCHANGED <<meta, count, cached, jobs, deleted, still>>
      BY <1>1 DEF ShardCommitted
    <2>3. db' \in [Shards -> [Ids -> {NoRow} \cup SUBSET Clients]]
      <3> DEFINE new == [i \in Ids |-> IF i \in InShard(s, BatchIds(c)) THEN {} ELSE db[s][i]]
      <3>1. new \in [Ids -> {NoRow} \cup SUBSET Clients]
        BY TypesFacts
      <3>2. db' = [db EXCEPT ![s] = new]
        BY <1>1 DEF ShardCommitted
      <3> HIDE DEF new
      <3> QED
        BY <3>1, <3>2, TypesFacts
    <2>4. drifted' \in BOOLEAN
      BY <1>1, TypesFacts DEF ShardCommitted
    <2> HIDE DEF rec
    <2> QED
      BY <2>1, <2>2, <2>3, <2>4, TypesMove, TypesFacts DEF still
  <1>2. CASE ShardFailed(c, s)
    <2> DEFINE rec == [op[c] EXCEPT !.todo = op[c].todo \ {s}]
    <2>1. rec \in Calls /\ rec.todo \cap rec.ok = {}
      BY <1>0 DEF Calls
    <2>2. op' = [op EXCEPT ![c] = rec]
      BY <1>2 DEF ShardFailed
    <2> HIDE DEF rec
    <2> QED
      BY <1>2, <2>1, <2>2, TypesMove, TypesFacts DEF ShardFailed, diskVars, still
  <1> QED
    BY <1>1, <1>2

LEMMA TypesProcess ==
    ASSUME Types, Tick \/ Crash \/ InitJSONEngine \/ (\E j \in jobs : ApplyJob(j))
    PROVE  Types'
  <1>1. CASE Tick
    BY <1>1, EngineAssumption DEF Tick, Types, TypeOK, diskVars
  <1>2. CASE Crash
    <2>1. op' \in [Clients -> Calls] /\ \A c \in Clients : op'[c].todo \cap op'[c].ok = {}
      <3> DEFINE rec(c) == IF op[c].pc \in Returned THEN op[c] ELSE [op[c] EXCEPT !.pc = "failed"]
      <3>1. \A c \in Clients : rec(c) \in Calls /\ rec(c).todo \cap rec(c).ok = {}
        <4> SUFFICES ASSUME NEW c \in Clients
                     PROVE  rec(c) \in Calls /\ rec(c).todo \cap rec(c).ok = {}
          OBVIOUS
        <4>1. op[c] \in Calls /\ op[c].todo \cap op[c].ok = {} /\ "failed" \in CallPC
          BY TypesFacts DEF CallPC, Returned
        <4> QED
          BY <4>1 DEF Calls
      <3>2. op' = [c \in Clients |-> rec(c)]
        BY <1>2 DEF Crash
      <3> HIDE DEF rec
      <3> QED
        BY <3>1, <3>2
    <2>2. up' \in BOOLEAN /\ cached' \in BOOLEAN /\ jobs' = {}
      BY <1>2 DEF Crash
    <2>3. drifted' \in BOOLEAN
      BY <1>2 DEF Crash
    <2>4. crashes' \in 0..MaxCrashes
      BY <1>2, EngineAssumption DEF Crash, Types, TypeOK
    <2> QED
      BY <1>2, <2>1, <2>2, <2>3, <2>4 DEF Crash, Types, TypeOK, Calls, diskVars
  <1>3. CASE InitJSONEngine
    BY <1>3 DEF InitJSONEngine, Types, TypeOK, diskVars
  <1>4. ASSUME NEW j \in jobs, JobApplied(j) \/ JobFailed(j) PROVE Types'
    <2>1. jobs' \subseteq jobs /\ j.delta \in Int
      BY <1>4 DEF JobApplied, JobFailed, Types, TypeOK
    <2>2. count' \in Int /\ drifted' \in BOOLEAN
      <3>1. count \in Int /\ drifted \in BOOLEAN
        BY DEF Types, TypeOK
      <3>2. count' \in Int
        BY <1>4, <2>1, <3>1 DEF JobApplied, JobFailed
      <3>3. drifted' \in BOOLEAN
        BY <1>4, <3>1 DEF JobApplied, JobFailed
      <3> QED
        BY <3>2, <3>3
    <2> QED
      BY <1>4, <2>1, <2>2 DEF JobApplied, JobFailed, Types, TypeOK
  <1> QED
    BY <1>1, <1>2, <1>3, <1>4, JobSteps

LEMMA TypesStep == Types /\ [Next]_vars => Types'
  <1> SUFFICES ASSUME Types, [Next]_vars PROVE Types'
    OBVIOUS
  <1>1. ASSUME NEW c \in Clients, CallStep(c) PROVE Types'
    BY <1>1, TypesQuiet, TypesRow, TypesRead, TypesBatch, TypesShard DEF CallStep
  <1>2. CASE UNCHANGED vars
    BY <1>2 DEF vars, diskVars, Types, TypeOK
  <1> QED
    BY <1>1, <1>2, CallSteps, TypesProcess DEF Next

(* Every variable of the engine has its type, and a shard of a batch has   *)
(* committed or has still to do it, in every reachable state.              *)
THEOREM EngineTypeCorrect == Spec => []TypeOK
  <1>1. Types => TypeOK
    BY DEF Types
  <1> QED
    BY TypesInit, TypesStep, <1>1, PTL DEF Spec

-----------------------------------------------------------------------------
(* The row of the collection.                                              *)

(* What a step of a call leaves alone, and where it takes the call.        *)
LEMMA MoveFacts ==
    ASSUME Types, NEW c \in Clients, NEW p, NEW q \in CallPC,
           \/ Goto(c, q) /\ p = q
           \/ \E i \in Ids : RowRead(c, i) /\ p = "update"
           \/ BatchOpened(c) /\ p = "commit"
           \/ (\E s \in Shards : ShardCommitted(c, s) \/ ShardFailed(c, s)) /\ p = "commit"
    PROVE  /\ op'[c].pc = p
           /\ \A d \in Clients \ {c} : op'[d] = op[d]
  <1>0. op \in [Clients -> Calls] /\ op[c] \in Calls
    BY TypesFacts
  <1>1. CASE Goto(c, q) /\ p = q
    BY <1>0, <1>1 DEF Goto, Calls
  <1>2. ASSUME NEW i \in Ids, RowRead(c, i), p = "update"
        PROVE  op'[c].pc = p /\ \A d \in Clients \ {c} : op'[d] = op[d]
    BY <1>0, <1>2 DEF RowRead, Calls
  <1>3. CASE BatchOpened(c) /\ p = "commit"
    BY <1>0, <1>3 DEF BatchOpened, Calls
  <1>4. ASSUME NEW s \in Shards, ShardCommitted(c, s) \/ ShardFailed(c, s), p = "commit"
        PROVE  op'[c].pc = p /\ \A d \in Clients \ {c} : op'[d] = op[d]
    <2>1. /\ op[c].pc = "commit"
          /\ \/ op' = [op EXCEPT ![c] = [op[c] EXCEPT !.todo = op[c].todo \ {s},
                                                      !.ok = op[c].ok \cup {s}]]
             \/ op' = [op EXCEPT ![c] = [op[c] EXCEPT !.todo = op[c].todo \ {s}]]
      BY <1>4 DEF ShardCommitted, ShardFailed
    <2>2. PICK rec : op' = [op EXCEPT ![c] = rec] /\ rec.pc = op[c].pc
      <3>1. /\ [op[c] EXCEPT !.todo = op[c].todo \ {s}, !.ok = op[c].ok \cup {s}].pc = op[c].pc
            /\ [op[c] EXCEPT !.todo = op[c].todo \ {s}].pc = op[c].pc
        BY <1>0 DEF Calls
      <3> QED
        BY <2>1, <3>1
    <2> QED
      BY <1>0, <1>4, <2>1, <2>2
  <1> QED
    BY <1>1, <1>2, <1>3, <1>4

LEMMA DoneFacts ==
    ASSUME Types, NEW c \in Clients, BatchDone(c)
    PROVE  /\ op'[c].pc \in {"batch", "bulked"}
           /\ op'[c].pc = "batch" => LastOfBatch(op[c].i) + 1 < BulkLen
           /\ op'[c].i = LastOfBatch(op[c].i) + 1
           /\ op'[c].ok = op[c].ok /\ op'[c].now = op[c].now
           /\ \A d \in Clients \ {c} : op'[d] = op[d]
  BY TypesFacts DEF BatchDone, Calls

LEMMA KnownInit == Init => Known
  <1> SUFFICES ASSUME Init PROVE Known
    OBVIOUS
  <1>1. (cached => meta) /\ ~unread
    BY Zenon DEF Init
  <1>2. \A c \in Clients : op[c].pc = "idle"
    BY DEF Init, Call
  <1> QED
    BY <1>1, <1>2 DEF Known, CreatedIsUsable

(* A call that does not get to "cache", "created", "insert" or "commit"    *)
(* disturbs nothing.                                                       *)
LEMMA KnownMove ==
    ASSUME Known, NEW c \in Clients, UNCHANGED <<meta, cached, up, unread>>,
           \A d \in Clients \ {c} : op'[d] = op[d],
           op'[c].pc \in {"cache", "created", "insert", "commit"} => meta,
           op'[c].pc \in {"cache", "created"} => op[c].pc = op'[c].pc
    PROVE  Known'
  BY DEF Known, CreatedIsUsable

LEMMA KnownCall ==
    ASSUME Types, Known, NEW c \in Clients, CallStep(c)
    PROVE  Known'
  <1>0. {"failed", "create", "insert", "batch", "cache", "created", "inserted", "updated",
         "deleted"} \subseteq CallPC
    BY DEF CallPC, Returned
  <1>1. CASE QuietMove(c)
    <2>1. UNCHANGED <<meta, cached, up, unread>>
      BY <1>1 DEF QuietMove, Quiet, diskVars, still
    <2>2. /\ op'[c].pc \in {"failed", "create", "insert", "batch"}
          /\ op'[c].pc = "insert" => cached
          /\ \A d \in Clients \ {c} : op'[d] = op[d]
      BY <1>0, <1>1, MoveFacts DEF QuietMove, Quiet
    <2> QED
      BY <2>1, <2>2, KnownMove DEF Known
  <1>2. CASE RowCreated(c)
    <2>1. op'[c].pc = "cache" /\ \A d \in Clients \ {c} : op'[d] = op[d]
      BY <1>0, <1>2, MoveFacts DEF RowCreated
    <2> QED
      BY <1>2, <2>1 DEF RowCreated, Known, CreatedIsUsable, still
  <1>3. CASE CreateCache(c)
    <2>1. op'[c].pc = "created" /\ \A d \in Clients \ {c} : op'[d] = op[d]
      BY <1>0, <1>3, MoveFacts DEF CreateCache
    <2> QED
      BY <1>3, <2>1 DEF CreateCache, At, Known, CreatedIsUsable, diskVars
  <1>4. CASE RowInserted(c) \/ RowWritten(c) \/ BatchFailed(c) \/ \E i \in Ids : RowDeleted(c, i)
    <2>1. UNCHANGED <<meta, cached, up, unread>>
      BY <1>4 DEF RowInserted, RowWritten, BatchFailed, RowDeleted, diskVars, still
    <2>2. /\ op'[c].pc \in {"inserted", "updated", "failed", "deleted"}
          /\ \A d \in Clients \ {c} : op'[d] = op[d]
      BY <1>0, <1>4, MoveFacts DEF RowInserted, RowWritten, BatchFailed, RowDeleted
    <2> QED
      BY <2>1, <2>2, KnownMove
  <1>5. CASE BatchOpened(c)
    <2>1. UNCHANGED <<meta, cached, up, unread>> /\ cached
      BY <1>5 DEF BatchOpened, diskVars, still
    <2>2. op'[c].pc = "commit" /\ \A d \in Clients \ {c} : op'[d] = op[d]
      BY <1>0, <1>5, MoveFacts
    <2> QED
      BY <2>1, <2>2, KnownMove DEF Known
  <1>6. CASE BatchDone(c)
    <2>1. UNCHANGED <<meta, cached, up, unread>>
      BY <1>6 DEF BatchDone, diskVars, still
    <2> QED
      BY <1>6, <2>1, DoneFacts, KnownMove
  <1>7. ASSUME NEW i \in Ids, RowRead(c, i) PROVE Known'
    <2>1. UNCHANGED <<meta, cached, up, unread>>
      BY <1>7 DEF RowRead, diskVars, still
    <2>2. op'[c].pc = "update" /\ \A d \in Clients \ {c} : op'[d] = op[d]
      BY <1>0, <1>7, MoveFacts
    <2> QED
      BY <2>1, <2>2, KnownMove
  <1>8. ASSUME NEW s \in Shards, ShardCommitted(c, s) \/ ShardFailed(c, s) PROVE Known'
    <2>1. UNCHANGED <<meta, cached, up, unread>> /\ op[c].pc = "commit"
      BY <1>8 DEF ShardCommitted, ShardFailed, diskVars, still
    <2>2. op'[c].pc = "commit" /\ \A d \in Clients \ {c} : op'[d] = op[d]
      BY <1>0, <1>8, MoveFacts
    <2> QED
      BY <2>1, <2>2, KnownMove DEF Known
  <1> QED
    BY <1>1, <1>2, <1>3, <1>4, <1>5, <1>6, <1>7, <1>8 DEF CallStep

LEMMA CrashFacts ==
    ASSUME Types, Crash
    PROVE  /\ ~up' /\ ~cached' /\ jobs' = {} /\ UNCHANGED <<meta, count, db, deleted, unread>>
           /\ \A c \in Clients :
                 \/ op[c].pc \in Returned /\ op'[c] = op[c]
                 \/ op[c].pc \notin Returned /\ op'[c].pc = "failed"
  BY TypesFacts DEF Crash, diskVars, Calls

LEMMA KnownStep == Types /\ Known /\ [Next]_vars => Known'
  <1> SUFFICES ASSUME Types, Known, [Next]_vars PROVE Known'
    OBVIOUS
  <1>1. ASSUME NEW c \in Clients, CallStep(c) PROVE Known'
    BY <1>1, KnownCall
  <1>2. CASE Tick \/ UNCHANGED vars \/ \E j \in jobs : ApplyJob(j)
    <2>1. UNCHANGED <<meta, cached, unread, up, op>>
      BY <1>2 DEF Tick, vars, ApplyJob, diskVars
    <2> QED
      BY <2>1 DEF Known, CreatedIsUsable
  <1>3. CASE Crash
    BY <1>3, CrashFacts DEF Known, CreatedIsUsable, Returned
  <1>4. CASE InitJSONEngine
    BY <1>4 DEF InitJSONEngine, diskVars, Known, CreatedIsUsable
  <1> QED
    BY <1>1, <1>2, <1>3, <1>4, CallSteps DEF Next

(* Once a creation was acknowledged the collection is in the cache         *)
(* whenever the process runs, although only the start of the process and   *)
(* CreateCollection itself ever put it there, but for the runs of the      *)
(* process whose start did not read its row.                               *)
THEOREM CreatedUsable == Spec => []CreatedIsUsable
  <1>1. Types /\ Known => CreatedIsUsable
    BY DEF Known
  <1> QED
    BY TypesInit, TypesStep, KnownInit, KnownStep, <1>1, PTL DEF Spec

(* The primary key decides between concurrent creations: at most one of    *)
(* any number of them is acknowledged.                                     *)
THEOREM CreationUnique == Spec => []CreatedOnce
  <1>1. Types /\ Known => CreatedOnce
    <2> SUFFICES ASSUME Known PROVE CreatedOnce
      OBVIOUS
    <2> DEFINE C == {c \in Clients : op[c].pc = "created"}
    <2>1. CASE C = {}
      BY <2>1, FS_EmptySet DEF CreatedOnce
    <2>2. CASE C # {}
      <3>1. PICK c \in C : TRUE
        BY <2>2
      <3>2. C = {c}
        BY <3>1 DEF Known
      <3> QED
        BY <3>2, FS_Singleton DEF CreatedOnce
    <2> QED
      BY <2>1, <2>2
  <1> QED
    BY TypesInit, TypesStep, KnownInit, KnownStep, <1>1, PTL DEF Spec

-----------------------------------------------------------------------------
(* The documents.                                                          *)

LEMMA RowPut ==
    ASSUME Types, NEW i \in Ids, NEW d, PutRow(i, d)
    PROVE  /\ Row(i)' = d
           /\ \A s \in Shards, k \in Ids :
                  s # getShard(i) \/ k # i => db'[s][k] = db[s][k]
           /\ \A k \in Ids \ {i} : Row(k)' = Row(k)
  <1>1. getShard(i) \in Shards /\ \A k \in Ids : getShard(k) \in Shards
    BY EngineAssumption
  <1> QED
    BY <1>1 DEF PutRow, Row, Types, TypeOK

(* A bulk insertion touches no document of Insert.                         *)
LEMMA RowCommit ==
    ASSUME Types, NEW c \in Clients, NEW s \in Shards, ShardCommitted(c, s)
    PROVE  /\ InShard(s, BatchIds(c)) \subseteq Ids
           /\ InShard(s, BatchIds(c)) \cap Clients = {}
           /\ IsFiniteSet(InShard(s, BatchIds(c)))
           /\ \A k \in Ids : db'[s][k] = IF k \in InShard(s, BatchIds(c)) THEN {} ELSE db[s][k]
           /\ \A t \in Shards \ {s} : db'[t] = db[t]
           /\ \A k \in Clients : Row(k)' = Row(k)
  <1> DEFINE mine == InShard(s, BatchIds(c))
  <1>1. mine \subseteq BatchIds(c)
    BY DEF InShard
  <1>2. op[c].i \in 0..BulkLen /\ op[c].now \in 0..MaxTime
    BY TypesFacts DEF Calls
  <1>3. mine \subseteq Ids /\ mine \cap Clients = {} /\ IsFiniteSet(mine)
    BY <1>1, <1>2, BatchFacts, FS_Subset DEF BatchIds
  <1>4. db' = [db EXCEPT ![s] = [i \in Ids |-> IF i \in mine THEN {} ELSE db[s][i]]]
    BY DEF ShardCommitted
  <1> HIDE DEF mine
  <1>5. /\ \A k \in Ids : db'[s][k] = IF k \in mine THEN {} ELSE db[s][k]
        /\ \A t \in Shards \ {s} : db'[t] = db[t]
    BY <1>4, TypesFacts
  <1>6. \A k \in Clients : db'[getShard(k)][k] = db[getShard(k)][k]
    BY <1>3, <1>5, EngineAssumption DEF Ids
  <1> QED
    BY <1>3, <1>5, <1>6 DEF mine, Row

LEMMA DocumentsInit == Init => Documents
  <1> SUFFICES ASSUME Init PROVE Documents
    OBVIOUS
  <1>1. \A c \in Clients : op[c].pc = "idle" /\ Row(c) = NoRow
    BY EngineAssumption DEF Init, Call, Row, Ids
  <1>2. deleted = {}
    BY DEF Init
  <1> QED
    BY <1>1, <1>2 DEF Documents, Unborn, InsertedIsDurable, DeletedStaysDeleted

(* A call moves, the documents stay, and nothing is acknowledged.          *)
LEMMA DocumentsMove ==
    ASSUME Documents, NEW c \in Clients,
           \A i \in Clients : Row(i)' = Row(i),
           UNCHANGED deleted,
           \A d \in Clients \ {c} : op'[d] = op[d],
           op[c].pc \notin {"inserted", "updated"},
           op'[c].pc \notin {"inserted", "updated"},
           op'[c].pc = "update" => Row(op'[c].id) # NoRow
    PROVE  Documents'
  <1>1. Unborn'
    BY DEF Documents, Unborn
  <1>2. InsertedIsDurable' /\ DeletedStaysDeleted'
    BY DEF Documents, InsertedIsDurable, DeletedStaysDeleted
  <1> QED
    BY <1>1, <1>2 DEF Documents

(* The insertion of document c, which was never there before.              *)
LEMMA DocumentsInsert ==
    ASSUME Types, Documents, NEW c \in Clients, RowInserted(c)
    PROVE  Documents'
  <1>1. /\ op[c].pc = "insert" /\ op'[c].pc = "inserted"
        /\ \A d \in Clients \ {c} : op'[d] = op[d]
        /\ deleted' = deleted
    BY MoveFacts DEF RowInserted, CallPC, Returned
  <1>2. Row(c)' = {} /\ \A k \in Clients \ {c} : Row(k)' = Row(k)
    BY RowPut DEF RowInserted, Ids
  <1>3. {} # NoRow
    BY EngineAssumption
  <1>4. /\ c \notin deleted
        /\ \A d \in Clients : op[d].pc \in {"update", "updated"} => op[d].id # c
    BY <1>1 DEF Documents, Unborn
  <1>5. Unborn'
    BY <1>1, <1>2 DEF Documents, Unborn
  <1>6. InsertedIsDurable' /\ DeletedStaysDeleted'
    BY <1>1, <1>2, <1>3, <1>4 DEF Documents, InsertedIsDurable, DeletedStaysDeleted
  <1> QED
    BY <1>5, <1>6 DEF Documents

(* The write of an update: the document contains it, or is gone.           *)
LEMMA DocumentsWrite ==
    ASSUME Types, Documents, NEW c \in Clients, RowWritten(c)
    PROVE  Documents'
  <1>0. PICK u \in Ids : u = op[c].id
    BY TypesFacts DEF Calls
  <1>1. /\ op[c].pc = "update" /\ op'[c].pc = "updated" /\ op'[c].id = u /\ u \in Ids
        /\ \A d \in Clients \ {c} : op'[d] = op[d]
        /\ deleted' = deleted
    <2>1. "updated" \in CallPC /\ Goto(c, "updated") /\ op[c].pc = "update" /\ deleted' = deleted
      BY DEF RowWritten, CallPC, Returned
    <2>2. op'[c].id = u
      BY <1>0, <2>1, TypesFacts DEF Goto, Calls
    <2> QED
      BY <2>1, <2>2, MoveFacts
  <1>2. \A k \in Clients \ {u} : Row(k)' = Row(k)
    <2>1. CASE Row(u) # NoRow
      BY <1>0, <2>1, RowPut DEF RowWritten, Ids
    <2>2. CASE Row(u) = NoRow
      BY <1>0, <2>2 DEF RowWritten, Row
    <2> QED
      BY <2>1, <2>2
  <1>3. /\ Row(u) = NoRow => Row(u)' = NoRow
        /\ Row(u) # NoRow => Row(u)' # NoRow /\ c \in Row(u)'
    <2>1. CASE Row(u) # NoRow
      <3>1. Row(u)' = op[c].read \cup {c}
        BY <1>0, <2>1, RowPut DEF RowWritten
      <3>2. op[c].read \cup {c} \in SUBSET Clients
        BY TypesFacts DEF Calls
      <3> QED
        BY <2>1, <3>1, <3>2, EngineAssumption
    <2>2. CASE Row(u) = NoRow
      BY <1>0, <2>2 DEF RowWritten, Row
    <2> QED
      BY <2>1, <2>2
  <1>4. /\ u \in Clients => op[u].pc = "inserted"
        /\ \A i \in Clients : op'[i].pc = "inserted" <=> op[i].pc = "inserted"
    BY <1>0, <1>1 DEF Documents, Unborn
  <1>5. Unborn'
    BY <1>1, <1>2, <1>4 DEF Documents, Unborn
  <1>6. InsertedIsDurable' /\ DeletedStaysDeleted'
    BY <1>1, <1>2, <1>3, <1>4 DEF Documents, InsertedIsDurable, DeletedStaysDeleted
  <1> QED
    BY <1>5, <1>6 DEF Documents

LEMMA DocumentsDelete ==
    ASSUME Types, Documents, NEW c \in Clients, NEW i \in Ids, RowDeleted(c, i)
    PROVE  Documents'
  <1>1. /\ op[c].pc = "idle" /\ op'[c].pc = "deleted"
        /\ \A d \in Clients \ {c} : op'[d] = op[d]
    BY MoveFacts DEF RowDeleted, CallPC, Returned
  <1>2. Row(i)' = NoRow /\ \A k \in Clients \ {i} : Row(k)' = Row(k)
    BY RowPut DEF RowDeleted, Ids
  <1>3. /\ Row(i) = NoRow => deleted' = deleted
        /\ Row(i) # NoRow => deleted' = deleted \cup {i}
    BY DEF RowDeleted
  <1>4. \A k \in Clients : op'[k].pc = "inserted" <=> op[k].pc = "inserted"
    BY <1>1
  <1>5. i \in Clients /\ op[i].pc # "inserted" => Row(i) = NoRow
    BY DEF Documents, Unborn
  <1>6. Unborn'
    BY <1>1, <1>2, <1>3, <1>4, <1>5 DEF Documents, Unborn
  <1>7. InsertedIsDurable' /\ DeletedStaysDeleted'
    BY <1>1, <1>2, <1>3, <1>4 DEF Documents, InsertedIsDurable, DeletedStaysDeleted
  <1> QED
    BY <1>6, <1>7 DEF Documents

LEMMA DocumentsCall ==
    ASSUME Types, Documents, NEW c \in Clients, CallStep(c)
    PROVE  Documents'
  <1>0. {"failed", "create", "insert", "batch", "cache", "created"} \subseteq CallPC
    BY DEF CallPC, Returned
  <1>1. CASE QuietMove(c) \/ RowCreated(c) \/ CreateCache(c) \/ BatchFailed(c)
    <2>1. UNCHANGED <<db, deleted>> /\ op[c].pc \notin {"inserted", "updated"}
      BY <1>1 DEF QuietMove, Quiet, RowCreated, CreateCache, At, BatchFailed, diskVars
    <2>2. /\ op'[c].pc \in {"failed", "create", "insert", "batch", "cache", "created"}
          /\ \A d \in Clients \ {c} : op'[d] = op[d]
      BY <1>0, <1>1, MoveFacts DEF QuietMove, Quiet, RowCreated, CreateCache, BatchFailed
    <2> QED
      BY <2>1, <2>2, DocumentsMove DEF Row
  <1>2. CASE BatchOpened(c)
    <2>1. UNCHANGED <<db, deleted>> /\ op[c].pc = "batch"
      BY <1>2 DEF BatchOpened, diskVars
    <2>2. op'[c].pc = "commit" /\ \A d \in Clients \ {c} : op'[d] = op[d]
      BY <1>0, <1>2, MoveFacts
    <2> QED
      BY <2>1, <2>2, DocumentsMove DEF Row
  <1>3. CASE BatchDone(c)
    <2>1. UNCHANGED <<db, deleted>> /\ op[c].pc = "commit"
      BY <1>3 DEF BatchDone, diskVars
    <2> QED
      BY <1>3, <2>1, DoneFacts, DocumentsMove DEF Row
  <1>4. ASSUME NEW i \in Ids, RowRead(c, i) PROVE Documents'
    <2>1. UNCHANGED <<db, deleted>> /\ op[c].pc = "idle" /\ Row(i) # NoRow
      BY <1>4 DEF RowRead, diskVars
    <2>2. op'[c].pc = "update" /\ \A d \in Clients \ {c} : op'[d] = op[d]
      BY <1>0, <1>4, MoveFacts
    <2>3. op'[c].id = i
      BY <1>4, TypesFacts DEF RowRead, Calls
    <2> QED
      BY <2>1, <2>2, <2>3, DocumentsMove DEF Row
  <1>5. ASSUME NEW s \in Shards, ShardCommitted(c, s) \/ ShardFailed(c, s) PROVE Documents'
    <2>1. UNCHANGED deleted /\ op[c].pc = "commit"
      BY <1>5 DEF ShardCommitted, ShardFailed, diskVars
    <2>2. op'[c].pc = "commit" /\ \A d \in Clients \ {c} : op'[d] = op[d]
      BY <1>0, <1>5, MoveFacts
    <2>3. \A k \in Clients : Row(k)' = Row(k)
      BY <1>5, RowCommit DEF ShardFailed, diskVars, Row
    <2> QED
      BY <2>1, <2>2, <2>3, DocumentsMove
  <1> QED
    BY <1>1, <1>2, <1>3, <1>4, <1>5, DocumentsInsert, DocumentsWrite, DocumentsDelete
       DEF CallStep

LEMMA DocumentsStep == Types /\ Documents /\ [Next]_vars => Documents'
  <1> SUFFICES ASSUME Types, Documents, [Next]_vars PROVE Documents'
    OBVIOUS
  <1>1. ASSUME NEW c \in Clients, CallStep(c) PROVE Documents'
    BY <1>1, DocumentsCall
  <1>2. CASE Tick \/ InitJSONEngine \/ UNCHANGED vars \/ \E j \in jobs : ApplyJob(j)
    <2>1. UNCHANGED <<db, deleted, op>>
      BY <1>2 DEF Tick, InitJSONEngine, vars, ApplyJob, diskVars
    <2> QED
      BY <2>1 DEF Documents, Unborn, Row, InsertedIsDurable, DeletedStaysDeleted
  <1>3. CASE Crash
    <2>1. /\ UNCHANGED <<db, deleted>>
          /\ \A c \in Clients : \/ op'[c] = op[c]
                                \/ /\ op[c].pc \notin {"inserted", "updated"}
                                   /\ op'[c].pc = "failed"
      BY <1>3, CrashFacts DEF Returned
    <2>2. Unborn'
      BY <2>1 DEF Documents, Unborn, Row
    <2>3. InsertedIsDurable' /\ DeletedStaysDeleted'
      BY <2>1 DEF Documents, InsertedIsDurable, DeletedStaysDeleted, Row
    <2> QED
      BY <2>2, <2>3 DEF Documents
  <1> QED
    BY <1>1, <1>2, <1>3, CallSteps DEF Next

LEMMA DocumentsInvariant == Spec => []Documents
  BY TypesInit, TypesStep, DocumentsInit, DocumentsStep, PTL DEF Spec

(* A document whose insertion was acknowledged stays, through crashes,     *)
(* restarts and bulk insertions, until a Delete removes it.                *)
THEOREM InsertDurable == Spec => []InsertedIsDurable
  <1>1. Documents => InsertedIsDurable
    BY DEF Documents
  <1> QED
    BY DocumentsInvariant, <1>1, PTL

(* No call brings a deleted document back, in particular no Update that    *)
(* had read it before.                                                     *)
THEOREM DeleteFinal == Spec => []DeletedStaysDeleted
  <1>1. Documents => DeletedStaysDeleted
    BY DEF Documents
  <1> QED
    BY DocumentsInvariant, <1>1, PTL

-----------------------------------------------------------------------------
(* The updates.                                                            *)

(* Neither the document nor its acknowledged updates change.               *)
LEMMA KeptSame ==
    ASSUME NEW i \in Ids, Row(i)' = Row(i), UpdatesOf(i)' = UpdatesOf(i)
    PROVE  UpdatesKept(i)
  BY DEF UpdatesKept, Survives

LEMMA UpdatesSame ==
    ASSUME NEW i \in Ids, NEW c \in Clients, \A d \in Clients \ {c} : op'[d] = op[d],
           op[c].pc # "updated", op'[c].pc # "updated" \/ op'[c].id # i
    PROVE  UpdatesOf(i)' = UpdatesOf(i)
  BY DEF UpdatesOf

LEMMA KeptCall ==
    ASSUME Types, Documents, NEW c \in Clients, CallStep(c), NEW i \in Ids
    PROVE  UpdatesKept(i)
  <1>0. {"failed", "create", "insert", "batch", "cache", "created", "inserted", "updated",
         "deleted"} \subseteq CallPC
    BY DEF CallPC, Returned
  <1>1. CASE QuietMove(c) \/ RowCreated(c) \/ CreateCache(c) \/ BatchFailed(c)
    <2>1. UNCHANGED db /\ op[c].pc # "updated"
      BY <1>1 DEF QuietMove, Quiet, RowCreated, CreateCache, At, BatchFailed, diskVars
    <2>2. /\ op'[c].pc \in {"failed", "create", "insert", "batch", "cache", "created"}
          /\ \A d \in Clients \ {c} : op'[d] = op[d]
      BY <1>0, <1>1, MoveFacts DEF QuietMove, Quiet, RowCreated, CreateCache, BatchFailed
    <2> QED
      BY <2>1, <2>2, UpdatesSame, KeptSame DEF Row
  <1>2. CASE BatchOpened(c)
    <2>1. UNCHANGED db /\ op[c].pc = "batch"
      BY <1>2 DEF BatchOpened, diskVars
    <2>2. op'[c].pc = "commit" /\ \A d \in Clients \ {c} : op'[d] = op[d]
      BY <1>0, <1>2, MoveFacts
    <2> QED
      BY <2>1, <2>2, UpdatesSame, KeptSame DEF Row
  <1>3. CASE BatchDone(c)
    <2>1. UNCHANGED db /\ op[c].pc = "commit"
      BY <1>3 DEF BatchDone, diskVars
    <2> QED
      BY <1>3, <2>1, DoneFacts, UpdatesSame, KeptSame DEF Row
  <1>4. ASSUME NEW k \in Ids, RowRead(c, k) PROVE UpdatesKept(i)
    <2>1. UNCHANGED db /\ op[c].pc = "idle"
      BY <1>4 DEF RowRead, diskVars
    <2>2. op'[c].pc = "update" /\ \A d \in Clients \ {c} : op'[d] = op[d]
      BY <1>0, <1>4, MoveFacts
    <2> QED
      BY <2>1, <2>2, UpdatesSame, KeptSame DEF Row
  <1>5. CASE RowInserted(c)
    <2>1. /\ op[c].pc = "insert" /\ op'[c].pc = "inserted"
          /\ \A d \in Clients \ {c} : op'[d] = op[d]
      BY <1>0, <1>5, MoveFacts DEF RowInserted
    <2>2. UpdatesOf(i)' = UpdatesOf(i)
      BY <2>1, UpdatesSame
    <2>3. CASE i = c
      <3>1. UpdatesOf(c) = {}
        BY <2>1 DEF UpdatesOf, Documents, Unborn
      <3> QED
        BY <2>2, <2>3, <3>1 DEF UpdatesKept, Survives
    <2>4. CASE i # c
      <3>1. Row(i)' = Row(i)
        BY <1>5, <2>4, RowPut DEF RowInserted, Ids
      <3> QED
        BY <2>2, <3>1, KeptSame
    <2> QED
      BY <2>3, <2>4
  <1>6. CASE RowWritten(c)
    <2>0. PICK u \in Ids : u = op[c].id
      BY TypesFacts DEF Calls
    <2>1. Goto(c, "updated") /\ op[c].pc = "update"
      BY <1>6 DEF RowWritten
    <2>2. op'[c].id = u /\ op'[c].pc = "updated" /\ \A d \in Clients \ {c} : op'[d] = op[d]
      BY <1>0, <2>0, <2>1, TypesFacts, MoveFacts DEF Goto, Calls
    <2>3. CASE i = u
      <3>1. CASE Row(u) = NoRow
        <4>1. Row(u)' = NoRow
          BY <1>6, <2>0, <3>1 DEF RowWritten, Row
        <4> QED
          BY <2>3, <4>1 DEF UpdatesKept, Survives
      <3>2. CASE Row(u) # NoRow
        <4>1. Row(u)' = op[c].read \cup {c}
          BY <1>6, <2>0, <3>2, RowPut DEF RowWritten
        <4>2. c \in UpdatesOf(u)'
          BY <2>2 DEF UpdatesOf
        <4>3. Survives(u)'
          BY <4>1, <4>2 DEF Survives
        <4> QED
          BY <2>3, <4>3 DEF UpdatesKept, Survives, UpdatesOf, Row
      <3> QED
        BY <3>1, <3>2
    <2>4. CASE i # u
      <3>1. Row(i)' = Row(i)
        <4>1. CASE Row(u) # NoRow
          BY <1>6, <2>0, <2>4, <4>1, RowPut DEF RowWritten
        <4>2. CASE Row(u) = NoRow
          BY <1>6, <2>0, <4>2 DEF RowWritten, Row
        <4> QED
          BY <4>1, <4>2
      <3> QED
        BY <2>1, <2>2, <2>4, <3>1, UpdatesSame, KeptSame
    <2> QED
      BY <2>3, <2>4
  <1>7. ASSUME NEW k \in Ids, RowDeleted(c, k) PROVE UpdatesKept(i)
    <2>1. /\ op[c].pc = "idle" /\ op'[c].pc = "deleted"
          /\ \A d \in Clients \ {c} : op'[d] = op[d]
      BY <1>0, <1>7, MoveFacts DEF RowDeleted
    <2>2. Row(k)' = NoRow /\ (i # k => Row(i)' = Row(i))
      BY <1>7, RowPut DEF RowDeleted
    <2>3. CASE i = k
      BY <2>2, <2>3 DEF UpdatesKept, Survives, UpdatesOf, Row
    <2>4. CASE i # k
      BY <2>1, <2>2, <2>4, UpdatesSame, KeptSame
    <2> QED
      BY <2>3, <2>4
  <1>8. ASSUME NEW s \in Shards, ShardFailed(c, s) PROVE UpdatesKept(i)
    <2>1. UNCHANGED db /\ op[c].pc = "commit"
      BY <1>8 DEF ShardFailed, diskVars
    <2>2. op'[c].pc = "commit" /\ \A d \in Clients \ {c} : op'[d] = op[d]
      BY <1>0, <1>8, MoveFacts
    <2> QED
      BY <2>1, <2>2, UpdatesSame, KeptSame DEF Row
  <1>9. ASSUME NEW s \in Shards, ShardCommitted(c, s) PROVE UpdatesKept(i)
    <2>1. op[c].pc = "commit" /\ s \in op[c].todo /\ s \notin op[c].ok
      BY <1>9, TypesFacts DEF ShardCommitted
    <2>2. op'[c].pc = "commit" /\ \A d \in Clients \ {c} : op'[d] = op[d]
      BY <1>0, <1>9, MoveFacts
    <2>3. CASE i \in InShard(s, BatchIds(c))
      <3>1. op'[c].ok = op[c].ok \cup {s}
        BY <1>9, TypesFacts DEF ShardCommitted, Calls
      <3>2. i \in BatchIds(c) /\ getShard(i) = s
        BY <2>3 DEF InShard
      <3> QED
        BY <2>1, <3>1, <3>2 DEF UpdatesKept, BulkPuts
    <2>4. CASE i \notin InShard(s, BatchIds(c))
      <3>1. Row(i)' = Row(i)
        BY <1>9, <2>4, RowCommit, EngineAssumption DEF Row
      <3> QED
        BY <2>1, <2>2, <3>1, UpdatesSame, KeptSame
    <2> QED
      BY <2>3, <2>4
  <1> QED
    BY <1>1, <1>2, <1>3, <1>4, <1>5, <1>6, <1>7, <1>8, <1>9 DEF CallStep

LEMMA KeptStep ==
    ASSUME Types, Documents, [Next]_vars, NEW i \in Ids
    PROVE  UpdatesKept(i)
  <1>1. ASSUME NEW c \in Clients, CallStep(c) PROVE UpdatesKept(i)
    BY <1>1, KeptCall
  <1>2. CASE Tick \/ InitJSONEngine \/ UNCHANGED vars \/ \E j \in jobs : ApplyJob(j)
    <2>1. UNCHANGED <<db, op>>
      BY <1>2 DEF Tick, InitJSONEngine, vars, ApplyJob, diskVars
    <2> QED
      BY <2>1, KeptSame DEF Row, UpdatesOf
  <1>3. CASE Crash
    <2>1. /\ UNCHANGED db
          /\ \A c \in Clients : \/ op'[c] = op[c]
                                \/ op[c].pc # "updated" /\ op'[c].pc = "failed"
      BY <1>3, CrashFacts DEF Returned
    <2>2. UpdatesOf(i)' = UpdatesOf(i)
      BY <2>1 DEF UpdatesOf
    <2> QED
      BY <2>1, <2>2, KeptSame DEF Row
  <1> QED
    BY <1>1, <1>2, <1>3, CallSteps DEF Next

(* However the acknowledged updates of a document overlap, and of every    *)
(* document, it contains one of them, unless a BulkInsert has made up its  *)
(* id again since the last one was acknowledged.                           *)
THEOREM UpdateSurvives == Spec => SomeUpdateSurvives
  <1>1. Types /\ Documents /\ [Next]_vars => \A i \in Ids : UpdatesKept(i)
    BY KeptStep
  <1>2. Types /\ Documents /\ [Next]_vars => [\A i \in Ids : UpdatesKept(i)]_vars
    BY <1>1
  <1>3. Types /\ Documents /\ [Next]_vars => (Types /\ Documents)'
    BY TypesStep, DocumentsStep
  <1> QED
    BY TypesInit, DocumentsInit, <1>2, <1>3, PTL DEF Spec, SomeUpdateSurvives

-----------------------------------------------------------------------------
(* The engine implements the document store.                               *)

(* A document, and what an Update has read of it, contains only updates of *)
(* this document that were acknowledged.                                   *)
Contents ==
    /\ \A i \in Ids : Row(i) # NoRow => Row(i) \subseteq UpdatesOf(i)
    /\ \A c \in Clients : op[c].pc = "update" => op[c].read \subseteq UpdatesOf(op[c].id)

LEMMA ContentsInit == Init => Contents
  <1> SUFFICES ASSUME Init PROVE Contents
    OBVIOUS
  <1>1. \A c \in Clients : op[c].pc = "idle"
    BY DEF Init, Call
  <1>2. \A i \in Ids : Row(i) = NoRow
    BY EngineAssumption DEF Init, Row
  <1> QED
    BY <1>1, <1>2 DEF Contents

(* A call that moves without an acknowledgement changes none.              *)
LEMMA NothingAcknowledged ==
    ASSUME NEW c \in Clients,
           \A d \in Clients \ {c} : op'[d] = op[d],
           op[c].pc \notin {"inserted", "updated"},
           op'[c].pc \notin {"inserted", "updated"}
    PROVE  /\ Stored' = Stored /\ Changed' = Changed
           /\ \A i \in Ids : UpdatesOf(i)' = UpdatesOf(i)
  <1>1. \A i \in Ids : UpdatesOf(i)' = UpdatesOf(i)
    BY DEF UpdatesOf
  <1>2. Changed' = Changed
    BY <1>1 DEF Changed
  <1>3. Stored' = Stored
    BY DEF Stored
  <1> QED
    BY <1>1, <1>2, <1>3

(* The contents stay those of acknowledged updates if documents are only   *)
(* emptied or removed and no acknowledgement is taken back.                *)
LEMMA ContentsMove ==
    ASSUME Contents,
           \A i \in Ids : Row(i)' = Row(i) \/ Row(i)' = {} \/ Row(i)' = NoRow,
           \A i \in Ids : UpdatesOf(i) \subseteq UpdatesOf(i)',
           \A d \in Clients : op'[d].pc = "update" =>
               /\ op'[d].id \in Ids
               /\ \/ op'[d] = op[d]
                  \/ op'[d].read \subseteq UpdatesOf(op'[d].id)
    PROVE  Contents'
  <1>1. ASSUME NEW i \in Ids, Row(i)' # NoRow PROVE Row(i)' \subseteq UpdatesOf(i)'
    BY <1>1 DEF Contents
  <1>2. ASSUME NEW d \in Clients, op'[d].pc = "update"
        PROVE  (op[d].read \subseteq UpdatesOf(op[d].id))'
    <2>1. PICK i \in Ids : i = op'[d].id
      BY <1>2
    <2>2. op'[d].read \subseteq UpdatesOf(i)
      BY <1>2, <2>1 DEF Contents
    <2>3. op'[d].read \subseteq UpdatesOf(i)'
      BY <2>2
    <2> QED
      BY <2>1, <2>3 DEF UpdatesOf
  <1> QED
    BY <1>1, <1>2 DEF Contents

Refines == Contents' /\ [Store!Next]_(Store!storeVars)

(* Nothing is acknowledged, stored or removed.                             *)
LEMMA StoreMove ==
    ASSUME Types, Contents, NEW c \in Clients, UNCHANGED <<db, deleted>>,
           \A d \in Clients \ {c} : op'[d] = op[d],
           op[c].pc \notin {"inserted", "updated"},
           op'[c].pc \notin {"inserted", "updated"},
           op'[c].pc = "update" => /\ op'[c].id \in Ids /\ Row(op'[c].id) # NoRow
                                   /\ op'[c].read = Row(op'[c].id)
    PROVE  Refines
  <1>1. /\ Stored' = Stored /\ Changed' = Changed
        /\ \A i \in Ids : UpdatesOf(i)' = UpdatesOf(i)
    BY NothingAcknowledged
  <1>2. Docs' = Docs /\ \A i \in Ids : Row(i)' = Row(i)
    BY DEF Docs, Row
  <1>3. \A d \in Clients : op'[d].pc = "update" =>
            /\ op'[d].id \in Ids
            /\ op'[d] = op[d] \/ op'[d].read \subseteq UpdatesOf(op'[d].id)
    BY TypesFacts DEF Contents, Calls
  <1>4. Contents'
    BY <1>1, <1>2, <1>3, ContentsMove
  <1> QED
    BY <1>1, <1>2, <1>4 DEF Refines, Store!storeVars

LEMMA StoreInsert ==
    ASSUME Types, Documents, Contents, NEW c \in Clients, RowInserted(c)
    PROVE  Refines
  <1>1. /\ op[c].pc = "insert" /\ op'[c].pc = "inserted"
        /\ \A d \in Clients \ {c} : op'[d] = op[d]
        /\ deleted' = deleted
    BY MoveFacts DEF RowInserted, CallPC, Returned
  <1>2. c \in Ids /\ Row(c)' = {} /\ \A k \in Ids \ {c} : Row(k)' = Row(k)
    BY RowPut DEF RowInserted, Ids
  <1>3. \A i \in Ids : UpdatesOf(i)' = UpdatesOf(i)
    BY <1>1 DEF UpdatesOf
  <1>4. Changed' = Changed
    BY <1>3 DEF Changed
  <1>5. c \notin Stored /\ Stored' = Stored \cup {c}
    BY <1>1 DEF Stored
  <1>6. Docs' = [Docs EXCEPT ![c] = {}]
    BY <1>2 DEF Docs
  <1>7. Contents'
    BY <1>1, <1>2, <1>3, ContentsMove, TypesFacts DEF Calls
  <1>8. Store!Insert(c)
    BY <1>1, <1>4, <1>5, <1>6 DEF Store!Insert
  <1> QED
    BY <1>7, <1>8 DEF Refines, Store!Next

LEMMA StoreWrite ==
    ASSUME Types, Documents, Contents, NEW c \in Clients, RowWritten(c)
    PROVE  Refines
  <1>0. PICK u \in Ids : u = op[c].id
    BY TypesFacts DEF Calls
  <1>1. /\ op[c].pc = "update" /\ op'[c].pc = "updated" /\ op'[c].id = u
        /\ \A d \in Clients \ {c} : op'[d] = op[d]
        /\ deleted' = deleted
    <2>1. "updated" \in CallPC /\ Goto(c, "updated") /\ op[c].pc = "update" /\ deleted' = deleted
      BY DEF RowWritten, CallPC, Returned
    <2>2. op'[c].id = u
      BY <1>0, <2>1, TypesFacts DEF Goto, Calls
    <2> QED
      BY <2>1, <2>2, MoveFacts
  <1>2. /\ Row(u) = NoRow => Row(u)' = NoRow
        /\ Row(u) # NoRow => Row(u)' = op[c].read \cup {c}
        /\ \A k \in Ids \ {u} : Row(k)' = Row(k)
    <2>1. CASE Row(u) # NoRow
      BY <1>0, <2>1, RowPut DEF RowWritten
    <2>2. CASE Row(u) = NoRow
      BY <1>0, <2>2 DEF RowWritten, Row
    <2> QED
      BY <2>1, <2>2
  <1>3. op[c].read \subseteq UpdatesOf(u)
    BY <1>0, <1>1 DEF Contents
  <1>4. /\ c \notin UpdatesOf(u) /\ UpdatesOf(u)' = UpdatesOf(u) \cup {c}
        /\ \A k \in Ids \ {u} : UpdatesOf(k)' = UpdatesOf(k)
    BY <1>1 DEF UpdatesOf
  <1>5. Changed' = [Changed EXCEPT ![u] = @ \cup {c}] /\ Changed[u] = UpdatesOf(u)
    BY <1>4 DEF Changed
  <1>6. Stored' = Stored
    BY <1>1 DEF Stored
  <1>7. u \in Clients => u \in Stored
    BY <1>0, <1>1 DEF Documents, Unborn, Stored
  <1>8. /\ Docs[u] = Row(u)
        /\ Row(u) = NoRow => Docs' = Docs
        /\ Row(u) # NoRow => Docs' = [Docs EXCEPT ![u] = op[c].read \cup {c}]
    BY <1>2 DEF Docs
  <1>9. Store!Update(u, c)
    BY <1>1, <1>3, <1>4, <1>5, <1>6, <1>7, <1>8 DEF Store!Update
  <1>10. Contents'
    <2>1. ASSUME NEW i \in Ids, Row(i)' # NoRow PROVE Row(i)' \subseteq UpdatesOf(i)'
      <3>1. CASE i = u
        BY <1>2, <1>3, <1>4, <2>1, <3>1
      <3>2. CASE i # u
        BY <1>2, <1>4, <2>1, <3>2 DEF Contents
      <3> QED
        BY <3>1, <3>2
    <2>2. ASSUME NEW d \in Clients, op'[d].pc = "update"
          PROVE  (op[d].read \subseteq UpdatesOf(op[d].id))'
      <3>1. d # c /\ op'[d] = op[d]
        BY <1>1, <2>2
      <3>2. PICK i \in Ids : i = op[d].id
        BY TypesFacts DEF Calls
      <3>3. op'[d].read \subseteq UpdatesOf(i)
        BY <2>2, <3>1, <3>2 DEF Contents
      <3>4. op'[d].read \subseteq UpdatesOf(i)' /\ op'[d].id = i
        BY <1>4, <3>1, <3>2, <3>3
      <3> QED
        BY <3>4 DEF UpdatesOf
    <2> QED
      BY <2>1, <2>2 DEF Contents
  <1> QED
    BY <1>9, <1>10 DEF Refines, Store!Next

LEMMA StoreDelete ==
    ASSUME Types, Documents, Contents, NEW c \in Clients, NEW i \in Ids, RowDeleted(c, i)
    PROVE  Refines
  <1>1. /\ op[c].pc = "idle" /\ op'[c].pc = "deleted"
        /\ \A d \in Clients \ {c} : op'[d] = op[d]
    BY MoveFacts DEF RowDeleted, CallPC, Returned
  <1>2. Row(i)' = NoRow /\ \A k \in Ids \ {i} : Row(k)' = Row(k)
    BY RowPut DEF RowDeleted
  <1>3. /\ Row(i) = NoRow => deleted' = deleted
        /\ Row(i) # NoRow => deleted' = deleted \cup {i}
    BY DEF RowDeleted
  <1>4. /\ Stored' = Stored /\ Changed' = Changed
        /\ \A k \in Ids : UpdatesOf(k)' = UpdatesOf(k)
    BY <1>1, NothingAcknowledged
  <1>5. Docs' = [Docs EXCEPT ![i] = NoRow] /\ Docs[i] = Row(i) /\ (Row(i) = NoRow => Docs' = Docs)
    BY <1>2 DEF Docs
  <1>6. Contents'
    BY <1>1, <1>2, <1>4, ContentsMove, TypesFacts DEF Calls
  <1>7. CASE Row(i) # NoRow
    <2>1. Store!Delete(i)
      BY <1>3, <1>4, <1>5, <1>7 DEF Store!Delete
    <2> QED
      BY <1>6, <2>1 DEF Refines, Store!Next
  <1>8. CASE Row(i) = NoRow
    BY <1>3, <1>4, <1>5, <1>6, <1>8 DEF Refines, Store!storeVars
  <1> QED
    BY <1>7, <1>8

(* A transaction of a batch replaces documents of BulkInsert only.         *)
LEMMA StoreCommit ==
    ASSUME Types, Contents, NEW c \in Clients, NEW s \in Shards, ShardCommitted(c, s)
    PROVE  Refines
  <1> DEFINE mine == InShard(s, BatchIds(c))
  <1>1. /\ op[c].pc = "commit" /\ op'[c].pc = "commit" /\ deleted' = deleted
        /\ \A d \in Clients \ {c} : op'[d] = op[d]
    BY MoveFacts DEF ShardCommitted, CallPC
  <1>2. /\ Stored' = Stored /\ Changed' = Changed
        /\ \A k \in Ids : UpdatesOf(k)' = UpdatesOf(k)
    BY <1>1, NothingAcknowledged
  <1>3. mine \in SUBSET (Ids \ Clients) /\ \A i \in mine : getShard(i) = s
    BY RowCommit DEF InShard
  <1>4. /\ \A k \in Ids : db'[s][k] = IF k \in mine THEN {} ELSE db[s][k]
        /\ \A t \in Shards \ {s} : db'[t] = db[t]
    BY RowCommit
  <1> HIDE DEF mine
  <1>5. \A k \in Ids : Row(k)' = IF k \in mine THEN {} ELSE Row(k)
    BY <1>3, <1>4, EngineAssumption DEF Row
  <1>6. Docs' = [k \in Ids |-> IF k \in mine THEN {} ELSE Docs[k]]
    BY <1>5 DEF Docs
  <1>7. Store!InsertMany
    BY <1>1, <1>2, <1>3, <1>6 DEF Store!InsertMany
  <1>8. Contents'
    BY <1>1, <1>2, <1>5, ContentsMove, TypesFacts DEF Calls
  <1> QED
    BY <1>7, <1>8 DEF Refines, Store!Next

LEMMA StoreCall ==
    ASSUME Types, Documents, Contents, NEW c \in Clients, CallStep(c)
    PROVE  Refines
  <1>0. {"failed", "create", "insert", "batch", "cache", "created"} \subseteq CallPC
    BY DEF CallPC, Returned
  <1>1. CASE QuietMove(c) \/ RowCreated(c) \/ CreateCache(c) \/ BatchFailed(c)
    <2>1. UNCHANGED <<db, deleted>> /\ op[c].pc \notin {"inserted", "updated"}
      BY <1>1 DEF QuietMove, Quiet, RowCreated, CreateCache, At, BatchFailed, diskVars
    <2>2. /\ op'[c].pc \in {"failed", "create", "insert", "batch", "cache", "created"}
          /\ \A d \in Clients \ {c} : op'[d] = op[d]
      BY <1>0, <1>1, MoveFacts DEF QuietMove, Quiet, RowCreated, CreateCache, BatchFailed
    <2> QED
      BY <2>1, <2>2, StoreMove
  <1>2. CASE BatchOpened(c)
    <2>1. UNCHANGED <<db, deleted>> /\ op[c].pc = "batch"
      BY <1>2 DEF BatchOpened, diskVars
    <2>2. op'[c].pc = "commit" /\ \A d \in Clients \ {c} : op'[d] = op[d]
      BY <1>0, <1>2, MoveFacts
    <2> QED
      BY <2>1, <2>2, StoreMove
  <1>3. CASE BatchDone(c)
    <2>1. UNCHANGED <<db, deleted>> /\ op[c].pc = "commit"
      BY <1>3 DEF BatchDone, diskVars
    <2> QED
      BY <1>3, <2>1, DoneFacts, StoreMove
  <1>4. ASSUME NEW i \in Ids, RowRead(c, i) PROVE Refines
    <2>1. UNCHANGED <<db, deleted>> /\ op[c].pc = "idle" /\ Row(i) # NoRow
      BY <1>4 DEF RowRead, diskVars
    <2>2. op'[c].pc = "update" /\ \A d \in Clients \ {c} : op'[d] = op[d]
      BY <1>0, <1>4, MoveFacts
    <2>3. op'[c].id = i /\ op'[c].read = Row(i)
      BY <1>4, TypesFacts DEF RowRead, Calls
    <2> QED
      BY <2>1, <2>2, <2>3, StoreMove
  <1>5. ASSUME NEW s \in Shards, ShardFailed(c, s) PROVE Refines
    <2>1. UNCHANGED <<db, deleted>> /\ op[c].pc = "commit"
      BY <1>5 DEF ShardFailed, diskVars
    <2>2. op'[c].pc = "commit" /\ \A d \in Clients \ {c} : op'[d] = op[d]
      BY <1>0, <1>5, MoveFacts
    <2> QED
      BY <2>1, <2>2, StoreMove
  <1> QED
    BY <1>1, <1>2, <1>3, <1>4, <1>5, StoreInsert, StoreWrite, StoreDelete, StoreCommit
       DEF CallStep

LEMMA StoreStep == Types /\ Documents /\ Contents /\ [Next]_vars => Refines
  <1> SUFFICES ASSUME Types, Documents, Contents, [Next]_vars PROVE Refines
    OBVIOUS
  <1>1. ASSUME NEW c \in Clients, CallStep(c) PROVE Refines
    BY <1>1, StoreCall
  <1>2. ASSUME UNCHANGED <<db, deleted>>,
               \A c \in Clients : \/ op'[c] = op[c]
                                  \/ /\ op[c].pc \notin {"inserted", "updated"}
                                     /\ op'[c].pc = "failed"
        PROVE  Refines
    <2>1. /\ \A i \in Ids : UpdatesOf(i)' = UpdatesOf(i)
          /\ Stored' = Stored
      BY <1>2 DEF UpdatesOf, Stored
    <2>2. Changed' = Changed /\ Docs' = Docs /\ \A i \in Ids : Row(i)' = Row(i)
      BY <1>2, <2>1 DEF Changed, Docs, Row
    <2>3. Contents'
      BY <1>2, <2>1, <2>2, ContentsMove, TypesFacts DEF Calls
    <2> QED
      BY <1>2, <2>1, <2>2, <2>3 DEF Refines, Store!storeVars
  <1>3. CASE Tick \/ InitJSONEngine \/ UNCHANGED vars \/ \E j \in jobs : ApplyJob(j)
    <2>1. UNCHANGED <<db, deleted, op>>
      BY <1>3 DEF Tick, InitJSONEngine, vars, ApplyJob, diskVars
    <2> QED
      BY <1>2, <2>1
  <1>4. CASE Crash
    BY <1>2, <1>4, CrashFacts DEF Returned
  <1> QED
    BY <1>1, <1>3, <1>4, CallSteps DEF Next

(* The engine implements the document store: each of its steps is one of   *)
(* the store or nothing that concerns documents, for any number of calls,  *)
(* shards, batches and crashes.                                            *)
THEOREM EngineStores == Spec => Stores
  <1>1. Init => Store!Init
    <2> SUFFICES ASSUME Init PROVE Store!Init
      OBVIOUS
    <2>1. \A c \in Clients : op[c].pc = "idle"
      BY DEF Init, Call
    <2>2. \A i \in Ids : Row(i) = NoRow /\ UpdatesOf(i) = {}
      BY <2>1, EngineAssumption DEF Init, Row, UpdatesOf
    <2>3. Stored = {} /\ deleted = {}
      BY <2>1 DEF Stored, Init
    <2> QED
      BY <2>2, <2>3 DEF Store!Init, Docs, Changed
  <1>2. /\ Refines => Contents'
        /\ Refines => [Store!Next]_(Store!storeVars)
    BY DEF Refines
  <1> QED
    BY <1>1, <1>2, TypesInit, TypesStep, DocumentsInit, DocumentsStep, ContentsInit,
       StoreStep, PTL DEF Spec, Stores, Store!Spec

-----------------------------------------------------------------------------
(* The count of the documents.                                             *)

LEMMA CardAdd ==
    ASSUME NEW S, NEW T, IsFiniteSet(S), IsFiniteSet(T), S \cap T = {}
    PROVE  /\ IsFiniteSet(S \cup T)
           /\ Cardinality(S \cup T) = Cardinality(S) + Cardinality(T)
           /\ Cardinality(S) \in Nat /\ Cardinality(T) \in Nat
  <1>1. Cardinality(S \cap T) = 0
    BY FS_EmptySet
  <1>2. Cardinality(S) \in Nat /\ Cardinality(T) \in Nat
    BY FS_CardinalityType
  <1>3. /\ IsFiniteSet(S \cup T)
        /\ Cardinality(S \cup T) = Cardinality(S) + Cardinality(T) - Cardinality(S \cap T)
    BY FS_Union
  <1> QED
    BY <1>1, <1>2, <1>3

LEMMA CardCut ==
    ASSUME NEW S, NEW T, IsFiniteSet(S), T \subseteq S
    PROVE  /\ IsFiniteSet(S \ T)
           /\ Cardinality(S \ T) = Cardinality(S) - Cardinality(T)
           /\ Cardinality(S) \in Nat /\ Cardinality(T) \in Nat
  <1>1. IsFiniteSet(T) /\ IsFiniteSet(S \ T)
    BY FS_Subset
  <1>2. (S \ T) \cap T = {} /\ (S \ T) \cup T = S
    OBVIOUS
  <1>3. /\ Cardinality(S) = Cardinality(S \ T) + Cardinality(T)
        /\ Cardinality(S \ T) \in Nat /\ Cardinality(T) \in Nat
    BY <1>1, <1>2, CardAdd
  <1> QED
    BY <1>1, <1>3

LEMMA CardRect ==
    ASSUME NEW a, NEW T, IsFiniteSet(T)
    PROVE  IsFiniteSet({a} \X T) /\ Cardinality({a} \X T) = Cardinality(T)
  <1>1. IsFiniteSet({a}) /\ Cardinality({a}) = 1 /\ Cardinality(T) \in Nat
    BY FS_Singleton, FS_CardinalityType
  <1>2. /\ IsFiniteSet({a} \X T)
        /\ Cardinality({a} \X T) = Cardinality({a}) * Cardinality(T)
    BY <1>1, FS_Product
  <1>3. Cardinality({a} \X T) = 1 * Cardinality(T)
    BY <1>1, <1>2
  <1> QED
    BY <1>1, <1>2, <1>3

LEMMA CardBlock ==
    ASSUME NEW a, NEW n \in Nat
    PROVE  IsFiniteSet({a} \X (1..n)) /\ Cardinality({a} \X (1..n)) = n
  <1>1. n \in Int /\ 1 \in Int
    OBVIOUS
  <1>2. /\ IsFiniteSet(1..n)
        /\ Cardinality(1..n) = IF 1 > n THEN 0 ELSE n - 1 + 1
    BY <1>1, FS_Interval
  <1>3. Cardinality(1..n) = n
    BY <1>2
  <1> QED
    BY <1>2, <1>3, CardRect

(* The cardinalities that the count is made of are numbers.                *)
LEMMA Numbers ==
    ASSUME AllFinite
    PROVE  /\ Cardinality(Rows) \in Nat /\ Cardinality(Pending) \in Nat
           /\ Cardinality(Removed) \in Nat /\ Cardinality(Uncounted) \in Nat
  BY FS_CardinalityType DEF AllFinite

LEMMA CountingInit == Init => Counting
  <1> SUFFICES ASSUME Init PROVE Counting
    OBVIOUS
  <1>1. Rows = {}
    BY DEF Init, Rows
  <1>2. Pending = {} /\ Removed = {} /\ jobs = {}
    BY DEF Init, Pending, Removed
  <1>3. Uncounted = {}
    BY DEF Init, Uncounted, Call
  <1>4. count = 0
    BY DEF Init
  <1>5. Counted
    <2>1. count = Cardinality(Rows) - Cardinality(Pending)
                    + Cardinality(Removed) - Cardinality(Uncounted)
      BY <1>1, <1>2, <1>3, <1>4, FS_EmptySet
    <2> QED
      BY <1>1, <1>2, <2>1 DEF Counted
  <1> QED
    BY <1>1, <1>2, <1>3, <1>5, FS_EmptySet DEF Counting, JobsUnique, AllFinite

(* The documents of a call count only while its batch commits.             *)
LEMMA UncountedSame ==
    ASSUME NEW c \in Clients, \A d \in Clients \ {c} : op'[d] = op[d],
           \/ op[c].pc # "commit" \/ op[c].ok = {}
           \/ op'[c].pc = "commit" /\ op'[c].ok = op[c].ok
              /\ op'[c].i = op[c].i /\ op'[c].now = op[c].now,
           \/ op'[c].pc # "commit" \/ op'[c].ok = {}
           \/ op[c].pc = "commit" /\ op'[c].ok = op[c].ok
              /\ op'[c].i = op[c].i /\ op'[c].now = op[c].now
    PROVE  Uncounted' = Uncounted
  BY DEF Uncounted, BatchIds

(* A step of a call that neither stores documents nor starts a job.        *)
LEMMA CountingMove ==
    ASSUME Counting, NEW c \in Clients, UNCHANGED <<meta, count, jobs>>,
           drifted' = drifted, Rows' = Rows, Uncounted' = Uncounted,
           \A d \in Clients \ {c} : op'[d] = op[d],
           \/ op[c].pc = "idle"
           \/ op'[c].pc \notin {"idle", "insert", "batch", "commit"}
           \/ /\ op[c].pc \in {"batch", "commit"} /\ op'[c].pc \in {"batch", "commit"}
              /\ op'[c].i = op[c].i,
           jobs \subseteq Jobs
    PROVE  Counting'
  <1>1. Pending' = Pending /\ Removed' = Removed
    BY DEF Pending, Removed
  <1>2. JobsUnique'
    BY DEF Counting, JobsUnique, Jobs
  <1>3. AllFinite'
    BY <1>1 DEF Counting, AllFinite
  <1>4. Counted'
    BY <1>1 DEF Counting, Counted
  <1> QED
    BY <1>2, <1>3, <1>4 DEF Counting

(* A new job, and the documents it will add.                               *)
LEMMA PendingAdd ==
    ASSUME NEW j, j \notin jobs, jobs' = jobs \cup {j}
    PROVE  /\ Pending' = Pending \cup ({j} \X (1..j.delta))
           /\ Pending \cap ({j} \X (1..j.delta)) = {}
           /\ Removed' = IF j.delta = -1 THEN Removed \cup {j} ELSE Removed
           /\ j \notin Removed
  BY DEF Pending, Removed

(* A job that is not pending any longer.                                   *)
LEMMA PendingCut ==
    ASSUME NEW j \in jobs, jobs' = jobs \ {j}
    PROVE  /\ Pending' = Pending \ ({j} \X (1..j.delta))
           /\ ({j} \X (1..j.delta)) \subseteq Pending
           /\ Removed' = IF j.delta = -1 THEN Removed \ {j} ELSE Removed
           /\ j.delta = -1 => {j} \subseteq Removed
  BY DEF Pending, Removed

LEMMA CountingCreate ==
    ASSUME Types, Known, Counting, NEW c \in Clients, RowCreated(c)
    PROVE  Counting'
  <1>1. /\ op[c].pc = "create" /\ op'[c].pc = "cache"
        /\ \A d \in Clients \ {c} : op'[d] = op[d]
    BY MoveFacts DEF RowCreated, CallPC
  <1>2. ~meta /\ meta' = TRUE /\ count' = 0 /\ UNCHANGED <<db, jobs, drifted>>
    BY DEF RowCreated
  <1>3. Rows' = Rows /\ Pending' = Pending /\ Removed' = Removed /\ Uncounted' = Uncounted
    BY <1>1, <1>2, UncountedSame DEF Rows, Pending, Removed
  <1>4. JobsUnique'
    BY <1>1, <1>2 DEF Counting, JobsUnique, Types, Jobs
  <1>5. AllFinite'
    BY <1>3 DEF Counting, AllFinite
  <1>6. Counted'
    <2>1. Uncounted = {}
      BY <1>2 DEF Uncounted, Known
    <2>2. CASE ~drifted
      <3>1. Rows = {} /\ jobs = {}
        BY <1>2, <2>2 DEF Counting, Counted
      <3>2. Pending = {} /\ Removed = {}
        BY <3>1 DEF Pending, Removed
      <3>3. count' = Cardinality(Rows') - Cardinality(Pending')
                       + Cardinality(Removed') - Cardinality(Uncounted')
        BY <1>2, <1>3, <2>1, <3>1, <3>2, FS_EmptySet
      <3> QED
        BY <1>2, <3>3 DEF Counted
    <2>3. CASE drifted
      BY <1>2, <2>3 DEF Counted
    <2> QED
      BY <2>2, <2>3
  <1> QED
    BY <1>4, <1>5, <1>6 DEF Counting

(* The row and the job of an insertion balance.                            *)
LEMMA CountingInsert ==
    ASSUME Types, Known, Documents, Counting, NEW c \in Clients, RowInserted(c)
    PROVE  Counting'
  <1> DEFINE j == Job(c, 0, 1)
             row == <<getShard(c), c>>
  <1>1. /\ op[c].pc = "insert" /\ op'[c].pc = "inserted"
        /\ \A d \in Clients \ {c} : op'[d] = op[d]
        /\ UNCHANGED <<meta, count, drifted>>
    BY MoveFacts DEF RowInserted, CallPC, Returned
  <1>2. /\ j.by = c /\ j.delta = 1 /\ jobs' = jobs \cup {j} /\ j \notin jobs
    BY <1>1 DEF RowInserted, Job, Counting, JobsUnique
  <1>3. Rows' = Rows \cup {row} /\ row \notin Rows
    <2>1. Row(c) = NoRow /\ row \in Shards \X Ids
      BY <1>1, EngineAssumption DEF Documents, Unborn, Ids
    <2>2. /\ Row(c)' = {} /\ {} # NoRow
          /\ \A s \in Shards, k \in Ids : s # getShard(c) \/ k # c => db'[s][k] = db[s][k]
      BY RowPut, EngineAssumption DEF RowInserted, Ids
    <2> QED
      BY <2>1, <2>2 DEF Rows, Row
  <1>4. Uncounted' = Uncounted
    BY <1>1, UncountedSame
  <1>5. /\ Pending' = Pending \cup ({j} \X (1..1)) /\ Pending \cap ({j} \X (1..1)) = {}
        /\ Removed' = Removed
    BY <1>2, PendingAdd
  <1>6. JobsUnique'
    BY <1>1, <1>2 DEF Counting, JobsUnique, Types, Jobs
  <1> HIDE DEF j, row
  <1>7. /\ IsFiniteSet(Rows') /\ Cardinality(Rows') = Cardinality(Rows) + 1
    BY <1>3, FS_AddElement DEF Counting, AllFinite
  <1>8. /\ IsFiniteSet(Pending') /\ Cardinality(Pending') = Cardinality(Pending) + 1
    <2>1. IsFiniteSet({j} \X (1..1)) /\ Cardinality({j} \X (1..1)) = 1
      BY CardBlock
    <2> QED
      BY <1>5, <2>1, CardAdd DEF Counting, AllFinite
  <1>9. AllFinite'
    BY <1>4, <1>5, <1>7, <1>8 DEF Counting, AllFinite
  <1>10. Counted'
    <2>1. meta
      BY <1>1 DEF Known
    <2>2. CASE ~drifted
      <3>1. count = Cardinality(Rows) - Cardinality(Pending)
                      + Cardinality(Removed) - Cardinality(Uncounted)
        BY <2>2 DEF Counting, Counted
      <3>2. count' = Cardinality(Rows') - Cardinality(Pending')
                      + Cardinality(Removed') - Cardinality(Uncounted')
        BY <1>1, <1>4, <1>5, <1>7, <1>8, <3>1, Numbers DEF Counting
      <3> QED
        BY <1>1, <2>1, <3>2 DEF Counted
    <2>3. CASE drifted
      BY <1>1, <2>3 DEF Counted
    <2> QED
      BY <2>2, <2>3
  <1> QED
    BY <1>6, <1>9, <1>10 DEF Counting

(* The row that is gone and the job of its deletion balance; a deletion    *)
(* without a row is one of the things that document_count misses.          *)
LEMMA CountingDelete ==
    ASSUME Types, Counting, NEW c \in Clients, NEW i \in Ids, RowDeleted(c, i)
    PROVE  Counting'
  <1> DEFINE j == Job(c, 0, -1)
             row == <<getShard(i), i>>
  <1>1. /\ op[c].pc = "idle" /\ op'[c].pc = "deleted"
        /\ \A d \in Clients \ {c} : op'[d] = op[d]
        /\ UNCHANGED <<meta, count>> /\ drifted' = (drifted \/ Row(i) = NoRow)
    BY MoveFacts DEF RowDeleted, CallPC, Returned
  <1>2. /\ j.by = c /\ j.delta = -1 /\ jobs' = jobs \cup {j} /\ j \notin jobs
    BY <1>1 DEF RowDeleted, Job, Counting, JobsUnique
  <1>3. Rows' = Rows \ {row} /\ (Row(i) # NoRow => row \in Rows)
    <2>1. row \in Shards \X Ids
      BY EngineAssumption
    <2>2. /\ Row(i)' = NoRow
          /\ \A s \in Shards, k \in Ids : s # getShard(i) \/ k # i => db'[s][k] = db[s][k]
      BY RowPut DEF RowDeleted
    <2> QED
      BY <2>1, <2>2 DEF Rows, Row
  <1>4. Uncounted' = Uncounted
    BY <1>1, UncountedSame
  <1>5. Pending' = Pending /\ Removed' = Removed \cup {j} /\ j \notin Removed
    <2>1. 1..(-1) = {}
      OBVIOUS
    <2> QED
      BY <1>2, <2>1, PendingAdd
  <1>6. JobsUnique'
    BY <1>1, <1>2 DEF Counting, JobsUnique, Types, Jobs
  <1> HIDE DEF j, row
  <1>7. /\ IsFiniteSet(Rows')
        /\ Row(i) # NoRow => Cardinality(Rows') = Cardinality(Rows) - 1
    BY <1>3, FS_RemoveElement DEF Counting, AllFinite
  <1>8. /\ IsFiniteSet(Removed') /\ Cardinality(Removed') = Cardinality(Removed) + 1
    BY <1>5, FS_AddElement DEF Counting, AllFinite
  <1>9. AllFinite'
    BY <1>4, <1>5, <1>7, <1>8 DEF Counting, AllFinite
  <1>10. Counted'
    <2>1. CASE ~drifted /\ Row(i) # NoRow
      <3>1. /\ meta
            /\ count = Cardinality(Rows) - Cardinality(Pending)
                        + Cardinality(Removed) - Cardinality(Uncounted)
        BY <1>3, <2>1 DEF Counting, Counted
      <3>2. count' = Cardinality(Rows') - Cardinality(Pending')
                      + Cardinality(Removed') - Cardinality(Uncounted')
        BY <1>1, <1>4, <1>5, <1>7, <1>8, <2>1, <3>1, Numbers DEF Counting
      <3> QED
        BY <1>1, <3>1, <3>2 DEF Counted
    <2>2. CASE drifted \/ Row(i) = NoRow
      BY <1>1, <2>2 DEF Counted
    <2> QED
      BY <2>1, <2>2
  <1> QED
    BY <1>6, <1>9, <1>10 DEF Counting

(* The rows that a shard has committed are uncounted until the batch ends; *)
(* one that replaces a row is one of the things that document_count        *)
(* misses.                                                                 *)
LEMMA CountingCommit ==
    ASSUME Types, Known, Counting, NEW c \in Clients, NEW s \in Shards, ShardCommitted(c, s)
    PROVE  Counting'
  <1>0. PICK mine : mine = InShard(s, BatchIds(c))
    OBVIOUS
  <1>1. /\ op[c].pc = "commit" /\ op'[c].pc = "commit"
        /\ \A d \in Clients \ {c} : op'[d] = op[d]
        /\ UNCHANGED <<meta, count, jobs>>
    BY MoveFacts DEF ShardCommitted, CallPC, Returned
  <1>2. drifted' = (drifted \/ \E i \in mine : db[s][i] # NoRow)
    BY <1>0 DEF ShardCommitted
  <1>3. /\ op'[c].ok = op[c].ok \cup {s} /\ op'[c].i = op[c].i /\ op'[c].now = op[c].now
        /\ s \notin op[c].ok
    <2> DEFINE rec == [op[c] EXCEPT !.todo = op[c].todo \ {s}, !.ok = op[c].ok \cup {s}]
    <2>1. op' = [op EXCEPT ![c] = rec] /\ s \in op[c].todo
      BY DEF ShardCommitted
    <2>2. /\ op \in [Clients -> Calls] /\ op[c] \in Calls /\ op[c].todo \cap op[c].ok = {}
      BY TypesFacts
    <2>3. rec.ok = op[c].ok \cup {s} /\ rec.i = op[c].i /\ rec.now = op[c].now
      BY <2>2 DEF Calls
    <2> HIDE DEF rec
    <2> QED
      BY <2>1, <2>2, <2>3
  <1>4. /\ mine \subseteq Ids /\ IsFiniteSet(mine)
        /\ \A k \in Ids : db'[s][k] = IF k \in mine THEN {} ELSE db[s][k]
        /\ \A t \in Shards \ {s} : db'[t] = db[t]
    BY <1>0, RowCommit
  <1>5. \A x : x \in mine <=> x \in BatchIds(c) /\ getShard(x) = s
    BY <1>0 DEF InShard
  <1>6. /\ Rows' = Rows \cup ({s} \X mine)
        /\ ~drifted' => Rows \cap ({s} \X mine) = {}
    <2>1. {} # NoRow
      BY EngineAssumption
    <2>2. \A t \in Shards, k \in Ids :
              db'[t][k] # NoRow <=> db[t][k] # NoRow \/ (t = s /\ k \in mine)
      BY <1>4, <2>1
    <2>3. Rows' = Rows \cup ({s} \X mine)
      BY <1>4, <2>2 DEF Rows
    <2>4. ~drifted' => Rows \cap ({s} \X mine) = {}
      BY <1>2 DEF Rows
    <2> QED
      BY <2>3, <2>4
  <1>7. /\ Uncounted' = Uncounted \cup ({c} \X mine)
        /\ Uncounted \cap ({c} \X mine) = {}
    BY <1>1, <1>3, <1>4, <1>5 DEF Uncounted, BatchIds
  <1>8. Pending' = Pending /\ Removed' = Removed
    BY <1>1 DEF Pending, Removed
  <1>9. JobsUnique'
    BY <1>1, <1>3 DEF Counting, JobsUnique, Types, Jobs
  <1>10. /\ IsFiniteSet({s} \X mine) /\ Cardinality({s} \X mine) = Cardinality(mine)
         /\ IsFiniteSet({c} \X mine) /\ Cardinality({c} \X mine) = Cardinality(mine)
         /\ Cardinality(mine) \in Nat
    BY <1>4, CardRect, FS_CardinalityType
  <1>11. /\ IsFiniteSet(Uncounted')
         /\ Cardinality(Uncounted') = Cardinality(Uncounted) + Cardinality(mine)
    BY <1>7, <1>10, CardAdd DEF Counting, AllFinite
  <1>12. IsFiniteSet(Rows')
    BY <1>6, <1>10, FS_Union DEF Counting, AllFinite
  <1>13. ~drifted' => Cardinality(Rows') = Cardinality(Rows) + Cardinality(mine)
    BY <1>6, <1>10, CardAdd DEF Counting, AllFinite
  <1>14. AllFinite'
    BY <1>8, <1>11, <1>12 DEF Counting, AllFinite
  <1>15. Counted'
    <2> SUFFICES ASSUME ~drifted'
                 PROVE  /\ meta'
                        /\ count' = Cardinality(Rows') - Cardinality(Pending')
                                      + Cardinality(Removed') - Cardinality(Uncounted')
      BY DEF Counted
    <2>1. meta'
      BY <1>1 DEF Known
    <2>2. ~drifted
      BY <1>2
    <2>3. count = Cardinality(Rows) - Cardinality(Pending)
                    + Cardinality(Removed) - Cardinality(Uncounted)
      BY <2>2 DEF Counting, Counted
    <2>4. count' = Cardinality(Rows') - Cardinality(Pending')
                    + Cardinality(Removed') - Cardinality(Uncounted')
      BY <1>1, <1>8, <1>10, <1>11, <1>13, <2>3, Numbers DEF Counting
    <2> QED
      BY <2>1, <2>4
  <1> QED
    BY <1>9, <1>14, <1>15 DEF Counting

(* The job of a batch takes over its uncounted documents.                  *)
LEMMA CountingDone ==
    ASSUME Types, Known, Counting, NEW c \in Clients, BatchDone(c)
    PROVE  Counting'
  <1>0. PICK n, ids, j : /\ ids = BatchIds(c) /\ n = Cardinality(ids)
                         /\ j = Job(c, op[c].i, n)
    OBVIOUS
  <1>1. /\ op[c].pc = "commit" /\ op'[c].pc \in {"batch", "bulked"}
        /\ op'[c].pc = "batch" => LastOfBatch(op[c].i) + 1 < BulkLen
        /\ op'[c].i = LastOfBatch(op[c].i) + 1
        /\ \A d \in Clients \ {c} : op'[d] = op[d]
    BY DoneFacts DEF BatchDone
  <1>2. /\ op[c].ok = ShardsOf(ids) /\ jobs' = jobs \cup {j}
        /\ UNCHANGED <<meta, count, db, drifted>>
    BY <1>0 DEF BatchDone, diskVars
  <1>3. op[c].i \in 0..BulkLen /\ op[c].now \in 0..MaxTime
    BY TypesFacts DEF Calls
  <1>4. /\ ids \subseteq Ids /\ IsFiniteSet(ids) /\ n \in Nat
    BY <1>0, <1>3, BatchFacts DEF BatchIds
  <1>5. j.by = c /\ j.i = op[c].i /\ j.delta = n
    BY <1>0 DEF Job
  <1>6. j \notin jobs
    BY <1>1, <1>3, <1>5 DEF Counting, JobsUnique
  <1>7. JobsUnique'
    <2>1. op'[c].pc = "batch" => op[c].i < op'[c].i
      <3>1. op[c].i < BulkLen => op[c].i < LastOfBatch(op[c].i) + 1
        BY <1>3, LastFacts
      <3>2. op'[c].pc = "batch" => op[c].i < BulkLen
        BY <1>1, <1>3, EngineAssumption DEF LastOfBatch
      <3> QED
        BY <1>1, <3>1, <3>2
    <2>2. \A k \in jobs : k.by = c => k.i < op[c].i /\ k.i \in Int
      BY <1>1 DEF Counting, JobsUnique, Types, Jobs
    <2>3. op[c].i \in Int /\ op'[c].i \in Int
      BY <1>1, <1>3, LastFacts
    <2>4. \A k \in jobs : k.by = c /\ op'[c].pc = "batch" => k.i < op'[c].i
      BY <2>1, <2>2, <2>3
    <2> SUFFICES ASSUME NEW k \in jobs'
                 PROVE  /\ op'[k.by].pc \notin {"idle", "insert"}
                        /\ op'[k.by].pc \in {"batch", "commit"} => k.i < op'[k.by].i
      BY DEF JobsUnique
    <2>5. CASE k = j
      BY <1>1, <1>5, <2>1, <2>5
    <2>6. CASE k \in jobs /\ k.by = c
      BY <1>1, <2>4, <2>6
    <2>7. CASE k \in jobs /\ k.by # c
      BY <1>1, <2>7 DEF Counting, JobsUnique, Types, Jobs
    <2> QED
      BY <1>2, <2>5, <2>6, <2>7
  <1>8. /\ Pending' = Pending \cup ({j} \X (1..n))
        /\ Pending \cap ({j} \X (1..n)) = {}
        /\ Removed' = Removed
    BY <1>2, <1>4, <1>5, <1>6, PendingAdd
  <1>9. /\ Uncounted' = Uncounted \ ({c} \X ids)
        /\ ({c} \X ids) \subseteq Uncounted
    <2>1. \A i \in ids : getShard(i) \in op[c].ok
      BY <1>2 DEF ShardsOf
    <2>2. ({c} \X ids) \subseteq Uncounted
      BY <1>0, <1>1, <1>4, <2>1 DEF Uncounted
    <2>3. Uncounted' = Uncounted \ ({c} \X ids)
      BY <1>0, <1>1 DEF Uncounted, BatchIds
    <2> QED
      BY <2>2, <2>3
  <1>10. Rows' = Rows
    BY <1>2 DEF Rows
  <1>11. /\ IsFiniteSet(Pending') /\ Cardinality(Pending') = Cardinality(Pending) + n
    <2>1. IsFiniteSet({j} \X (1..n)) /\ Cardinality({j} \X (1..n)) = n
      BY <1>4, CardBlock
    <2> QED
      BY <1>8, <2>1, CardAdd DEF Counting, AllFinite
  <1>12. /\ IsFiniteSet(Uncounted') /\ Cardinality(Uncounted') = Cardinality(Uncounted) - n
    <2>1. Cardinality({c} \X ids) = n
      BY <1>0, <1>4, CardRect
    <2> QED
      BY <1>9, <2>1, CardCut DEF Counting, AllFinite
  <1>13. AllFinite'
    BY <1>8, <1>10, <1>11, <1>12 DEF Counting, AllFinite
  <1>14. Counted'
    <2> SUFFICES ASSUME ~drifted
                 PROVE  /\ meta'
                        /\ count' = Cardinality(Rows') - Cardinality(Pending')
                                      + Cardinality(Removed') - Cardinality(Uncounted')
      BY <1>2 DEF Counted
    <2>1. meta'
      BY <1>1, <1>2 DEF Known
    <2>2. count = Cardinality(Rows) - Cardinality(Pending)
                    + Cardinality(Removed) - Cardinality(Uncounted)
      BY DEF Counting, Counted
    <2>3. count' = Cardinality(Rows') - Cardinality(Pending')
                    + Cardinality(Removed') - Cardinality(Uncounted')
      BY <1>2, <1>4, <1>8, <1>10, <1>11, <1>12, <2>2, Numbers DEF Counting
    <2> QED
      BY <2>1, <2>3
  <1> QED
    BY <1>7, <1>13, <1>14 DEF Counting

(* A job moves its documents into the count.                               *)
LEMMA CountingApply ==
    ASSUME Types, Counting, NEW j \in jobs, JobApplied(j) \/ JobFailed(j)
    PROVE  Counting'
  <1>1. /\ jobs' = jobs \ {j} /\ UNCHANGED <<meta, db, op>>
        /\ ~drifted' => /\ ~drifted /\ count' = (IF meta THEN count + j.delta ELSE count)
    BY DEF JobApplied, JobFailed
  <1>2. Rows' = Rows /\ Uncounted' = Uncounted
    BY <1>1 DEF Rows, Uncounted, BatchIds
  <1>3. JobsUnique'
    BY <1>1 DEF Counting, JobsUnique
  <1>4. /\ Pending' = Pending \ ({j} \X (1..j.delta))
        /\ ({j} \X (1..j.delta)) \subseteq Pending
        /\ Removed' = IF j.delta = -1 THEN Removed \ {j} ELSE Removed
        /\ j.delta = -1 => {j} \subseteq Removed
    BY <1>1, PendingCut
  <1>5. j.delta \in Nat \/ j.delta = -1
    BY DEF Types, Jobs
  <1>6. /\ IsFiniteSet(Pending') /\ IsFiniteSet(Removed')
        /\ Cardinality(Pending') - Cardinality(Removed')
             = Cardinality(Pending) - Cardinality(Removed) - j.delta
    <2>0. Cardinality(Pending) \in Nat /\ Cardinality(Removed) \in Nat
      BY Numbers DEF Counting
    <2>1. CASE j.delta \in Nat
      <3>1. Cardinality({j} \X (1..j.delta)) = j.delta
        BY <2>1, CardBlock
      <3>2. /\ IsFiniteSet(Pending') /\ Cardinality(Pending') = Cardinality(Pending) - j.delta
        BY <1>4, <3>1, CardCut DEF Counting, AllFinite
      <3>3. Removed' = Removed
        BY <1>4, <2>1
      <3> QED
        BY <2>0, <2>1, <3>2, <3>3 DEF Counting, AllFinite
    <2>2. CASE j.delta = -1
      <3>1. 1..(-1) = {}
        OBVIOUS
      <3>2. Pending' = Pending
        BY <1>4, <2>2, <3>1
      <3>3. /\ IsFiniteSet(Removed') /\ Cardinality(Removed') = Cardinality(Removed) - 1
        <4>1. Removed' = Removed \ {j} /\ j \in Removed
          BY <1>4, <2>2
        <4> QED
          BY <4>1, FS_RemoveElement DEF Counting, AllFinite
      <3> QED
        BY <2>0, <2>2, <3>2, <3>3 DEF Counting, AllFinite
    <2> QED
      BY <1>5, <2>1, <2>2
  <1>7. AllFinite'
    BY <1>2, <1>6 DEF Counting, AllFinite
  <1>8. Counted'
    <2> SUFFICES ASSUME ~drifted'
                 PROVE  /\ meta'
                        /\ count' = Cardinality(Rows') - Cardinality(Pending')
                                      + Cardinality(Removed') - Cardinality(Uncounted')
      BY DEF Counted
    <2>1. meta
      BY <1>1 DEF Counting, Counted
    <2>2. /\ count' = count + j.delta
          /\ count = Cardinality(Rows) - Cardinality(Pending)
                       + Cardinality(Removed) - Cardinality(Uncounted)
      BY <1>1, <2>1 DEF Counting, Counted
    <2>3. /\ Cardinality(Rows) \in Nat /\ Cardinality(Pending) \in Nat
          /\ Cardinality(Removed) \in Nat /\ Cardinality(Uncounted) \in Nat
          /\ Cardinality(Pending') \in Nat /\ Cardinality(Removed') \in Nat
          /\ j.delta \in Int
      BY <1>5, <1>6, Numbers, FS_CardinalityType DEF Counting
    <2>4. count' = Cardinality(Rows') - Cardinality(Pending')
                    + Cardinality(Removed') - Cardinality(Uncounted')
      BY <1>2, <1>6, <2>2, <2>3
    <2> QED
      BY <1>1, <2>1, <2>4
  <1> QED
    BY <1>3, <1>7, <1>8 DEF Counting

(* A crash loses the jobs and the batches; document_count misses them.     *)
LEMMA CountingCrash ==
    ASSUME Types, Counting, Crash
    PROVE  Counting'
  <1>1. /\ jobs' = {} /\ UNCHANGED <<meta, count, db>>
        /\ \A c \in Clients : op'[c].pc # "commit"
    BY CrashFacts DEF Returned
  <1>2. drifted' = (drifted \/ jobs # {} \/ \E c \in Clients : op[c].pc = "commit" /\ op[c].ok # {})
    BY DEF Crash
  <1>3. Rows' = Rows /\ Pending' = {} /\ Removed' = {} /\ Uncounted' = {}
    BY <1>1 DEF Rows, Pending, Removed, Uncounted
  <1>4. JobsUnique'
    BY <1>1 DEF JobsUnique
  <1>5. AllFinite'
    BY <1>3, FS_EmptySet DEF Counting, AllFinite
  <1>6. Counted'
    <2> SUFFICES ASSUME ~drifted'
                 PROVE  /\ Rows' # {} \/ jobs' # {} => meta'
                        /\ count' = Cardinality(Rows') - Cardinality(Pending')
                                      + Cardinality(Removed') - Cardinality(Uncounted')
      BY DEF Counted
    <2>1. ~drifted /\ jobs = {} /\ \A c \in Clients : op[c].pc = "commit" => op[c].ok = {}
      BY <1>2
    <2>2. Pending = {} /\ Removed = {} /\ Uncounted = {}
      BY <2>1 DEF Pending, Removed, Uncounted
    <2>3. /\ Rows # {} => meta
          /\ count = Cardinality(Rows) - Cardinality(Pending)
                       + Cardinality(Removed) - Cardinality(Uncounted)
      BY <2>1 DEF Counting, Counted
    <2> QED
      BY <1>1, <1>3, <2>2, <2>3
  <1> QED
    BY <1>4, <1>5, <1>6 DEF Counting

LEMMA CountingCall ==
    ASSUME Types, Known, Documents, Counting, NEW c \in Clients, CallStep(c)
    PROVE  Counting'
  <1>0. /\ {"failed", "create", "insert", "batch", "created", "updated"} \subseteq CallPC
        /\ jobs \subseteq Jobs
    BY DEF CallPC, Returned, Types
  <1>1. CASE QuietMove(c) \/ CreateCache(c)
    <2>1. UNCHANGED <<meta, count, db, jobs, drifted>>
      BY <1>1 DEF QuietMove, Quiet, CreateCache, diskVars
    <2>2. /\ op[c].pc # "commit" /\ \A d \in Clients \ {c} : op'[d] = op[d]
          /\ \/ op[c].pc = "idle" /\ op'[c].pc \in {"failed", "create", "insert", "batch"}
             \/ op'[c].pc \in {"failed", "created"}
      BY <1>0, <1>1, MoveFacts DEF QuietMove, Quiet, CreateCache, At
    <2>3. Rows' = Rows /\ Uncounted' = Uncounted
      BY <2>1, <2>2, UncountedSame DEF Rows
    <2> QED
      BY <1>0, <2>1, <2>2, <2>3, CountingMove
  <1>2. CASE RowWritten(c)
    <2>1. /\ op[c].pc = "update" /\ op'[c].pc = "updated"
          /\ \A d \in Clients \ {c} : op'[d] = op[d]
          /\ UNCHANGED <<meta, count, jobs, drifted>>
      BY <1>0, <1>2, MoveFacts DEF RowWritten
    <2>2. Rows' = Rows
      <3>0. PICK u \in Ids : u = op[c].id
        BY TypesFacts DEF Calls
      <3>1. CASE Row(u) = NoRow
        BY <1>2, <3>0, <3>1 DEF RowWritten, Rows
      <3>2. CASE Row(u) # NoRow
        <4>1. op[c].read \cup {c} \in SUBSET Clients
          BY TypesFacts DEF Calls
        <4>2. op[c].read \cup {c} # NoRow
          BY <4>1, EngineAssumption
        <4>3. /\ Row(u)' = op[c].read \cup {c}
              /\ \A s \in Shards, k \in Ids : s # getShard(u) \/ k # u => db'[s][k] = db[s][k]
          BY <1>2, <3>0, <3>2, RowPut DEF RowWritten
        <4>4. \A s \in Shards, k \in Ids : db'[s][k] # NoRow <=> db[s][k] # NoRow
          BY <3>2, <4>2, <4>3 DEF Row
        <4> QED
          BY <4>4 DEF Rows
      <3> QED
        BY <3>1, <3>2
    <2>3. Uncounted' = Uncounted
      BY <2>1, UncountedSame
    <2> QED
      BY <1>0, <2>1, <2>2, <2>3, CountingMove
  <1>3. CASE BatchOpened(c)
    <2>1. UNCHANGED <<meta, count, db, jobs, drifted>> /\ op[c].pc = "batch"
      BY <1>3 DEF BatchOpened, diskVars
    <2>2. op'[c].pc = "commit" /\ \A d \in Clients \ {c} : op'[d] = op[d]
      BY <1>0, <1>3, MoveFacts
    <2>3. op'[c].ok = {} /\ op'[c].i = op[c].i
      BY <1>3, TypesFacts DEF BatchOpened, Calls
    <2>4. Rows' = Rows /\ Uncounted' = Uncounted
      BY <2>1, <2>2, <2>3, UncountedSame DEF Rows
    <2> QED
      BY <1>0, <2>1, <2>2, <2>3, <2>4, CountingMove
  <1>4. ASSUME NEW i \in Ids, RowRead(c, i) PROVE Counting'
    <2>1. UNCHANGED <<meta, count, db, jobs, drifted>> /\ op[c].pc = "idle"
      BY <1>4 DEF RowRead, diskVars
    <2>2. op'[c].pc = "update" /\ \A d \in Clients \ {c} : op'[d] = op[d]
      BY <1>0, <1>4, MoveFacts
    <2>3. Rows' = Rows /\ Uncounted' = Uncounted
      BY <2>1, <2>2, UncountedSame DEF Rows
    <2> QED
      BY <1>0, <2>1, <2>2, <2>3, CountingMove
  <1>5. ASSUME NEW s \in Shards, ShardFailed(c, s) PROVE Counting'
    <2>1. UNCHANGED <<meta, count, db, jobs, drifted>> /\ op[c].pc = "commit"
      BY <1>5 DEF ShardFailed, diskVars
    <2>2. op'[c].pc = "commit" /\ \A d \in Clients \ {c} : op'[d] = op[d]
      BY <1>0, <1>5, MoveFacts
    <2>3. op'[c].ok = op[c].ok /\ op'[c].i = op[c].i /\ op'[c].now = op[c].now
      BY <1>5, TypesFacts DEF ShardFailed, Calls
    <2>4. Rows' = Rows /\ Uncounted' = Uncounted
      BY <2>1, <2>2, <2>3, UncountedSame DEF Rows
    <2> QED
      BY <1>0, <2>1, <2>2, <2>3, <2>4, CountingMove
  <1>6. CASE BatchFailed(c)
    <2>1. /\ UNCHANGED <<meta, count, db, jobs>> /\ op[c].pc = "commit"
          /\ drifted' = (drifted \/ op[c].ok # {})
      BY <1>6 DEF BatchFailed, diskVars
    <2>2. op'[c].pc = "failed" /\ \A d \in Clients \ {c} : op'[d] = op[d]
      BY <1>0, <1>6, MoveFacts DEF BatchFailed
    <2>3. Rows' = Rows /\ Pending' = Pending /\ Removed' = Removed
      BY <2>1 DEF Rows, Pending, Removed
    <2>4. CASE op[c].ok = {}
      <3>1. drifted' = drifted
        BY <2>1, <2>4, TypesFacts
      <3>2. Uncounted' = Uncounted
        BY <2>1, <2>2, <2>4, UncountedSame
      <3> QED
        BY <1>0, <2>1, <2>2, <2>3, <3>1, <3>2, CountingMove
    <2>5. CASE op[c].ok # {}
      <3>1. Uncounted' \subseteq Uncounted
        BY <2>2 DEF Uncounted, BatchIds
      <3>2. AllFinite'
        BY <2>3, <3>1, FS_Subset DEF Counting, AllFinite
      <3>3. JobsUnique'
        BY <1>0, <2>1, <2>2 DEF Counting, JobsUnique, Jobs
      <3> QED
        BY <2>1, <2>5, <3>2, <3>3 DEF Counting, Counted
    <2> QED
      BY <2>4, <2>5
  <1> QED
    BY <1>1, <1>2, <1>3, <1>4, <1>5, <1>6, CountingCreate, CountingInsert, CountingDelete,
       CountingCommit, CountingDone DEF CallStep

LEMMA CountingStep == Types /\ Known /\ Documents /\ Counting /\ [Next]_vars => Counting'
  <1> SUFFICES ASSUME Types, Known, Documents, Counting, [Next]_vars PROVE Counting'
    OBVIOUS
  <1>1. ASSUME NEW c \in Clients, CallStep(c) PROVE Counting'
    BY <1>1, CountingCall
  <1>2. CASE Tick \/ InitJSONEngine \/ UNCHANGED vars
    <2>1. UNCHANGED <<meta, count, db, jobs, drifted, op>>
      BY <1>2 DEF Tick, InitJSONEngine, vars, diskVars
    <2>2. /\ Rows' = Rows /\ Pending' = Pending /\ Removed' = Removed
          /\ Uncounted' = Uncounted
      BY <2>1 DEF Rows, Pending, Removed, Uncounted, BatchIds
    <2> QED
      BY <2>1, <2>2 DEF Counting, JobsUnique, AllFinite, Counted
  <1>3. ASSUME NEW j \in jobs, ApplyJob(j) PROVE Counting'
    BY <1>3, JobSteps, CountingApply
  <1>4. CASE Crash
    BY <1>4, CountingCrash
  <1> QED
    BY <1>1, <1>2, <1>3, <1>4, CallSteps DEF Next

(* Whenever no job is pending and no batch is halfway, document_count is   *)
(* the number of documents in all shards, for any number of calls and any  *)
(* batches, unless one of the events that it misses has happened.          *)
THEOREM CountCorrect == Spec => []CountExact
  <1>1. IInv => CountExact
    <2> SUFFICES ASSUME IInv, ~drifted, jobs = {}, \A c \in Clients : op[c].pc # "commit"
                 PROVE  count = Cardinality(Rows)
      BY DEF CountExact
    <2>1. Pending = {} /\ Removed = {} /\ Uncounted = {}
      BY DEF Pending, Removed, Uncounted
    <2>2. count = Cardinality(Rows) - Cardinality(Pending)
                    + Cardinality(Removed) - Cardinality(Uncounted)
      BY DEF IInv, Counting, Counted
    <2>3. Cardinality(Rows) \in Nat
      BY Numbers DEF IInv, Counting
    <2> QED
      BY <2>1, <2>2, <2>3, FS_EmptySet
  <1>2. Init => IInv
    BY TypesInit, KnownInit, DocumentsInit, CountingInit DEF IInv
  <1>3. IInv /\ [Next]_vars => IInv'
    BY TypesStep, KnownStep, DocumentsStep, CountingStep DEF IInv
  <1> QED
    BY <1>1, <1>2, <1>3, PTL DEF Spec

=============================================================================
