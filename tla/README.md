# LS Engine: a TLA+ verification project

LS Engine (`src/lsengine`) is an application server written in Go: an HTTP server
that runs JavaScript in a pool of Goja virtual machines, over HTTP and over
WebSockets, with a sharded JSON database on SQLite, a cache, script imports and a
cluster mode. This directory holds the TLA+ models of its stateful parts, the TLC
configurations that check them on small instances, and TLAPS proofs of the safety
properties that the passing runs check, and of the abstract specifications that the
components implement, for every instance. `PROJECT.json` lists the runs, the source
lines behind every definition, the hazards, the findings and the theorems.

The repository has no tests; the code is the reference, and its README and log
messages are what the findings quote.

## Inventory

| Component | Source | State | Operations | Module |
|---|---|---|---|---|
| VM pool | `internal/vm/vm_pool.go` | buffered channel of VMs, fields of each VM, counters | `Get`, `Put`, `Execute`, timeout callback, `cleanup` | `GojaPool` |
| WebSocket manager | `internal/websocket/ws.go` | registry of connections, counters; per connection a send channel, `closed`, a lock | `HandleWebSocket`, `Register`, `Unregister`, `Broadcast`, `wsWriter`, `handleMessage`, `safeSend` | `WSManager`, over the pool in `Serving` |
| JSON engine | `internal/jsondb/engine.go`, `shard.go` | metadata row, documents in the shards, collection cache, pending count jobs | `CreateCollection`, `Insert`, `Update`, `Delete`, `BulkInsert`, `InitJSONEngine` | `JSONEngine` |
| Paginated queries | `internal/jsondb/engine.go` | none | `FindPage`, `Find`, `FindOne`, `Query` | `JSONPaging` |
| B-Tree index | `internal/jsondb/btree.go` | the tree | `Insert`, `Search` | `BTreeIndex` |
| Cluster manager | `internal/cluster/cluster.go` | worker processes, a read-write lock | `StartWorkers`, `monitorWorkers`, `restartWorker`, `Stop` | `Cluster` |
| Cache | `internal/cache/cache.go` | local map, Redis | `Get`, `Set`, `Del`, `Clear`, `Close`, `cleanup` | `CacheManager` |
| Import processor, security | `internal/imports`, `internal/security` | import cache of the process; per block the visited set, depth and count | `ProcessImports`, `ProcessToCallTags`, `ProcessScriptSrcLS`, `ReadLocalFile`, path and content validation | `Imports` |
| Plugins, API routes | `internal/plugins/plugins.go`, `api/routes.go` | routes, chain, a limiter per address | `ServeHTTP`, `Then`, the middlewares | `Plugins` |
| Metrics | `internal/metrics/metrics.go` | counters, the window of query times, a lock | `AddHTTPRequest`, `AddQueryTime`, `GetStats`, `Reset` | `Metrics` |
| HTTP server, configuration, command line | `internal/server`, `internal/config`, `cmd/main.go` | `app.json`, uploaded files, the listening port, the process | `LoadAppConfig`, port probe, `Start`, handlers, `uploadHandler`, `Shutdown` | `HTTPServer` |
| Native API, shard manager, utilities | the rest | none that outlives a call | | not modelled |

How they interact. `handleMessage` of the WebSocket manager calls `Execute` of the
pool, in a goroutine of its own for every message, and answers through the send
channel of the connection. The monitor of the cluster, `cleanup` of the pool and of
the cache, and `wsWriter` are goroutines that live beside the calls. The JSON engine
and the cache are called by whoever has them; each keeps state in memory and state
elsewhere (SQLite, Redis), written in separate steps. The middleware of the plugins
calls the metrics, which scripts read as well; the import processor calls the security
manager, whose cache all pages share. `main()` loads the configuration, which the
server then reads and never again compares with `app.json`. There is no lock that
covers two components.

What is hard, and therefore what the properties are about:

- **ownership** of a VM that passes between calls, a timer and a janitor without a
  lock, and an interrupt that arrives late;
- **closing a channel** that other goroutines send to, and tearing a connection down
  on five different paths;
- **check and act** in separate steps: the connection limit, the creation of a
  collection, the eviction of the cache;
- **two copies** of the same data (metadata and collection cache, Redis and local
  map, documents and `document_count`) written one after the other, with failures
  and crashes in between;
- **read, modify, write** of documents without a transaction;
- **counters** that belong together, changed by atomic additions and reset under a
  lock that the additions do not take;
- **files** that are checked, read and cached in separate steps while others write
  them, or written in place by a process that may be killed;
- **loops** over containers that change under them;
- **waiting** for a lock one holds oneself.

`PROJECT.json` lists these hazards one by one, at their lines.

## The modules

Each component module has its state as variables, one action per operation or per
step of it that other goroutines can see, and the properties at its end, each
with a comment. Operators marked `Mutant:` are plausible bugs of the operator that
follows them; they are used by no specification, only to see that the properties
notice them. Variables marked `history` are read by no action's guard.

### `GojaPool` (run by `MCGojaPool`)

A call of `Execute` is a process: `idle`, `running` (after `Get`), `returned`,
`stopped` (after the deferred `timer.Stop`), `cleared` (inside `Put`, between
`ClearInterrupt` and the send), `done`. The timer of the call is a second process,
because `timer.Stop` does not wait for a callback that has started; so the callback
can interrupt a VM that its call has given back already. `cleanup` is a process with
four places: waiting for the ticker, evaluating `i < len(p.vms)`, receiving, holding.
A VM is an index into `heap`; its fields are the usage count, `lastUsed` (zero,
recent, or more than 30 minutes ago) and the interrupt flag of the runtime. That
`lastUsed` becomes stale is an action of the environment.

A property that one may expect does not hold, and is therefore not stated: that a
call is interrupted only by its own timer. A callback that is already started when
`timer.Stop` runs may interrupt the next user of the VM. What holds is
`OneTimeoutPerTimer`: one expired timer ends at most one script.

`VMAllocator` is what the pool promises, without channel, timers and counters: a VM is
free, held by one user, with the keeper who inspects free ones, or gone; a new one is
made only when none is free. `Allocator` in `GojaPool` is its instance under the
mapping that takes the VMs in the channel as free, those of calls between `Get` and
the end of `Put` as held, and the VM of `cleanup` as kept. `Allocates` says that the
pool implements it; the run checks it, `GojaPoolProofs` proves it.

### `WSManager` (run by `MCWSManager`)

Three kinds of goroutines: the handler of a connection, whose deferred calls are
its last steps in the order in which Go runs them (close the channel, unregister,
close the connection); the writer, which receives, reads the length of the queue,
drains that many messages, and finishes the frame; a request, which locks, looks at
`closed` and sends. A broadcast ranges over the registry as `sync.Map.Range`
promises: what is registered all along is visited, nothing twice. A send to a closed
channel is a state (`panicked`) of the sender. The network is external: a write
fails once the connection is closed, and may fail once the peer has gone. The script
a request runs is part of its first step; `Serving` runs it in the pool.

`Mailbox` is what the manager promises about messages, without channels, frames, locks
and the registry: a message is offered to a peer once, a mailbox takes it or loses it and
is never above its limit, and the peer is written a greeting and then what its mailbox
took, in order. `Mail` in `WSManager` is its instance under the mapping that takes the
current frame and the send channel together as the mailbox, what was written as the wire,
and the turns that are over as the offers; `Delivers` says that the manager implements
it. That the welcome comes first (`WelcomeFirst`) and that nobody gets a message twice or the
reply of another (`AtMostOnce`) are part of it; they are stated, and proved, by themselves as well.

### `Serving` (run by `MCServing`)

`WSManager` and `GojaPool` as one system. A request is a goroutine of the manager and a
call of `Execute` at the same time: it takes a VM, runs, is interrupted by its timer or
not, gives the VM back, and only then locks the connection and replies. The timers, the
janitor and the clock of the pool go on beside the connections. Nothing is assumed about the
end of a script: `Manages` says that the composition implements `WSManager` together with
the fairness that `WSManager` assumes, which contains that every script ends.

### `JSONEngine` (run by `MCStorage`)

One collection; every SQL statement or committed transaction is one step and may
fail without effect. A document is the set of updates it contains, so that a lost
update can be seen. The jobs that maintain `document_count` are a set of pending
deltas. A crash takes the cache, the calls and the jobs; `InitJSONEngine` starts the
process again. It skips a row that it cannot scan and never looks at `rows.Err()`, so a
start may succeed without having read the row of the collection (`unread`, history); then
the collection is there and cannot be used, until a start that reads it, which is what
`CreatedIsUsable` says. `getCollection` succeeds only from the cache: its query scans
`shard_key`, which no statement ever sets, into a Go string, which fails for NULL.
Insert's ids (nanosecond and random number) are taken to be unique; the ids of
`BulkInsert` (second and index) are modelled as they are, and collide.

`drifted` records that something happened which `document_count` does not survive: a
deletion of a document that is not there (`Delete` decrements all the same), colliding
bulk ids, a batch that failed in some shards only, and a failed or lost job.
`CountExact` says these are all: it is silent about a collection in which one of them has happened.

`SomeUpdateSurvives` is an action property over every document, those of `BulkInsert`
included: of the acknowledged updates of a document one is in it, unless a bulk insertion
that makes up the same id again has replaced it since, which loses them all.

`DocumentStore` is what the engine promises about documents, without shards, statements,
batches, metadata, cache, jobs and crashes: operations that happen at once, when they are
acknowledged. It promises little of `Update`, because the engine writes what it has read
before: an update may lose others, but contains itself, and nothing that was not
written to this document; it is acknowledged without effect if the document was
deleted meanwhile. `BulkInsert` replaces documents of its own ids. `Store` in `JSONEngine` is
its instance; the history it needs (acknowledged insertions and updates) is read off the
places of the calls. `Stores` says that the engine implements it.

### `CacheManager` (run by `MCStorage`)

A call touches Redis and the local map in separate steps. `Cache.Get` is three steps:
copy the item, look at the clock, delete under a second lock. Values have the form
they have in the code: a Go value, the bytes in Redis, what `json.Unmarshal` makes of
them. `trusted` and `latest` are history: a write is trusted when no other call on the
key overlapped it and Redis did not fail. `call` holds the calls, `time` the clock. `FreshOrNothing` is what remains true of
such a cache. It says nothing of a write that was overlapped or refused by Redis,
because then an old value does come back: a failed `Redis.Set` is ignored, and the
next `Get` copies the old value over the new one.

### `Metrics` and `Plugins` (run by `MCLibraries`)

`Metrics` has the steps of the four operations that two goroutines can interleave: the
atomic additions of `AddHTTPRequest`, its addition under the lock, the comparison and
the division of `GetStats`, the stores of `Reset`. `MetricsSpec` lets any goroutine call
any of them. `Plugins` extends it: a request is a goroutine that the router lets into
the chain or answers with 404; `pos` is the middleware it is in, on its way in or out. `Then`
is the loop of the code, from the last middleware to the first, as a recursive function;
that it keeps the order of the calls of `Use` is a lemma (`ThenKeepsOrder`). The rate limiter reads its map, reads
it again under the write lock and inserts, takes a token; the tokens that the clock
adds are an action of the environment. On its way out `LoggingMiddleware` calls
`AddHTTPRequest`, so every behaviour of `Plugins` is one of `Metrics`, which
`PluginsProofs` proves. The order of the chain is a constant: the application gives it with
`Use`. `counted`, `torn`, `granted` and `refilled` are history; a `Reset` that cuts through the three
additions of `AddHTTPRequest` sets `torn`, and `StatsExact` is silent from then on.

The 256 shards of the rate limiter partition the addresses and are one map here. That a
waiting writer keeps new readers of a `sync.RWMutex` out is not modelled: it only takes
behaviours away.

### `Imports` (run by `MCLibraries`)

A page is a goroutine that goes through its constructs: script blocks with import lines,
and tags (`to-call`, `src` with `ls`). `ReadLocalFile` is four steps (cache, `os.Stat`,
read, store), between which another page and an editor of the file may act. Paths are
told apart by what the policies decide about them: remote, refused by
`ValidateLocalPath`, refused by `ResolveLocalPath` too; contents by
`ValidateScriptContent` and the size limit. `Candidates` and `TagCandidates` are the files
that the two functions look for in turn (`x`, `x.js`, an entry point in the directory
`x`; the subdirectories).

### `HTTPServer` (run by `MCHTTPServer`)

The whole process as the machine sees it: `down`, loading, writing the first `app.json`
(`os.WriteFile` creates the file and then writes it), probing the port up to three times,
starting, serving. A crash is possible anywhere; a signal ends the process at once before
`signal.Notify` and after ten seconds of going on after it. `app.json`, the
uploaded files and the ports that other programs hold outlive the process. `LoadAppConfig`
may take the branch for a missing file whatever `app.json` is, since it does so for every
error of `os.ReadFile`, and then overwrites the file with the defaults; `unread` (history)
tells that this happened to a file that was there. `RestartKeepsSettings` says it is the only way
to lose settings. An upload is
parse, create, one write per chunk, answer; the error of `io.Copy` is ignored as in the
code, so a cut upload is answered with success and the size that was written. `StoredIsReported`
compares the file with what was sent: the reported size tells how much of it is there, no
older content is left, and nothing is added. Two uploads of one name
write one file, each at its own offset, and `alone` (history) tells which upload was not
disturbed; of the others the property says that every chunk stands at its place. Answers are
`ok`, `error` (any status from 400 on), `stored`, or `cut` by the end of the process. `Shutdown` waits for
nothing and is not delayed by anything, so that a signal ends the process is no property here.

### `JSONPaging`, `BTreeIndex`, `Cluster`

`JSONPaging` has the arithmetic of `FindPage` as operators and a reader who follows
`HasMore` while nobody writes. `BTreeIndex` has the tree as the sequence of keys of
its root: `splitChild` panics before a second level exists. `Cluster` has the three
goroutines and the `sync.RWMutex` as its documentation describes it.

## The runs

| Run | Kind | What it shows |
|---|---|---|
| `pool` | pass | the pool implements the allocator; exclusive VMs, accounting, usage limit, one timeout per timer; every call returns; idle VMs are evicted |
| `ws_safety` | pass | the manager implements the mailboxes; no reply to a closed channel, order of messages, registry |
| `serving` | pass | replies are results of ended scripts; the manager over the pool has the fairness it assumes; complete tear-down, every request settles, queued replies are written, with scripts that loop |
| `storage` | pass | the engine implements the document store; durability, deletion, creation, updates, the document count; the cache keeps to its size limit and returns no older value after an undisturbed write |
| `libraries` | pass | one bucket per address, exact counters, no division by zero, every request answered; no refused content in a page, imports once per block, a cache that settles |
| `http` | pass | an upload reported as stored is what was sent up to the reported size, settings survive a restart unless `app.json` could not be read, every start concludes |
| `ws_limit` | violation | two handshakes exceed `maxConns` |
| `ws_broadcast` | violation | `Broadcast` sends to a closed channel |
| `paging` | violation | following `HasMore` misses documents |
| `btree` | violation | the first split panics and loses keys |
| `cluster` | violation | the monitor waits for itself; the worker is never restarted |
| `port` | violation | with `PORT` set the server listens on the port of `app.json` |

### Bounds, and why they are enough

- `pool`: three calls, `MinSize = 1`, `MaxSize = 2`, usage limit 1, one endless
  script. Three calls can want more VMs than the channel has room for, so a `Put` finds it
  full, also because `cleanup` was in between; they are enough for a VM to be reused after a
  late interrupt and to pass its limit, and two slots let the length shrink under the
  index of `cleanup`. The calls that differ in nothing begin in a fixed order (the constraint `InOrder`),
  which loses no behaviour up to renaming and, unlike a symmetry set, is sound for the
  liveness properties.
- `ws_safety`: two connections, one request, one broadcast, queue of one: full queues,
  late joiners of a frame and both counts of the limit happen. Not reached is the limit of a
  mailbox, `SendCap + DrainMax + 1`, which needs more messages than there are; the proof covers it.
- `serving`: one connection, two requests with scripts that loop, one broadcast, a queue of
  one, a channel of one VM with a usage limit of one. Two of the three, in any combination, begin
  (the constraint `TwoAtOnce`; nobody is obliged to send the third, so what is left out is
  other behaviours, not their ends). Two requests are enough to contend for the lock of the
  connection while the queue is full, and for the VM of the channel; they never wait for
  each other in the pool, where `Get` makes a VM if there is none. All scripts loop, so that
  only a timer ends them; scripts that end by themselves are in the run of the pool.
- `storage`: of the engine three calls of any kind, two shards, three documents in batches of two (the
  last batch is cut, a batch spans both shards), two seconds of clock (colliding and
  different bulk ids), one crash; of the cache three calls of any kind on two keys, a map of one
  entry, ttls of 0 (for which Redis has no expiration) and 1, three moments of time. The two share no
  variable and no goroutine, so a behaviour of `MCStorage` is one of either, chosen at its start
  (`part`), and each is explored as if it were alone. The run is the longest, about three minutes.
- `libraries`: two requests of one address with a burst of two, two other goroutines
  that each make one call to the metrics, a window of one query time; two pages with four
  and two constructs over a limit of two imports, three paths (plain, refused by one of
  the two policies, remote), one file that changes once. Plugins and imports share no variable, so
  a behaviour of the run is one of either. The limits on imports and on depth are small
  enough to be reached.
- `http`: two starts, two requests that may upload two chunks and one chunk under one name,
  two ports, an `app.json` of a user that lacks settings. `port` is the same instance.
- The violation runs have the smallest instances in which the counterexample exists.

Connections, requests, clients (with the calls of the cache, which have the same names) and keys that differ in nothing
are symmetry sets in the runs without liveness properties; the others use none. Deadlock is checked for the pool, alone and under the manager, whose
janitor never stops. The other systems come to rest when the bounded calls are over.

### Fairness

Only what the Go runtime guarantees: a goroutine that can run does, a timer or ticker
that has expired fires, a read ends once its deadline has passed. Nobody is obliged to
call `Execute`, to connect, to send or to leave. `WF` of a whole goroutine suffices
everywhere because a goroutine is at one place at a time. In `Plugins` nobody is obliged to
send a request or to read or reset the metrics, in `HTTPServer` nobody to start or to
signal the process, and a handler that runs need not finish before `Shutdown` ends it. A looping script is not
obliged to end by itself; only an interrupted one is. `WSManager` by itself assumes that scripts
end; the run that checks its liveness is that of `Serving`, which does not assume it, and there
the janitor of the pool is not obliged to run either.

## The proofs

The proofs hold for any number of calls, connections and keys and any sizes, from the
`ASSUME`s of the modules: sizes and limits are natural numbers, positive where the code
has a positive constant; the initial size of the pool is not above the maximum; a hash
gives a shard that exists; the ids of `Insert` are not those of `BulkInsert`; the markers
(`NoVM`, `None`, `Nil`, `NoRow`, `Absent`, `Torn`, `Welcome`) differ from each other and from
what they are compared with, requests are not broadcasts, and the remarks an import may leave in a page are no contents
of files. The sets of calls, connections, requests and pages may be infinite: where a
counter is compared with the size of a set, that the set is finite is part of the
invariant.

**`GojaPoolProofs`**

- `TypeCorrect`, `VMExclusive`: `ExclusiveVM` is not inductive on its
  own. Nothing in it says that a call which is past `Get` holds a VM that exists, or
  that the janitor holds one exactly while its place is `hold`; the strengthening is
  `IInv == TypeOK /\ Holding /\ ExclusiveVM`. Each action moves a VM between the
  channel, a call and the janitor; lemmas about `Tail` and `Append` say what that does
  to the places of a VM.
- `WornOutNeverPooled`: on top of `IInv`, the usage count of a VM that a call holds is
  at most `UsageCap + 1`, and that of a VM in the channel or with the janitor at most
  `UsageCap`. `Get` counts every use but the one for which it creates the VM, so the calls that a VM has been
  handed to are as many as its count says, or one more if it was created: at most `UsageCap + 1` for an
  initial VM, `UsageCap + 2` for one that `Get` created. Exclusiveness is what keeps `Get` from counting up a VM that is
  elsewhere as well.
- `AccountingCorrect`: `Accounts` says for every state what `Accounting` says: the VMs made
  are those in the channel, in use, with the janitor, evicted and dropped, and the calls that
  have begun are those that reused and those that created.
- `TimeoutsPaidFor`: `OneTimeoutPerTimer` compares scripts that were ended with timers that
  have expired, and says nothing of a flag that is set and has not ended anything yet. A
  `Threat` is a VM with its flag set that runs or can still be given to a call;
  `TimeoutInv` is `|Timeouts| + |Threats| <= |Interrupted|`. A callback adds at most one
  threat, a timeout turns one into itself, `ClearInterrupt` and eviction only take them
  away; `ExclusiveVM` keeps one flag from ending two scripts.
- `PoolAllocates`: initial states map to initial states, and every
  action to `Obtain`, `Release`, `Inspect`, `Decide` or a stutter, one lemma per group. `IInv` is needed
  because `Obtain` takes a VM out of the set of free ones: it must not be in the
  channel a second time.

**`WSManagerProofs`**, with `IInv == LockInv /\ RegistryInv /\ QueueInv /\ BroadcastInv`

- `SafeSendSafe`: the lock discipline. `LockInv` says that
  a request about to send holds the lock of its connection, that its connection is not
  flagged closed, and that a channel is closed only after the flag was set; the flag
  cannot be set while a request holds the lock.
- `RegistryCorrect`: the registry is determined by the places of the handlers, and so is the
  counter, one step later (`StoredAt`, `CountedAt`); every path of a handler, the five of the
  tear-down included, keeps to that.
- `QueueCorrect`, `WelcomeIsFirst`: `Flows` says of each connection that what was written after
  the welcome, the frame and the channel are together what was accepted. It needs that the
  number of messages the writer will still drain is covered by the channel, which holds
  because the writer alone receives, and that there is no writer before the welcome.
- `ManagerTypeCorrect`: the types, with every channel within its capacity.
- `NothingTwice`, `ManagerDelivers`: on top of `IInv`, `MailInv`. `AtMostOnce` says that what a
  connection has accepted differs in all its places and that the turn of each of these messages
  is over; `Visits` that a broadcast has its current connection among those it has seen; `Batch`
  that the frame and what the writer will still drain fit in one frame, which gives the limit of
  the mailbox. By every step of the manager (`MailStep`) either no message has its turn (`NoTurn`), and
  the welcome or the writer may move something on, or exactly one has (`Turn`), and is taken or not. A
  message whose turn comes now was not over before, so it was not accepted before. The writer's
  receiving and draining move messages within the mailbox; the end of a frame is `Write`, with as many messages
  as the frame has.

**`JSONEngineProofs`**, with `IInv == Types /\ Known /\ Documents /\ Counting`

- `CreatedUsable`, `CreationUnique`: `Known`. Whoever is past the lookup of the collection is so
  because its row exists; one call at most is between the insertion of the row and its
  answer or has answered, for the row is unique.
- `UpdateSurvives`: `SomeUpdateSurvives` as an action property, for the ids of `Insert` and of
  `BulkInsert`; a deletion ends the duty, a bulk insertion of the same id suspends it until the next
  acknowledged update.
- `InsertDurable`, `DeleteFinal`: `Documents`. They do not exclude that a
  document that `Insert` has still to store is in somebody's hands; `Unborn` does: no row,
  no deletion and no update of it exists before.
- `CountCorrect`: `CountExact` speaks of the moment when nothing is pending. At every other
  moment `document_count` is the number of rows, less the documents of pending additions
  (`Pending`) and of batches that have committed in some shards (`Uncounted`), plus the
  pending deletions (`Removed`). The jobs are a set, so `JobsUnique` says that no call starts
  a job that is pending already.
- `EngineStores`: the refinement of `DocumentStore`, from `Types`, `Documents` and
  `Contents`: a row, and what an `Update` has read, contains only acknowledged updates of
  this document. Without it a document could get an update that was made to another, or
  one that is still to be made. `Unborn` gives that an update never meets a document that was not inserted.
  Moves of calls, jobs, restarts and crashes map to stutters, because a crash leaves the calls
  that have returned where they are.
- `EngineTypeCorrect`: the types.

**`CacheManagerProofs`**

- `CacheBounded`: the domain of the map is finite and within the
  limit; eviction makes room for one, `Set` adds at most one, the rest shrinks.
- `UndisturbedWriteStays` and `CacheTypeCorrect`: from
  `FInv == CacheTypeOK /\ Calm /\ Filling /\ HalfDone /\ Wired /\ FreshOrNothing`.
  `FreshOrNothing` alone says nothing of the calls on their way, so the invariant adds:
  a key that is being written is not trusted, and a write that is still clean shares its
  key with no other call (`Calm`); what a `Get` has read from Redis and not yet put into
  the local map is the latest value if the key is still trusted (`Filling`); the half of
  a clean write that is done has not been undone (`HalfDone`); Redis is empty unless the
  cache is distributed (`Wired`). The one hard case is a `Get` that read Redis before
  a write and fills the map after it: it overlaps the write, so the write is not clean.

**`ServingProofs`**

- `ServingManages`, `ServingPools`: every step of the composition is a step of `WSManager` or
  leaves it alone, and likewise for `GojaPool`. So the safety theorems of `WSManagerProofs` hold of it
  as they stand, and those of `GojaPoolProofs` with requests for calls.
- `ServingPoolSafe`: three of the latter, instantiated: while requests are served a VM is in one
  hand, none is pooled beyond its limit, one expired timer ends at most one script.
- `RepliesCorrect`: `RepliesAreResults` speaks of what was written; `Waited` adds that a request which
  has locked its connection or is done has returned from `Execute` with an outcome. `IInv` and
  `MailInv` of the manager tie what was written to requests of this connection that are over.

**`PluginsProofs`**, for `Metrics` and `Plugins`

- `MetricsTypeCorrect`: the types; the window of query times never outgrows its limit.

- `StatsSafe`: `MInv` adds to the types that readers and a writer of the lock
  are where they hold it and exclude each other, and that a reader about to divide has
  seen a request. No step but those of `Reset` lowers the counter, and they hold the lock for
  writing.
- `BucketShared`: `OneBucketPerAddress` is not inductive: a request that
  draws on a limiter that is not the one in the map would break it. `Drawn` says that a request about to
  take a token has the limiter of its address and that no two addresses share one.
- `PluginsUseMetrics`, `ServingStatsSafe`: every step of `PluginsNext` is a
  step of `MetricsNext` or leaves the metrics alone, so what is proved of `Metrics` by
  itself holds while requests are served.
- `PluginsTypeCorrect`: `Placed` says where in the chain a request may be at each of its
  places; so no request runs past either end of any chain.
- `CountersCorrect`: `LoggingSeesAll => (PluginsSpec => []StatsExact)`. The application chooses
  the chain, and the counters tell what the clients were told only if `LoggingMiddleware` is
  in it once and no middleware before it answers by itself (`LoggingSeesAll`); behind
  `RateLimit`, say, it never sees a 429. The chain of the run satisfies the hypothesis. `Journey` follows a request: it is
  counted where Logging is, on its way out, with the status it leaves with. `Counts` says
  what the counters hold while calls are underway: `HttpRequests` all that were counted,
  `HttpErrors` and `HttpDuration` those that have come to the addition, except
  between the stores of a `Reset` (`InStep`). `ThenKeepsOrder` is what ties the
  places in `Chain` to those in the composed handler.

**`ImportsProofs`**, with `Good(pg)` of every page

- `InjectedAcceptable`, `DepthHarmless`, `ResolvedOnce`, `ImportsTypeCorrect`: `Good` is `Supplied` (the
  path, file and content that the next step needs are there), `Shallow` (the depth is 1 while
  an import is underway and 0 otherwise), `Named` (what a block has named is remote, visited or beyond
  the limit) and the properties of one page. `ResolvedOnce` rests on the path being marked before
  the file is looked for; `InjectedAcceptable` on the content being validated after the last read
  of the cache or the file, so that nothing need be said of the disk and the cache.
- `CacheStable`: the action property `CacheSettles`. Only pages in `Missing`, between a miss and a
  store, can write a path, and a page gets there only by missing it.

**`HTTPServerProofs`**, with `IInv == TypeOK /\ SettingsInv /\ UploadInv /\ PlaceInv`

- `SettingsSurvive`: `RestartKeepsSettings` compares two processes; what ties them is the
  file. `ReadInv` says that, while every read of a file that is there has succeeded, the configuration of the
  process, and that of the last one,
  are what `app.json` tells (`Tells`): the defaults if there is none, the completed contents
  if it can be read, and no later process at all if it is torn. `UnreadInv` says what remains when a
  read has failed: a process gets the defaults or what the file tells (`Gets`), and if the last one ran with
  something that the file has lost, every later one gets the defaults.
- `StoredCorrect`: `Uploading` says that an upload that nobody has disturbed has written its
  file from the beginning to where it is, and `PlaceInv` that every chunk of a file is at its place in an upload
  of that name, which a write at an offset keeps (`WriteInPlace`).
- `ServerTypeCorrect`: the types; `AppCfg` is complete as soon as it is loaded.

The library's induction theorems take an operator as a parameter, which the provers cannot
instantiate. The two inductions that the proofs need (`ThenKeepsOrder`, and that `FirstOnDisk`
returns a candidate) take the least counterexample instead, from the well-foundedness of
the natural numbers (lemma `Least`).

Only proved, and in no run: the type invariants of `Metrics`, `Plugins`, `Imports` and
`CacheManager`; `NeverTooDeep`; `WelcomeFirst` and `AtMostOnce`, which `Delivers` contains.

Only model-checked:

- the liveness properties `EveryCallReturns`, `IdleEvicted`, `TornDown`, `RequestsSettle`,
  `QueuedIsWritten`, `EveryRequestAnswered` and `StartConcludes`, and of `Manages` the
  fairness (its safety is `ServingManages`), because the prover does not reason about fairness;
- `JSONPaging`, `BTreeIndex` and `Cluster`, whose runs end with a counterexample.

## Not modelled

Native API of the scripts (stateless I/O; a native call that blocks is not interrupted, so
it holds its call of `Execute` beyond the timeout), contents of a runtime (globals that
leak from one script to the next), schema validation beyond its failure,
`JSONShardManager` (unused duplicate), the counters that are only displayed and the
Prometheus collectors, headers and the text of answers, utilities. A handler of an application that
panics is not modelled: `net/http` ends its connection, and the request is counted nowhere.
`int(h.Sum32())` is taken as on 64-bit platforms. The local cache may lose a fresh entry when `Get` deletes an expired
one; the model has the step and no property forbids it. `result.String()` (`vm_pool.go:139`) runs
after `RunString`, with the timer still armed; for an object it may run the script's own `toString`, which
may loop until the timer interrupts it, or throw; then it panics,
and neither `Execute` nor `handleMessage`, a goroutine of its own (`ws.go:178`), recovers. The model ends the script at `RunString` and has no such
panic, so the liveness properties are about scripts whose result is no object with a `toString` of its own. Reads of `lastActivity` and `lastUsed` without their lock are
data races whose values no modelled decision depends on, except `lastUsed` in `cleanup`,
which is read while the VM is in no other hand (`ExclusiveVM`).

Some properties exclude a case by a history variable or a condition, because the code promises nothing in it:
`CountExact` what sets `drifted`, `FreshOrNothing` writes that are not `trusted`, `StatsExact` a `torn`
`Reset`, the first part of `StoredIsReported` uploads that are not `alone`, `CacheSettles` a cache that pages are
still filling. The hazards in `PROJECT.json` say where this leaves a hazard without a property.

The models show some behaviour that contradicts the documentation by one line, or that no document
of the repository excludes, and that has no run of its own:

- `/stream`, which the README promises as a Server-Sent Events stream (`src/README.md:121`), always answers
  500: the writer of `loggingMiddleware` hides `http.Flusher` (`server.go:86`, `server.go:270`). `Handle`
  has this; one action decides it, so it needs no search. `/ws` is announced and not registered.
- A route with parameters matches only the path that is its pattern: `:name` survives
  `QuoteMeta` and is not replaced (`plugins.go:297`). A request without a route does not
  come near the chain; an OPTIONS request has one only if the application registers it
  with `Handle`.
- `api/routes.go` names a router of `internal/middleware`, which has none; `Plugins` takes the
  one of `internal/plugins`.
- An import that fails is marked as visited; the next one of the block is answered as if it
  had succeeded. The limit on imports counts blocks per page and lines per block. The
  limit on the depth never refuses anything, since imports are not nested (`NeverTooDeep`).
- A crash in the first start may leave a torn `app.json`, on which every later start that reads it fails. A start
  that fails to read an `app.json` overwrites it with the defaults.
- `Shutdown` only sleeps: the server accepts requests until the process ends and cuts
  off those underway.
- A `Reset` beside `AddHTTPRequest` leaves counters that do not belong together (`torn`).

## Plan

Done:

1. `GojaPool`, `WSManager`, `JSONEngine`, `CacheManager`, `Metrics`, `Plugins`, `Imports`,
   `HTTPServer`, each with its run and with a theorem for every safety property of it;
   `JSONPaging`, `BTreeIndex`, `Cluster` with their findings.
2. Three abstract specifications and the proofs that they are implemented: `VMAllocator` by
   the pool, `Mailbox` by the WebSocket manager, `DocumentStore` by the JSON engine.
3. Two compositions: `Plugins` over `Metrics`, and `Serving`, the manager over the pool, with the theorems of
   the parts carried over.

Open: liveness by proof, once the prover has it; the handlers of `HTTPServer` over `Imports` and
the cache, which today share no state in the code that a property could speak of.
