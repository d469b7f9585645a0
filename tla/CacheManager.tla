---------------------------- MODULE CacheManager ----------------------------
(***************************************************************************)
(* The cache of internal/cache/cache.go: CacheManager over a local Cache   *)
(* and, when it is distributed, a Redis server.                            *)
(*                                                                         *)
(* Every member of Calls is one call of Get, Set, Del or Clear, made by a  *)
(* goroutine of its own.  A call touches Redis and the local map in        *)
(* separate steps, and each critical section of Cache.mu is one step.  The *)
(* cleaner is the goroutine of Cache.cleanup.                              *)
(*                                                                         *)
(* A value is identified by the call of Set that brought it, and by its    *)
(* form: a Go value, the JSON bytes Redis keeps, or what json.Unmarshal    *)
(* makes of them.  What Get returns is not recorded.  Nobody else writes   *)
(* to the Redis server, and Close is called once.                          *)
(***************************************************************************)
EXTENDS Integers, FiniteSets

CONSTANTS Calls, Keys,
          MaxSize,     \* Cache.maxSize
          DefaultTTL,  \* Cache.defaultTTL and Config.TTL
          TTLs,        \* the ttl arguments of Set, the default included
          MaxNow,      \* the last moment of the clock
          Nil

ASSUME CacheAssumption ==
    /\ MaxSize \in Int /\ MaxNow \in Nat
    /\ TTLs \subseteq Nat /\ DefaultTTL \in TTLs
    /\ Nil \notin Calls

VARIABLES
    distributed, \* Config.Distributed, and Redis is configured
    items,       \* Cache.items, a function on the keys that are present
    redis,       \* what Redis has stored under each key, or Nil
    time,        \* time.Now()
    call,        \* call[c]: the call c and what it has found out so far
    closed,      \* Close has been called
    cleaner,     \* whether cleanup() runs
    latest,      \* history: the call whose value was set last, or Nil
    trusted      \* history: whether nothing disturbed the last write

world == <<distributed, time, closed, cleaner>>
cacheVars == <<items, redis, call, world, latest, trusted>>

-----------------------------------------------------------------------------
Value(forms) == [by : Calls, form : forms]
Item == [value : Value({"go", "json"}), exp : Nat]

CallState == [pc : {"idle", "redis", "local", "fill", "check", "expire", "done"},
              kind : {"get", "set", "del", "clear", Nil},
              key : Keys \cup {Nil}, ttl : TTLs,
              found : {Nil} \cup Value({"bytes"}) \cup Item, clean : BOOLEAN]

Idle == [pc |-> "idle", kind |-> Nil, key |-> Nil, ttl |-> DefaultTTL,
         found |-> Nil, clean |-> FALSE]

InitCache ==
    /\ distributed \in BOOLEAN
    /\ items = [k \in {} |-> Nil]
    /\ redis = [k \in Keys |-> Nil]
    /\ time = 0
    /\ call = [c \in Calls |-> Idle]
    /\ closed = FALSE /\ cleaner = TRUE
    /\ latest = [k \in Keys |-> Nil]
    /\ trusted = [k \in Keys |-> TRUE]

(* delete(m, k) and m[k] = it                                              *)
Without(m, k) == [x \in DOMAIN m \ {k} |-> m[x]]
With(m, k, it) == [x \in DOMAIN m \cup {k} |-> IF x = k THEN it ELSE m[x]]

(* Mutant: > instead of >=.                                                *)
EvictedLate ==
    IF Cardinality(DOMAIN items) > MaxSize
    THEN {Without(items, k) : k \in DOMAIN items} ELSE {items}

(* A full map loses an arbitrary entry, even if the key to set is in it.   *)
Evicted ==
    IF Cardinality(DOMAIN items) >= MaxSize /\ DOMAIN items # {}
    THEN {Without(items, k) : k \in DOMAIN items} ELSE {items}

(* Cache.Set                                                               *)
LocalSet(k, value, ttl) ==
    \E m \in Evicted : items' = With(m, k, [value |-> value, exp |-> time + ttl])

(* Cache.Del                                                               *)
LocalDel(k) == items' = Without(items, k)

-----------------------------------------------------------------------------
Busy(c) == call[c].pc \notin {"idle", "done"}
Touches(c, k) == call[c].key = k \/ call[c].kind = "clear"

CallAt(c, kind, p) == call[c].kind = kind /\ call[c].pc = p
Move(c, p, found) == call' = [call EXCEPT ![c] = [@ EXCEPT !.pc = p, !.found = found]]
Spoil(c, p, ok) ==
    call' = [call EXCEPT ![c] = [@ EXCEPT !.pc = p, !.clean = call[c].clean /\ ok]]

(* A call begins.  All but Clear go to Redis first.  From here to its end  *)
(* a write is not trusted, and never will be when another call on the same *)
(* key runs at the same time.                                              *)
Begin(c, kind, k, ttl) ==
    LET others == {d \in Calls \ {c} : Busy(d) /\ (Touches(d, k) \/ kind = "clear")}
        me == [pc |-> IF distributed /\ kind # "clear" THEN "redis" ELSE "local",
               kind |-> kind, key |-> k, ttl |-> ttl, found |-> Nil,
               clean |-> others = {}]
    IN  /\ call[c].pc = "idle"
        /\ call' = [d \in Calls |-> IF d = c THEN me
                                  ELSE IF d \in others THEN [call[d] EXCEPT !.clean = FALSE]
                                  ELSE call[d]]
        /\ trusted' = [x \in Keys |-> trusted[x] /\ (kind = "get" \/ (kind # "clear" /\ x # k))]
        /\ UNCHANGED <<items, redis, world, latest>>

(* A write has returned: it left v under its key, or nothing.              *)
Wrote(c, v) ==
    /\ Move(c, "done", Nil)
    /\ latest' = [k \in Keys |-> IF Touches(c, k) THEN v ELSE latest[k]]
    /\ trusted' = [k \in Keys |-> IF Touches(c, k) THEN call[c].clean ELSE trusted[k]]

-----------------------------------------------------------------------------
(* Redis (external): an entry is gone once its expiration is over, zero    *)
(* meaning none; a command may fail, and all fail after Close.             *)
Live(r) == r # Nil /\ (r.ttl = 0 \/ time < r.at + r.ttl)

(* CacheManager.Get: Redis, whose answer is put into the local map, and    *)
(* the local map if Redis has no answer.                                   *)
GetRedis(c) ==
    /\ CallAt(c, "get", "redis")
    /\ \/ /\ Live(redis[call[c].key]) /\ ~closed
          /\ Move(c, "fill", redis[call[c].key].value)
       \/ Move(c, "local", Nil)
    /\ UNCHANGED <<items, redis, world, latest, trusted>>

GetFill(c) ==
    /\ CallAt(c, "get", "fill")
    /\ LocalSet(call[c].key, [call[c].found EXCEPT !.form = "json"], DefaultTTL)
    /\ Move(c, "done", Nil)
    /\ UNCHANGED <<redis, world, latest, trusted>>

(* Cache.Get copies the item, looks at the clock, and takes the lock again *)
(* to delete what is under the key by then.                                *)
GetLocal(c) ==
    /\ CallAt(c, "get", "local")
    /\ IF call[c].key \in DOMAIN items THEN Move(c, "check", items[call[c].key])
                                     ELSE Move(c, "done", Nil)
    /\ UNCHANGED <<items, redis, world, latest, trusted>>

GetCheck(c) ==
    /\ CallAt(c, "get", "check")
    /\ Move(c, IF time > call[c].found.exp THEN "expire" ELSE "done", Nil)
    /\ UNCHANGED <<items, redis, world, latest, trusted>>

GetExpire(c) ==
    /\ CallAt(c, "get", "expire")
    /\ LocalDel(call[c].key)
    /\ Move(c, "done", Nil)
    /\ UNCHANGED <<redis, world, latest, trusted>>

(* CacheManager.Set and Del: nobody looks at the error of Redis.           *)
SetRedis(c) ==
    /\ CallAt(c, "set", "redis")
    /\ \/ /\ ~closed
          /\ redis' = [redis EXCEPT ![call[c].key] =
                          [value |-> [by |-> c, form |-> "bytes"], at |-> time,
                           ttl |-> call[c].ttl]]
          /\ Spoil(c, "local", TRUE)
       \/ Spoil(c, "local", FALSE) /\ UNCHANGED redis
    /\ UNCHANGED <<items, world, latest, trusted>>

SetLocal(c) ==
    /\ CallAt(c, "set", "local")
    /\ LocalSet(call[c].key, [by |-> c, form |-> "go"], call[c].ttl)
    /\ Wrote(c, c)
    /\ UNCHANGED <<redis, world>>

(* Mutant: Del forgets Redis.                                              *)
DelRedisForgotten(c) ==
    /\ CallAt(c, "del", "redis")
    /\ Spoil(c, "local", TRUE)
    /\ UNCHANGED <<items, redis, world, latest, trusted>>

DelRedis(c) ==
    /\ CallAt(c, "del", "redis")
    /\ \/ /\ ~closed
          /\ redis' = [redis EXCEPT ![call[c].key] = Nil]
          /\ Spoil(c, "local", TRUE)
       \/ Spoil(c, "local", FALSE) /\ UNCHANGED redis
    /\ UNCHANGED <<items, world, latest, trusted>>

DelLocal(c) ==
    /\ CallAt(c, "del", "local")
    /\ LocalDel(call[c].key)
    /\ Wrote(c, Nil)
    /\ UNCHANGED <<redis, world>>

(* CacheManager.Clear: the local map, then FlushAll.                       *)
ClearLocal(c) ==
    /\ CallAt(c, "clear", "local")
    /\ items' = [k \in {} |-> Nil]
    /\ \/ distributed /\ Spoil(c, "redis", TRUE) /\ UNCHANGED <<latest, trusted>>
       \/ ~distributed /\ Wrote(c, Nil)
    /\ UNCHANGED <<redis, world>>

ClearRedis(c) ==
    /\ CallAt(c, "clear", "redis")
    /\ \/ /\ ~closed
          /\ redis' = [k \in Keys |-> Nil]
          /\ Wrote(c, Nil)
       \/ Move(c, "done", Nil) /\ UNCHANGED <<redis, latest, trusted>>
    /\ UNCHANGED <<items, world>>

-----------------------------------------------------------------------------
Expired(k) == k \in DOMAIN items /\ time > items[k].exp

(* A tick of cleanup(); once cleanupStop is closed the select may still    *)
(* choose the ticker.                                                      *)
Cleanup ==
    /\ cleaner
    /\ items' = [k \in {k \in DOMAIN items : ~Expired(k)} |-> items[k]]
    /\ UNCHANGED <<redis, call, world, latest, trusted>>

CleanupStops ==
    /\ cleaner /\ closed
    /\ cleaner' = FALSE
    /\ UNCHANGED <<items, redis, call, distributed, time, closed, latest, trusted>>

Close ==
    /\ ~closed
    /\ closed' = TRUE
    /\ UNCHANGED <<items, redis, call, distributed, time, cleaner, latest, trusted>>

TimePasses ==
    /\ time < MaxNow
    /\ time' = time + 1
    /\ UNCHANGED <<items, redis, call, distributed, closed, cleaner, latest, trusted>>

-----------------------------------------------------------------------------
Get(c) == GetRedis(c) \/ GetFill(c) \/ GetLocal(c) \/ GetCheck(c) \/ GetExpire(c)
Set(c) == SetRedis(c) \/ SetLocal(c)
Del(c) == DelRedis(c) \/ DelLocal(c)
Clear(c) == ClearLocal(c) \/ ClearRedis(c)

CacheNext ==
    \/ \E c \in Calls, k \in Keys :
          \/ \E kind \in {"get", "del"} : Begin(c, kind, k, DefaultTTL)
          \/ \E ttl \in TTLs : Begin(c, "set", k, ttl)
    \/ \E c \in Calls : Begin(c, "clear", Nil, DefaultTTL)
    \/ \E c \in Calls : Get(c) \/ Set(c) \/ Del(c) \/ Clear(c)
    \/ Cleanup \/ CleanupStops \/ Close \/ TimePasses

CacheSpec == InitCache /\ [][CacheNext]_cacheVars

-----------------------------------------------------------------------------
(* Every variable has its type; Redis keeps bytes and the local map does   *)
(* not.                                                                    *)
CacheTypeOK ==
    /\ distributed \in BOOLEAN /\ closed \in BOOLEAN /\ cleaner \in BOOLEAN
    /\ time \in 0..MaxNow
    /\ DOMAIN items \subseteq Keys /\ items \in [DOMAIN items -> Item]
    /\ redis \in [Keys -> {Nil} \cup [value : Value({"bytes"}), at : Nat, ttl : TTLs]]
    /\ call \in [Calls -> CallState]
    /\ latest \in [Keys -> Calls \cup {Nil}] /\ trusted \in [Keys -> BOOLEAN]

(* The local map never grows beyond maxSize, or one entry if maxSize is    *)
(* not positive, although Get fills it and Set evicts before it knows      *)
(* whether the key is new.                                                 *)
Limit == IF MaxSize > 1 THEN MaxSize ELSE 1
SizeBound == Cardinality(DOMAIN items) <= Limit

(* After a write of a key that no other call overlapped and Redis did not  *)
(* refuse, the local map and Redis hold that value or nothing: a deleted   *)
(* or an overwritten value does not come back, however the calls of Get    *)
(* that follow copy it from Redis into the local map.                      *)
FreshOrNothing ==
    \A k \in Keys : trusted[k] =>
        /\ k \in DOMAIN items => items[k].value.by = latest[k]
        /\ redis[k] # Nil => redis[k].value.by = latest[k]

=============================================================================
