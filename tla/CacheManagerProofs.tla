------------------------ MODULE CacheManagerProofs ------------------------
(***************************************************************************)
(* That the local map of the cache respects its limit, and that an older   *)
(* value does not come back after an undisturbed write, for every number   *)
(* of calls and keys, every limit and every ttl.                           *)
(***************************************************************************)
EXTENDS CacheManager, FiniteSetTheorems, TLAPS

(* What is inductive: the domain of the map is finite and within Limit.    *)
Small(S) == IsFiniteSet(S) /\ Cardinality(S) <= Limit

(* Limit is a number, and not less than maxSize.                           *)
LEMMA LimitType == Limit \in Nat \ {0} /\ MaxSize <= Limit
  BY CacheAssumption DEF Limit

(* Fewer entries are within the limit too: Del, Clear, an expired item and *)
(* a sweep of cleanup() only take entries away.                            *)
LEMMA SubsetSmall ==
    ASSUME NEW S, NEW T \in SUBSET S, Small(S)
    PROVE  Small(T)
  <1>1. IsFiniteSet(T) /\ Cardinality(T) <= Cardinality(S)
    BY FS_Subset DEF Small
  <1>2. Cardinality(S) \in Nat /\ Cardinality(T) \in Nat
    BY <1>1, FS_CardinalityType DEF Small
  <1> QED
    BY <1>1, <1>2, LimitType DEF Small

(* One entry may be added to a map with fewer entries than the limit.      *)
LEMMA AddSmall ==
    ASSUME NEW S, NEW k, IsFiniteSet(S), Cardinality(S) < Limit
    PROVE  Small(S \cup {k})
  <1>1. /\ IsFiniteSet(S \cup {k})
        /\ Cardinality(S \cup {k}) = IF k \in S THEN Cardinality(S) ELSE Cardinality(S) + 1
    BY FS_AddElement
  <1>2. Cardinality(S) \in Nat
    BY FS_CardinalityType
  <1> QED
    BY <1>1, <1>2, LimitType DEF Small

(* The map that Set goes on with after the eviction has room for an entry. *)
LEMMA EvictedHasRoom ==
    ASSUME Small(DOMAIN items), NEW m \in Evicted
    PROVE  IsFiniteSet(DOMAIN m) /\ Cardinality(DOMAIN m) < Limit
  <1> DEFINE n == Cardinality(DOMAIN items)
  <1>1. n \in Nat
    BY FS_CardinalityType DEF Small
  <1>2. CASE n >= MaxSize /\ DOMAIN items # {}
    <2>1. PICK k \in DOMAIN items : m = Without(items, k)
      BY <1>2 DEF Evicted
    <2>2. DOMAIN m = DOMAIN items \ {k}
      BY <2>1 DEF Without
    <2>3. IsFiniteSet(DOMAIN m) /\ Cardinality(DOMAIN m) = n - 1
      BY <2>2, FS_RemoveElement DEF Small
    <2> QED
      BY <2>3, <1>1, LimitType DEF Small
  <1>3. CASE DOMAIN items = {}
    <2>1. IsFiniteSet({}) /\ Cardinality({}) = 0
      BY FS_EmptySet
    <2>2. DOMAIN m = {}
      BY <1>3 DEF Evicted
    <2> QED
      BY <2>1, <2>2, LimitType
  <1>4. CASE ~(n >= MaxSize)
    <2>1. m = items
      BY <1>4 DEF Evicted
    <2> QED
      BY <1>1, <1>4, <2>1, LimitType, CacheAssumption DEF Small
  <1> QED
    BY <1>2, <1>3, <1>4

(* Cache.Set keeps the map within its limit.                               *)
LEMMA LocalSetSmall ==
    ASSUME Small(DOMAIN items), NEW k, NEW v, NEW ttl, LocalSet(k, v, ttl)
    PROVE  Small(DOMAIN items)'
  <1>1. PICK m \in Evicted : items' = With(m, k, [value |-> v, exp |-> time + ttl])
    BY DEF LocalSet
  <1>2. DOMAIN items' = DOMAIN m \cup {k}
    BY <1>1 DEF With
  <1>3. IsFiniteSet(DOMAIN m) /\ Cardinality(DOMAIN m) < Limit
    BY <1>1, EvictedHasRoom
  <1>4. Small(DOMAIN m \cup {k})
    BY <1>3, AddSmall
  <1> QED
    BY <1>2, <1>4 DEF Small, Limit

(* Every other step of the cache leaves the map alone or shrinks it.       *)
LEMMA StepSmall ==
    ASSUME Small(DOMAIN items), [CacheNext]_cacheVars
    PROVE  Small(DOMAIN items)'
  <1>1. ASSUME DOMAIN items' \subseteq DOMAIN items
        PROVE  Small(DOMAIN items)'
    <2>1. Small(DOMAIN (items'))
      BY <1>1, SubsetSmall
    <2> QED
      BY <2>1 DEF Small, Limit
  <1>2. CASE UNCHANGED cacheVars
    BY <1>1, <1>2 DEF cacheVars
  <1>3. ASSUME NEW c \in Calls, NEW kind, NEW k, NEW ttl, Begin(c, kind, k, ttl)
        PROVE  Small(DOMAIN items)'
    BY <1>1, <1>3 DEF Begin
  <1>4. ASSUME NEW c \in Calls, Get(c)
        PROVE  Small(DOMAIN items)'
    <2>1. CASE GetRedis(c) \/ GetLocal(c) \/ GetCheck(c)
      BY <1>1, <2>1 DEF GetRedis, GetLocal, GetCheck
    <2>2. CASE GetFill(c)
      BY <2>2, LocalSetSmall DEF GetFill
    <2>3. CASE GetExpire(c)
      BY <1>1, <2>3 DEF GetExpire, LocalDel, Without
    <2> QED
      BY <1>4, <2>1, <2>2, <2>3 DEF Get
  <1>5. ASSUME NEW c \in Calls, Set(c)
        PROVE  Small(DOMAIN items)'
    <2>1. CASE SetRedis(c)
      BY <1>1, <2>1 DEF SetRedis
    <2>2. CASE SetLocal(c)
      BY <2>2, LocalSetSmall DEF SetLocal
    <2> QED
      BY <1>5, <2>1, <2>2 DEF Set
  <1>6. ASSUME NEW c \in Calls, Del(c)
        PROVE  Small(DOMAIN items)'
    BY <1>1, <1>6 DEF Del, DelRedis, DelLocal, LocalDel, Without
  <1>7. ASSUME NEW c \in Calls, Clear(c)
        PROVE  Small(DOMAIN items)'
    BY <1>1, <1>7 DEF Clear, ClearLocal, ClearRedis
  <1>8. CASE Cleanup
    BY <1>1, <1>8 DEF Cleanup
  <1>9. CASE CleanupStops \/ Close \/ TimePasses
    BY <1>1, <1>9 DEF CleanupStops, Close, TimePasses
  <1> QED
    BY <1>2, <1>3, <1>4, <1>5, <1>6, <1>7, <1>8, <1>9 DEF CacheNext

(* The local map never holds more than maxSize entries (one, if maxSize is *)
(* not positive), whatever calls of Get, Set, Del and Clear overlap.       *)
THEOREM CacheBounded == CacheSpec => []SizeBound
  <1>1. InitCache => Small(DOMAIN items)
    BY FS_EmptySet, LimitType DEF InitCache, Small
  <1>2. Small(DOMAIN items) /\ [CacheNext]_cacheVars => Small(DOMAIN items)'
    BY StepSmall
  <1>3. Small(DOMAIN items) => SizeBound
    BY DEF Small, SizeBound
  <1> QED
    BY <1>1, <1>2, <1>3, PTL DEF CacheSpec

-----------------------------------------------------------------------------
(* FreshOrNothing is not inductive: it says nothing of the calls on their  *)
(* way.  The conjuncts that follow do.                                     *)

Writes(c) == call[c].kind # "get"

(* While a write of a key is on its way the key is not trusted.            *)
Quiet ==
    \A c \in Calls, k \in Keys : Busy(c) /\ Writes(c) /\ Touches(c, k) => ~trusted[k]

(* A write that is clean shares its key with no other call.                *)
Alone ==
    \A c, d \in Calls, k \in Keys :
        c # d /\ Busy(c) /\ Busy(d) /\ Writes(c) /\ Touches(c, k) /\ Touches(d, k)
            => ~call[c].clean

(* What a Get has read from Redis is the latest value, if its key is still *)
(* trusted.                                                                *)
Filling ==
    \A c \in Calls : CallAt(c, "get", "fill") =>
        /\ call[c].found \in Value({"bytes"})
        /\ trusted[call[c].key] => call[c].found.by = latest[call[c].key]

(* What a clean write has done so far has not been undone.                 *)
HalfDone ==
    \A c \in Calls : call[c].clean =>
        /\ CallAt(c, "set", "local") /\ redis[call[c].key] # Nil => redis[call[c].key].value.by = c
        /\ CallAt(c, "del", "local") => redis[call[c].key] = Nil
        /\ CallAt(c, "clear", "redis") => DOMAIN items = {}

(* Redis is used only when the cache is distributed.                       *)
Wired ==
    /\ \A c \in Calls : call[c].pc = "redis" => distributed
    /\ ~distributed => \A k \in Keys : redis[k] = Nil

KeyKnown == \A c \in Calls : Busy(c) /\ call[c].kind # "clear" => call[c].key \in Keys

Calm == Quiet /\ Alone /\ KeyKnown
FInv == CacheTypeOK /\ Calm /\ Filling /\ HalfDone /\ Wired /\ FreshOrNothing

(* Move and Spoil change the place of one call.                            *)
LEMMA MoveEffect ==
    ASSUME call \in [Calls -> CallState], NEW c \in Calls,
           NEW p \in {"idle", "redis", "local", "fill", "check", "expire", "done"},
           NEW f \in {Nil} \cup Value({"bytes"}) \cup Item, Move(c, p, f)
    PROVE  /\ call' \in [Calls -> CallState]
           /\ call'[c].pc = p /\ call'[c].found = f
           /\ call'[c].kind = call[c].kind /\ call'[c].key = call[c].key
           /\ call'[c].clean = call[c].clean
           /\ \A d \in Calls \ {c} : call'[d] = call[d]
  BY DEF Move, CallState

LEMMA SpoilEffect ==
    ASSUME call \in [Calls -> CallState], NEW c \in Calls,
           NEW p \in {"idle", "redis", "local", "fill", "check", "expire", "done"},
           NEW ok \in BOOLEAN, Spoil(c, p, ok)
    PROVE  /\ call' \in [Calls -> CallState]
           /\ call'[c].pc = p
           /\ call'[c].kind = call[c].kind /\ call'[c].key = call[c].key
           /\ call'[c].clean => call[c].clean /\ ok
           /\ \A d \in Calls \ {c} : call'[d] = call[d]
  <1> DEFINE b == call[c].clean /\ ok
  <1>1. call[c] \in CallState /\ b \in BOOLEAN
    BY DEF CallState
  <1>2. call' = [call EXCEPT ![c] = [call[c] EXCEPT !.pc = p, !.clean = b]]
    BY DEF Spoil
  <1>3. b => call[c].clean /\ ok
    OBVIOUS
  <1> HIDE DEF b
  <1> QED
    BY <1>1, <1>2, <1>3 DEF CallState

(* A step of a call in the middle disturbs nobody's calm.                  *)
LEMMA OrdinaryStep ==
    ASSUME Calm, NEW c \in Calls, Busy(c),
           call'[c].kind = call[c].kind, call'[c].key = call[c].key, call'[c].clean => call[c].clean,
           \A d \in Calls \ {c} : call'[d] = call[d],
           \A k \in Keys : trusted'[k] => trusted[k]
    PROVE  Calm'
  <1>1. \A d \in Calls : /\ Busy(d)' => Busy(d)
                         /\ Writes(d)' <=> Writes(d)
                         /\ call'[d].clean => call[d].clean
                         /\ call'[d].key = call[d].key /\ call'[d].kind = call[d].kind
                         /\ \A k : Touches(d, k)' <=> Touches(d, k)
    BY DEF Busy, Writes, Touches
  <1> QED
    BY <1>1 DEF Calm, Quiet, Alone, KeyKnown

(* Set leaves the other entries of the map alone, or drops one.            *)
LEMMA LocalSetEffect ==
    ASSUME NEW k, NEW v, NEW ttl, LocalSet(k, v, ttl)
    PROVE  /\ k \in DOMAIN items' /\ DOMAIN items' \subseteq DOMAIN items \cup {k}
           /\ items'[k] = [value |-> v, exp |-> time + ttl] /\ items'[k].value = v
           /\ \A x \in DOMAIN items' \ {k} : x \in DOMAIN items /\ items'[x] = items[x]
           /\ items' = [x \in DOMAIN items' |-> items'[x]]
  <1>1. PICK m \in Evicted : items' = With(m, k, [value |-> v, exp |-> time + ttl])
    BY DEF LocalSet
  <1>2. DOMAIN m \subseteq DOMAIN items /\ \A x \in DOMAIN m : m[x] = items[x]
    <2>1. CASE m = items
      BY <2>1
    <2>2. ASSUME NEW e \in DOMAIN items, m = Without(items, e)
          PROVE  DOMAIN m \subseteq DOMAIN items /\ \A x \in DOMAIN m : m[x] = items[x]
      BY <2>2 DEF Without
    <2> QED
      BY <1>1, <2>1, <2>2 DEF Evicted
  <1> QED
    BY <1>1, <1>2 DEF With

(* A new entry with a value of the right form keeps the type of the map.   *)
LEMMA LocalSetType ==
    ASSUME CacheTypeOK, NEW k \in Keys, NEW v \in Value({"go", "json"}), NEW ttl \in TTLs,
           LocalSet(k, v, ttl)
    PROVE  DOMAIN items' \subseteq Keys /\ items' \in [DOMAIN items' -> Item]
  <1>1. time + ttl \in Nat
    BY CacheAssumption DEF CacheTypeOK
  <1>2. [value |-> v, exp |-> time + ttl] \in Item
    BY <1>1 DEF Item
  <1>3. \A x \in DOMAIN items : items[x] \in Item
    BY DEF CacheTypeOK
  <1>4. \A x \in DOMAIN items' : items'[x] \in Item
    BY <1>2, <1>3, LocalSetEffect
  <1> QED
    BY <1>4, LocalSetEffect DEF CacheTypeOK

(* A step of a Get between its beginning and its end.                      *)
LEMMA GetMoves ==
    ASSUME FInv, NEW c \in Calls, call[c].kind = "get", Busy(c),
           NEW p \in {"fill", "local", "check", "expire", "done"},
           NEW f \in {Nil} \cup Value({"bytes"}) \cup Item,
           p = "fill" => /\ f \in Value({"bytes"})
                         /\ trusted[call[c].key] => f.by = latest[call[c].key],
           Move(c, p, f), UNCHANGED <<redis, world, latest, trusted>>,
           DOMAIN items' \subseteq DOMAIN items \cup {call[c].key}
    PROVE  call' \in [Calls -> CallState] /\ Calm' /\ Filling' /\ HalfDone' /\ Wired'
  <1>1. /\ call \in [Calls -> CallState] /\ call' \in [Calls -> CallState]
        /\ call'[c].pc = p /\ call'[c].found = f
        /\ call'[c].kind = "get" /\ call'[c].key = call[c].key
        /\ call'[c].clean = call[c].clean
        /\ \A d \in Calls \ {c} : call'[d] = call[d]
    BY MoveEffect DEF FInv, CacheTypeOK
  <1>2. Calm'
    BY <1>1, OrdinaryStep DEF FInv
  <1>3. Filling'
    BY <1>1 DEF FInv, Filling, CallAt
  <1>4. HalfDone'
    <2> SUFFICES ASSUME NEW d \in Calls, call'[d].clean
                 PROVE  /\ CallAt(d, "set", "local")' /\ redis'[call'[d].key] # Nil
                              => redis'[call'[d].key].value.by = d
                        /\ CallAt(d, "del", "local")' => redis'[call'[d].key] = Nil
                        /\ CallAt(d, "clear", "redis")' => DOMAIN items' = {}
      BY DEF HalfDone
    <2>1. CASE d = c
      BY <1>1, <2>1 DEF CallAt
    <2>2. CASE d # c
      <3>1. call'[d] = call[d] /\ call[d].clean
        BY <1>1, <2>2
      <3>2. ~CallAt(d, "clear", "redis")
        BY <2>2, <3>1 DEF FInv, Calm, Alone, KeyKnown, Busy, Writes, Touches, CallAt
      <3> QED
        BY <3>1, <3>2 DEF FInv, HalfDone, CallAt
    <2> QED
      BY <2>1, <2>2
  <1>5. Wired'
    BY <1>1 DEF FInv, Wired, world
  <1> QED
    BY <1>1, <1>2, <1>3, <1>4, <1>5

(* A step of a write before its end: Redis may change under its own keys.  *)
LEMMA WriteMoves ==
    ASSUME FInv, NEW c \in Calls, Busy(c), Writes(c), distributed,
           NEW p \in {"redis", "local"}, NEW ok \in BOOLEAN, Spoil(c, p, ok),
           UNCHANGED <<world, latest, trusted>>,
           \A k \in Keys : ~Touches(c, k) => redis'[k] = redis[k],
           DOMAIN items' \subseteq DOMAIN items
    PROVE  /\ call' \in [Calls -> CallState] /\ Calm' /\ Filling' /\ Wired'
           /\ \A d \in Calls \ {c} : call'[d] = call[d]
           /\ call'[c].pc = p /\ call'[c].kind = call[c].kind /\ call'[c].key = call[c].key
           /\ call'[c].clean => call[c].clean /\ ok
           /\ (call'[c].clean =>
                 /\ CallAt(c, "set", "local")' /\ redis'[call'[c].key] # Nil
                       => redis'[call'[c].key].value.by = c
                 /\ CallAt(c, "del", "local")' => redis'[call'[c].key] = Nil
                 /\ CallAt(c, "clear", "redis")' => DOMAIN items' = {}) => HalfDone'
  <1>1. /\ call \in [Calls -> CallState] /\ call' \in [Calls -> CallState]
        /\ call'[c].pc = p
        /\ call'[c].kind = call[c].kind /\ call'[c].key = call[c].key
        /\ call'[c].clean => call[c].clean /\ ok
        /\ \A d \in Calls \ {c} : call'[d] = call[d]
    BY SpoilEffect DEF FInv, CacheTypeOK
  <1>2. Calm'
    BY <1>1, OrdinaryStep DEF FInv
  <1>3. Filling'
    <2>1. ~CallAt(c, "get", "fill")'
      BY <1>1 DEF Writes, CallAt
    <2> QED
      BY <1>1, <2>1 DEF FInv, Filling, CallAt
  <1>4. Wired'
    BY <1>1 DEF FInv, Wired, world
  <1>5. ASSUME NEW d \in Calls \ {c}, call'[d].clean
        PROVE  /\ CallAt(d, "set", "local")' /\ redis'[call'[d].key] # Nil
                     => redis'[call'[d].key].value.by = d
               /\ CallAt(d, "del", "local")' => redis'[call'[d].key] = Nil
               /\ CallAt(d, "clear", "redis")' => DOMAIN items' = {}
    <2>1. call'[d] = call[d] /\ call[d].clean
      BY <1>1, <1>5
    <2>2. ASSUME CallAt(d, "set", "local") \/ CallAt(d, "del", "local")
          PROVE  redis'[call[d].key] = redis[call[d].key]
      <3>1. Busy(d) /\ Writes(d) /\ call[d].key \in Keys /\ Touches(d, call[d].key)
        BY <2>2 DEF FInv, Calm, KeyKnown, Busy, Writes, Touches, CallAt
      <3>2. ~Touches(c, call[d].key)
        BY <2>1, <3>1 DEF FInv, Calm, Alone
      <3> QED
        BY <3>1, <3>2
    <2>3. ASSUME CallAt(d, "clear", "redis")
          PROVE  DOMAIN items' = {}
      <3>1. DOMAIN items = {}
        BY <2>1, <2>3 DEF FInv, HalfDone
      <3> QED
        BY <3>1
    <2> QED
      BY <2>1, <2>2, <2>3 DEF FInv, HalfDone, CallAt
  <1> QED
    BY <1>1, <1>2, <1>3, <1>4, <1>5 DEF HalfDone

(* The last step of a write: its key is trusted again if it was clean.     *)
LEMMA WriteEnds ==
    ASSUME FInv, NEW c \in Calls, Busy(c), Writes(c), NEW v \in Calls \cup {Nil}, Wrote(c, v),
           UNCHANGED world,
           \A k \in Keys : ~Touches(c, k) => redis'[k] = redis[k],
           ~distributed => redis' = redis,
           DOMAIN items' \subseteq DOMAIN items \cup {call[c].key},
           call[c].kind = "clear" => DOMAIN items' \subseteq DOMAIN items
    PROVE  /\ call' \in [Calls -> CallState] /\ Calm' /\ Filling' /\ HalfDone' /\ Wired'
           /\ latest' \in [Keys -> Calls \cup {Nil}] /\ trusted' \in [Keys -> BOOLEAN]
           /\ \A k \in Keys : Touches(c, k) => latest'[k] = v /\ (trusted'[k] => call[c].clean)
           /\ \A k \in Keys : ~Touches(c, k) => latest'[k] = latest[k] /\ trusted'[k] = trusted[k]
  <1>1. /\ call \in [Calls -> CallState] /\ call' \in [Calls -> CallState]
        /\ call'[c].pc = "done"
        /\ call'[c].kind = call[c].kind /\ call'[c].key = call[c].key
        /\ call'[c].clean = call[c].clean
        /\ \A d \in Calls \ {c} : call'[d] = call[d]
    BY MoveEffect DEF FInv, CacheTypeOK, Wrote
  <1>2. latest' \in [Keys -> Calls \cup {Nil}]
    BY DEF FInv, CacheTypeOK, Wrote
  <1>3. trusted' \in [Keys -> BOOLEAN]
    <2>1. call[c].clean \in BOOLEAN /\ trusted \in [Keys -> BOOLEAN]
      BY <1>1 DEF FInv, CacheTypeOK, CallState
    <2> QED
      BY <2>1 DEF Wrote
  <1>4. \A k \in Keys : Touches(c, k) => latest'[k] = v /\ (trusted'[k] => call[c].clean)
    BY DEF Wrote
  <1>5. \A k \in Keys : ~Touches(c, k) => latest'[k] = latest[k] /\ trusted'[k] = trusted[k]
    BY DEF Wrote
  <1>6. \A d \in Calls \ {c}, k \in Keys :
           Busy(d) /\ Touches(c, k) /\ Touches(d, k) => ~call[c].clean /\ ~trusted'[k]
    BY <1>4 DEF FInv, Calm, Alone
  <1>7. Calm'
    <2>1. ~Busy(c)'
      BY <1>1 DEF Busy
    <2>2. \A d \in Calls \ {c} : /\ Busy(d)' <=> Busy(d)
                                 /\ Writes(d)' <=> Writes(d)
                                 /\ \A k : Touches(d, k)' <=> Touches(d, k)
      BY <1>1 DEF Busy, Writes, Touches
    <2>3. Quiet'
      BY <1>5, <1>6, <2>1, <2>2 DEF FInv, Calm, Quiet
    <2>4. Alone'
      BY <1>1, <2>1, <2>2 DEF FInv, Calm, Alone
    <2>5. KeyKnown'
      BY <1>1, <2>1, <2>2 DEF FInv, Calm, KeyKnown
    <2> QED
      BY <2>3, <2>4, <2>5 DEF Calm
  <1>8. Filling'
    <2> SUFFICES ASSUME NEW d \in Calls, CallAt(d, "get", "fill")'
                 PROVE  /\ call'[d].found \in Value({"bytes"})
                        /\ trusted'[call'[d].key] => call'[d].found.by = latest'[call'[d].key]
      BY DEF Filling
    <2>1. d # c /\ call'[d] = call[d] /\ CallAt(d, "get", "fill")
      BY <1>1 DEF CallAt
    <2>2. Busy(d) /\ call[d].key \in Keys /\ Touches(d, call[d].key)
      BY <2>1 DEF FInv, Calm, KeyKnown, Busy, Touches, CallAt
    <2> QED
      BY <1>5, <1>6, <2>1, <2>2 DEF FInv, Filling
  <1>9. HalfDone'
    <2> SUFFICES ASSUME NEW d \in Calls, call'[d].clean
                 PROVE  /\ CallAt(d, "set", "local")' /\ redis'[call'[d].key] # Nil
                              => redis'[call'[d].key].value.by = d
                        /\ CallAt(d, "del", "local")' => redis'[call'[d].key] = Nil
                        /\ CallAt(d, "clear", "redis")' => DOMAIN items' = {}
      BY DEF HalfDone
    <2>1. CASE d = c
      BY <1>1, <2>1 DEF CallAt
    <2>2. CASE d # c
      <3>1. call'[d] = call[d] /\ call[d].clean
        BY <1>1, <2>2
      <3>2. ASSUME CallAt(d, "set", "local") \/ CallAt(d, "del", "local")
            PROVE  redis'[call[d].key] = redis[call[d].key]
        <4>1. Busy(d) /\ Writes(d) /\ call[d].key \in Keys /\ Touches(d, call[d].key)
          BY <3>2 DEF FInv, Calm, KeyKnown, Busy, Writes, Touches, CallAt
        <4>2. ~Touches(c, call[d].key)
          BY <2>2, <3>1, <4>1 DEF FInv, Calm, Alone
        <4> QED
          BY <4>1, <4>2
      <3>3. ASSUME CallAt(d, "clear", "redis")
            PROVE  DOMAIN items' = {}
        <4>1. Busy(d) /\ Writes(d) /\ \A k : Touches(d, k)
          BY <3>3 DEF Busy, Writes, Touches, CallAt
        <4>2. DOMAIN items = {}
          BY <3>1, <3>3 DEF FInv, HalfDone
        <4>3. call[c].kind = "clear"
          BY <2>2, <3>1, <4>1 DEF FInv, Calm, Alone, KeyKnown, Touches
        <4> QED
          BY <4>2, <4>3
      <3> QED
        BY <3>1, <3>2, <3>3 DEF FInv, HalfDone, CallAt
    <2> QED
      BY <2>1, <2>2
  <1>10. Wired'
    BY <1>1 DEF FInv, Wired, world
  <1> QED
    BY <1>1, <1>2, <1>3, <1>4, <1>5, <1>7, <1>8, <1>9, <1>10

(* The steps of Get preserve the invariant: what they put into the local   *)
(* map was the latest value when they read it, and still is if the key is  *)
(* trusted.                                                                *)
LEMMA GetPreserves ==
    ASSUME FInv, NEW c \in Calls, Get(c)
    PROVE  FInv'
  <1> USE DEF FInv
  <1>1. CASE GetRedis(c)
    <2>1. call[c].kind = "get" /\ Busy(c) /\ call[c].key \in Keys
      BY <1>1 DEF GetRedis, CallAt, Busy, Calm, KeyKnown
    <2>2. PICK p \in {"fill", "local"}, f \in {Nil} \cup Value({"bytes"}) :
             /\ Move(c, p, f)
             /\ p = "fill" => /\ f \in Value({"bytes"})
                              /\ trusted[call[c].key] => f.by = latest[call[c].key]
      <3>1. ASSUME Live(redis[call[c].key]), Move(c, "fill", redis[call[c].key].value)
            PROVE  /\ redis[call[c].key].value \in Value({"bytes"})
                   /\ trusted[call[c].key] => redis[call[c].key].value.by = latest[call[c].key]
        BY <2>1, <3>1 DEF Live, CacheTypeOK, FreshOrNothing
      <3> QED
        BY <1>1, <3>1 DEF GetRedis
    <2>3. call' \in [Calls -> CallState] /\ Calm' /\ Filling' /\ HalfDone' /\ Wired'
      BY <1>1, <2>1, <2>2, GetMoves DEF GetRedis
    <2> QED
      BY <1>1, <2>3 DEF GetRedis, CacheTypeOK, FreshOrNothing, world
  <1>2. CASE GetFill(c)
    <2> DEFINE k == call[c].key
               v == [call[c].found EXCEPT !.form = "json"]
    <2>1. /\ call[c].kind = "get" /\ Busy(c) /\ k \in Keys
          /\ call[c].found \in Value({"bytes"})
          /\ trusted[k] => call[c].found.by = latest[k]
      BY <1>2 DEF GetFill, CallAt, Busy, Calm, KeyKnown, Filling
    <2>2. v \in Value({"go", "json"}) /\ v.by = call[c].found.by
      BY <2>1 DEF Value
    <2>3. LocalSet(k, v, DefaultTTL) /\ Move(c, "done", Nil)
          /\ UNCHANGED <<redis, world, latest, trusted>>
      BY <1>2 DEF GetFill
    <2> HIDE DEF v
    <2>4. DOMAIN items' \subseteq Keys /\ items' \in [DOMAIN items' -> Item]
      BY <2>1, <2>2, <2>3, LocalSetType, CacheAssumption
    <2>5. call' \in [Calls -> CallState] /\ Calm' /\ Filling' /\ HalfDone' /\ Wired'
      BY <2>1, <2>3, LocalSetEffect, GetMoves
    <2>6. CacheTypeOK'
      BY <2>3, <2>4, <2>5 DEF CacheTypeOK, world
    <2>7. FreshOrNothing'
      <3>1. /\ items'[k].value = v
            /\ \A x \in DOMAIN items' \ {k} : x \in DOMAIN items /\ items'[x] = items[x]
        BY <2>3, LocalSetEffect
      <3> QED
        BY <2>1, <2>2, <2>3, <3>1 DEF FreshOrNothing
    <2> QED
      BY <2>5, <2>6, <2>7
  <1>3. CASE GetLocal(c) \/ GetCheck(c)
    <2>1. call[c].kind = "get" /\ Busy(c)
      BY <1>3 DEF GetLocal, GetCheck, CallAt, Busy
    <2>2. PICK p \in {"check", "expire", "done"}, f \in {Nil} \cup Item : Move(c, p, f)
      BY <1>3 DEF GetLocal, GetCheck, CacheTypeOK
    <2>3. UNCHANGED <<items, redis, world, latest, trusted>>
      BY <1>3 DEF GetLocal, GetCheck
    <2>4. call' \in [Calls -> CallState] /\ Calm' /\ Filling' /\ HalfDone' /\ Wired'
      BY <2>1, <2>2, <2>3, GetMoves
    <2> QED
      BY <2>3, <2>4 DEF CacheTypeOK, FreshOrNothing, world
  <1>4. CASE GetExpire(c)
    <2>1. call[c].kind = "get" /\ Busy(c)
      BY <1>4 DEF GetExpire, CallAt, Busy
    <2>2. /\ items' = Without(items, call[c].key) /\ Move(c, "done", Nil)
          /\ UNCHANGED <<redis, world, latest, trusted>>
      BY <1>4 DEF GetExpire, LocalDel
    <2>3. call' \in [Calls -> CallState] /\ Calm' /\ Filling' /\ HalfDone' /\ Wired'
      BY <2>1, <2>2, GetMoves DEF Without
    <2> QED
      BY <2>2, <2>3 DEF CacheTypeOK, FreshOrNothing, world, Without
  <1> QED
    BY <1>1, <1>2, <1>3, <1>4 DEF Get

(* The steps of Set: first Redis, then the local map.                      *)
LEMMA SetPreserves ==
    ASSUME FInv, NEW c \in Calls, Set(c)
    PROVE  FInv'
  <1> USE DEF FInv
  <1> DEFINE k == call[c].key
  <1>1. Busy(c) /\ Writes(c) /\ k \in Keys /\ call[c].kind = "set" /\ \A x \in Keys : Touches(c, x) <=> x = k
    BY DEF Set, SetRedis, SetLocal, CallAt, Busy, Writes, Touches, Calm, KeyKnown
  <1>2. CASE SetRedis(c)
    <2> DEFINE r == [value |-> [by |-> c, form |-> "bytes"], at |-> time, ttl |-> call[c].ttl]
    <2>1. distributed /\ UNCHANGED <<items, world, latest, trusted>>
      BY <1>2 DEF SetRedis, CallAt, Wired
    <2>2. r \in [value : Value({"bytes"}), at : Nat, ttl : TTLs] /\ r.value.by = c
      BY DEF CacheTypeOK, CallState, Value
    <2>3. PICK ok \in BOOLEAN :
             /\ Spoil(c, "local", ok)
             /\ redis' = IF ok THEN [redis EXCEPT ![k] = r] ELSE redis
      BY <1>2, Zenon DEF SetRedis
    <2> HIDE DEF r
    <2>4. \A x \in Keys : ~Touches(c, x) => redis'[x] = redis[x]
      BY <1>1, <2>3 DEF CacheTypeOK
    <2>5. /\ call' \in [Calls -> CallState] /\ Calm' /\ Filling' /\ Wired'
          /\ call'[c].kind = call[c].kind /\ call'[c].key = call[c].key /\ call'[c].pc = "local"
          /\ call'[c].clean => ok
          /\ (call'[c].clean =>
                 /\ CallAt(c, "set", "local")' /\ redis'[call'[c].key] # Nil
                       => redis'[call'[c].key].value.by = c
                 /\ CallAt(c, "del", "local")' => redis'[call'[c].key] = Nil
                 /\ CallAt(c, "clear", "redis")' => DOMAIN items' = {}) => HalfDone'
      BY <1>1, <2>1, <2>3, <2>4, WriteMoves
    <2>6. HalfDone'
      BY <1>1, <2>2, <2>3, <2>5 DEF CallAt, CacheTypeOK
    <2>7. redis' \in [Keys -> {Nil} \cup [value : Value({"bytes"}), at : Nat, ttl : TTLs]]
      BY <2>2, <2>3 DEF CacheTypeOK
    <2>8. CacheTypeOK'
      BY <2>1, <2>5, <2>7 DEF CacheTypeOK, world
    <2>9. FreshOrNothing'
      <3>1. ~trusted[k]
        BY <1>1 DEF Calm, Quiet
      <3> QED
        BY <1>1, <2>1, <2>4, <3>1 DEF FreshOrNothing
    <2> QED
      BY <2>5, <2>6, <2>8, <2>9
  <1>3. CASE SetLocal(c)
    <2> DEFINE v == [by |-> c, form |-> "go"]
               t == call[c].ttl
    <2>1. v \in Value({"go", "json"}) /\ v.by = c /\ t \in TTLs
      BY DEF Value, CacheTypeOK, CallState
    <2>2. LocalSet(k, v, t) /\ Wrote(c, c) /\ UNCHANGED <<redis, world>>
      BY <1>3 DEF SetLocal
    <2>3. call[c].clean /\ redis[k] # Nil => redis[k].value.by = c
      BY <1>3 DEF SetLocal, HalfDone
    <2> HIDE DEF v, t
    <2>4. DOMAIN items' \subseteq Keys /\ items' \in [DOMAIN items' -> Item]
      BY <1>1, <2>1, <2>2, LocalSetType
    <2>5. DOMAIN items' \subseteq DOMAIN items \cup {k} /\ items'[k].value = v
          /\ \A x \in DOMAIN items' \ {k} : x \in DOMAIN items /\ items'[x] = items[x]
      BY <2>2, LocalSetEffect
    <2>6. /\ call' \in [Calls -> CallState] /\ Calm' /\ Filling' /\ HalfDone' /\ Wired'
          /\ latest' \in [Keys -> Calls \cup {Nil}] /\ trusted' \in [Keys -> BOOLEAN]
          /\ latest'[k] = c /\ (trusted'[k] => call[c].clean)
          /\ \A x \in Keys \ {k} : latest'[x] = latest[x] /\ trusted'[x] = trusted[x]
      BY <1>1, <2>2, <2>5, WriteEnds
    <2>7. CacheTypeOK'
      BY <2>2, <2>4, <2>6 DEF CacheTypeOK, world
    <2>8. FreshOrNothing'
      BY <2>1, <2>2, <2>3, <2>5, <2>6 DEF FreshOrNothing
    <2> QED
      BY <2>6, <2>7, <2>8
  <1> QED
    BY <1>2, <1>3 DEF Set

(* The steps of Del: first Redis, then the local map.                      *)
LEMMA DelPreserves ==
    ASSUME FInv, NEW c \in Calls, Del(c)
    PROVE  FInv'
  <1> USE DEF FInv
  <1> DEFINE k == call[c].key
  <1>1. Busy(c) /\ Writes(c) /\ k \in Keys /\ call[c].kind = "del" /\ \A x \in Keys : Touches(c, x) <=> x = k
    BY DEF Del, DelRedis, DelLocal, CallAt, Busy, Writes, Touches, Calm, KeyKnown
  <1>2. CASE DelRedis(c)
    <2>1. distributed /\ UNCHANGED <<items, world, latest, trusted>>
      BY <1>2 DEF DelRedis, CallAt, Wired
    <2>2. PICK ok \in BOOLEAN :
             /\ Spoil(c, "local", ok)
             /\ redis' = IF ok THEN [redis EXCEPT ![k] = Nil] ELSE redis
      BY <1>2, Zenon DEF DelRedis
    <2>3. \A x \in Keys : ~Touches(c, x) => redis'[x] = redis[x]
      BY <1>1, <2>2 DEF CacheTypeOK
    <2>4. /\ call' \in [Calls -> CallState] /\ Calm' /\ Filling' /\ Wired'
          /\ call'[c].kind = call[c].kind /\ call'[c].key = call[c].key /\ call'[c].pc = "local"
          /\ call'[c].clean => ok
          /\ (call'[c].clean =>
                 /\ CallAt(c, "set", "local")' /\ redis'[call'[c].key] # Nil
                       => redis'[call'[c].key].value.by = c
                 /\ CallAt(c, "del", "local")' => redis'[call'[c].key] = Nil
                 /\ CallAt(c, "clear", "redis")' => DOMAIN items' = {}) => HalfDone'
      BY <1>1, <2>1, <2>2, <2>3, WriteMoves
    <2>5. HalfDone'
      BY <1>1, <2>2, <2>4 DEF CallAt, CacheTypeOK
    <2>6. redis' \in [Keys -> {Nil} \cup [value : Value({"bytes"}), at : Nat, ttl : TTLs]]
      BY <2>2 DEF CacheTypeOK
    <2>7. CacheTypeOK'
      BY <2>1, <2>4, <2>6 DEF CacheTypeOK, world
    <2>8. FreshOrNothing'
      <3>1. ~trusted[k]
        BY <1>1 DEF Calm, Quiet
      <3> QED
        BY <1>1, <2>1, <2>3, <3>1 DEF FreshOrNothing
    <2> QED
      BY <2>4, <2>5, <2>7, <2>8
  <1>3. CASE DelLocal(c)
    <2>1. items' = Without(items, k) /\ Wrote(c, Nil) /\ UNCHANGED <<redis, world>>
      BY <1>3 DEF DelLocal, LocalDel
    <2>2. call[c].clean => redis[k] = Nil
      BY <1>3 DEF DelLocal, HalfDone
    <2>3. /\ DOMAIN items' = DOMAIN items \ {k} /\ \A x \in DOMAIN items' : items'[x] = items[x]
          /\ items' \in [DOMAIN items' -> Item]
      BY <2>1 DEF Without, CacheTypeOK
    <2>4. /\ call' \in [Calls -> CallState] /\ Calm' /\ Filling' /\ HalfDone' /\ Wired'
          /\ latest' \in [Keys -> Calls \cup {Nil}] /\ trusted' \in [Keys -> BOOLEAN]
          /\ latest'[k] = Nil /\ (trusted'[k] => call[c].clean)
          /\ \A x \in Keys \ {k} : latest'[x] = latest[x] /\ trusted'[x] = trusted[x]
      BY <1>1, <2>1, <2>3, WriteEnds
    <2>5. CacheTypeOK'
      BY <2>1, <2>3, <2>4 DEF CacheTypeOK, world
    <2>6. FreshOrNothing'
      BY <2>1, <2>2, <2>3, <2>4 DEF FreshOrNothing
    <2> QED
      BY <2>4, <2>5, <2>6
  <1> QED
    BY <1>2, <1>3 DEF Del

(* The steps of Clear: the local map, then Redis.  A FlushAll that fails   *)
(* leaves every key untrusted, as the call made them when it began.        *)
LEMMA ClearPreserves ==
    ASSUME FInv, NEW c \in Calls, Clear(c)
    PROVE  FInv'
  <1> USE DEF FInv
  <1>1. Busy(c) /\ Writes(c) /\ call[c].kind = "clear" /\ \A x : Touches(c, x)
    BY DEF Clear, ClearLocal, ClearRedis, CallAt, Busy, Writes, Touches
  <1>2. \A k \in Keys : ~trusted[k]
    BY <1>1 DEF Calm, Quiet
  <1>3. CASE ClearLocal(c) /\ distributed
    <2>1. /\ items' = [k \in {} |-> Nil] /\ Spoil(c, "redis", TRUE)
          /\ UNCHANGED <<redis, world, latest, trusted>>
      BY <1>3 DEF ClearLocal
    <2>2. /\ call' \in [Calls -> CallState] /\ Calm' /\ Filling' /\ Wired'
          /\ call'[c].kind = call[c].kind
          /\ (call'[c].clean =>
                 /\ CallAt(c, "set", "local")' /\ redis'[call'[c].key] # Nil
                       => redis'[call'[c].key].value.by = c
                 /\ CallAt(c, "del", "local")' => redis'[call'[c].key] = Nil
                 /\ CallAt(c, "clear", "redis")' => DOMAIN items' = {}) => HalfDone'
      BY <1>1, <1>3, <2>1, WriteMoves
    <2>3. HalfDone'
      BY <1>1, <2>1, <2>2 DEF CallAt
    <2> QED
      BY <1>2, <2>1, <2>2, <2>3 DEF CacheTypeOK, FreshOrNothing, world
  <1>4. CASE ClearLocal(c) /\ ~distributed
    <2>1. items' = [k \in {} |-> Nil] /\ Wrote(c, Nil) /\ UNCHANGED <<redis, world>>
      BY <1>4 DEF ClearLocal
    <2>2. /\ call' \in [Calls -> CallState] /\ Calm' /\ Filling' /\ HalfDone' /\ Wired'
          /\ latest' \in [Keys -> Calls \cup {Nil}] /\ trusted' \in [Keys -> BOOLEAN]
      BY <1>1, <2>1, WriteEnds
    <2>3. \A k \in Keys : redis'[k] = Nil
      BY <1>4, <2>1 DEF Wired
    <2> QED
      BY <2>1, <2>2, <2>3 DEF CacheTypeOK, FreshOrNothing, world
  <1>5. CASE ClearRedis(c) /\ Wrote(c, Nil) /\ redis' = [k \in Keys |-> Nil]
    <2>1. UNCHANGED <<items, world>> /\ distributed
      BY <1>5 DEF ClearRedis, CallAt, Wired
    <2>2. call[c].clean => DOMAIN items = {}
      BY <1>5 DEF ClearRedis, HalfDone
    <2>3. /\ call' \in [Calls -> CallState] /\ Calm' /\ Filling' /\ HalfDone' /\ Wired'
          /\ latest' \in [Keys -> Calls \cup {Nil}] /\ trusted' \in [Keys -> BOOLEAN]
          /\ \A k \in Keys : trusted'[k] => call[c].clean
      BY <1>1, <1>5, <2>1, WriteEnds
    <2> QED
      BY <1>5, <2>1, <2>2, <2>3 DEF CacheTypeOK, FreshOrNothing, world
  <1>6. CASE Move(c, "done", Nil) /\ UNCHANGED <<items, redis, world, latest, trusted>>
    <2>1. /\ call' \in [Calls -> CallState] /\ call'[c].pc = "done"
          /\ call'[c].kind = call[c].kind /\ call'[c].key = call[c].key
          /\ call'[c].clean = call[c].clean
          /\ \A d \in Calls \ {c} : call'[d] = call[d]
      BY <1>6, MoveEffect DEF CacheTypeOK
    <2>2. Calm'
      BY <1>1, <1>6, <2>1, OrdinaryStep
    <2>3. Filling' /\ HalfDone' /\ Wired'
      BY <1>6, <2>1 DEF Filling, HalfDone, Wired, CallAt, world
    <2> QED
      BY <1>6, <2>1, <2>2, <2>3 DEF CacheTypeOK, FreshOrNothing, world
  <1> QED
    BY <1>3, <1>4, <1>5, <1>6 DEF Clear, ClearLocal, ClearRedis

(* A call begins: a write withdraws the trust in its keys, and every call  *)
(* that shares a key with it, itself included, is not clean any more.      *)
LEMMA BeginPreserves ==
    ASSUME FInv, NEW c \in Calls, NEW kind \in {"get", "set", "del", "clear"},
           NEW k \in Keys \cup {Nil}, kind # "clear" => k \in Keys,
           NEW ttl \in TTLs, Begin(c, kind, k, ttl)
    PROVE  FInv'
  <1> USE DEF FInv
  <1> DEFINE others == {d \in Calls \ {c} : Busy(d) /\ (Touches(d, k) \/ kind = "clear")}
             p == IF distributed /\ kind # "clear" THEN "redis" ELSE "local"
             b == others = {}
             me == [pc |-> p, kind |-> kind, key |-> k, ttl |-> ttl, found |-> Nil, clean |-> b]
  <1>1. /\ call[c].pc = "idle" /\ UNCHANGED <<items, redis, world, latest>>
        /\ call' = [d \in Calls |-> IF d = c THEN me
                                  ELSE IF d \in others THEN [call[d] EXCEPT !.clean = FALSE]
                                  ELSE call[d]]
        /\ trusted' = [x \in Keys |-> trusted[x] /\ (kind = "get" \/ (kind # "clear" /\ x # k))]
    BY DEF Begin
  <1>2. p \in {"redis", "local"} /\ b \in BOOLEAN /\ (b <=> others = {})
    OBVIOUS
  <1>3. \A d \in Calls \ {c} : d \in others <=> Busy(d) /\ (Touches(d, k) \/ kind = "clear")
    OBVIOUS
  <1>4. /\ p = "redis" => distributed /\ kind # "clear"
        /\ p = "local" => ~distributed \/ kind = "clear"
    OBVIOUS
  <1> HIDE DEF p, b, others
  <1>5. /\ me \in CallState
        /\ call'[c].pc = p /\ call'[c].kind = kind /\ call'[c].key = k /\ call'[c].clean = b
    BY <1>1, <1>2 DEF CallState
  <1> HIDE DEF me
  <1>6. \A d \in Calls \ {c} :
           /\ call'[d] \in CallState
           /\ call'[d].pc = call[d].pc /\ call'[d].kind = call[d].kind /\ call'[d].key = call[d].key
           /\ call'[d].found = call[d].found
           /\ call'[d].clean => call[d].clean /\ d \notin others
    <2> SUFFICES ASSUME NEW d \in Calls \ {c}
                 PROVE  /\ call'[d] \in CallState
                        /\ call'[d].pc = call[d].pc /\ call'[d].kind = call[d].kind
                        /\ call'[d].key = call[d].key /\ call'[d].found = call[d].found
                        /\ call'[d].clean => call[d].clean /\ d \notin others
      OBVIOUS
    <2>1. call[d] \in CallState
      BY DEF CacheTypeOK
    <2>2. CASE d \in others
      BY <1>1, <2>1, <2>2 DEF CallState
    <2>3. CASE d \notin others
      BY <1>1, <2>1, <2>3 DEF CallState
    <2> QED
      BY <2>2, <2>3
  <1>7. call' \in [Calls -> CallState]
    <2>1. me = call'[c]
      BY <1>1
    <2>2. \A d \in Calls : call'[d] \in CallState
      BY <1>5, <1>6, <2>1
    <2> QED
      BY <1>1, <2>2
  <1>8. /\ trusted' \in [Keys -> BOOLEAN]
        /\ \A x \in Keys : trusted'[x] => trusted[x]
        /\ \A x \in Keys : kind # "get" /\ (kind = "clear" \/ x = k) => ~trusted'[x]
    BY <1>1, Zenon DEF CacheTypeOK
  <1>9. /\ Writes(c)' <=> kind # "get"
        /\ \A x : Touches(c, x)' <=> x = k \/ kind = "clear"
        /\ \A d \in Calls \ {c} : Busy(d)' <=> Busy(d)
        /\ \A d \in Calls \ {c} : Writes(d)' <=> Writes(d)
        /\ \A d \in Calls \ {c} : \A x : Touches(d, x)' <=> Touches(d, x)
    <2>1. Writes(c)' <=> kind # "get"
      BY <1>5 DEF Writes
    <2>2. \A x : Touches(c, x)' <=> x = k \/ kind = "clear"
      BY <1>5 DEF Touches
    <2>3. \A d \in Calls \ {c} : Busy(d)' <=> Busy(d)
      BY <1>6 DEF Busy
    <2>4. \A d \in Calls \ {c} : Writes(d)' <=> Writes(d)
      BY <1>6 DEF Writes
    <2>5. \A d \in Calls \ {c} : \A x : Touches(d, x)' <=> Touches(d, x)
      BY <1>6 DEF Touches
    <2> QED
      BY <2>1, <2>2, <2>3, <2>4, <2>5
  <1>10. Quiet'
    BY <1>8, <1>9 DEF Calm, Quiet
  <1>11. Alone'
    <2> SUFFICES ASSUME NEW x \in Calls, NEW y \in Calls, NEW q \in Keys, x # y,
                        Busy(x)', Busy(y)', Writes(x)', Touches(x, q)', Touches(y, q)'
                 PROVE  ~call'[x].clean
      BY DEF Alone
    <2>1. CASE x = c
      BY <1>2, <1>3, <1>5, <1>9, <2>1
    <2>2. CASE y = c
      BY <1>3, <1>6, <1>9, <2>2
    <2>3. CASE x # c /\ y # c
      BY <1>6, <1>9, <2>3 DEF Calm, Alone
    <2> QED
      BY <2>1, <2>2, <2>3
  <1>12. KeyKnown'
    BY <1>5, <1>6, <1>9 DEF Calm, KeyKnown
  <1>13. Filling'
    <2> SUFFICES ASSUME NEW d \in Calls, CallAt(d, "get", "fill")'
                 PROVE  /\ call'[d].found \in Value({"bytes"})
                        /\ trusted'[call'[d].key] => call'[d].found.by = latest'[call'[d].key]
      BY DEF Filling
    <2>1. d # c /\ CallAt(d, "get", "fill") /\ call'[d].key = call[d].key /\ call'[d].found = call[d].found
      BY <1>2, <1>5, <1>6 DEF CallAt
    <2>2. call[d].key \in Keys
      BY <2>1 DEF Calm, KeyKnown, Busy, CallAt
    <2> QED
      BY <1>1, <1>8, <2>1, <2>2 DEF Filling
  <1>14. HalfDone'
    <2> SUFFICES ASSUME NEW d \in Calls, call'[d].clean
                 PROVE  /\ CallAt(d, "set", "local")' /\ redis'[call'[d].key] # Nil
                              => redis'[call'[d].key].value.by = d
                        /\ CallAt(d, "del", "local")' => redis'[call'[d].key] = Nil
                        /\ CallAt(d, "clear", "redis")' => DOMAIN items' = {}
      BY DEF HalfDone
    <2>1. CASE d = c
      <3>1. ~CallAt(c, "clear", "redis")'
        BY <1>4, <1>5 DEF CallAt
      <3>2. ASSUME CallAt(c, "set", "local")' \/ CallAt(c, "del", "local")'
            PROVE  redis'[call'[c].key] = Nil
        <4>1. kind # "clear" /\ p = "local" /\ call'[c].key = k
          BY <1>5, <3>2 DEF CallAt
        <4> QED
          BY <1>1, <1>4, <4>1 DEF Wired
      <3> QED
        BY <2>1, <3>1, <3>2
    <2>2. CASE d # c
      BY <1>1, <1>6, <2>2 DEF CallAt, HalfDone
    <2> QED
      BY <2>1, <2>2
  <1>15. Wired'
    BY <1>1, <1>4, <1>5, <1>6 DEF Wired, world
  <1>16. CacheTypeOK'
    BY <1>1, <1>7, <1>8 DEF CacheTypeOK, world
  <1>17. FreshOrNothing'
    BY <1>1, <1>8 DEF FreshOrNothing
  <1> QED
    BY <1>10, <1>11, <1>12, <1>13, <1>14, <1>15, <1>16, <1>17 DEF Calm

(* The cleaner, the clock and Close touch no call; a sweep only takes      *)
(* entries away.                                                           *)
LEMMA EnvironmentPreserves ==
    ASSUME FInv, Cleanup \/ CleanupStops \/ Close \/ TimePasses \/ UNCHANGED cacheVars
    PROVE  FInv'
  <1> USE DEF FInv
  <1>1. /\ UNCHANGED <<redis, call, distributed, latest, trusted>>
        /\ DOMAIN items' \subseteq DOMAIN items
        /\ \A x \in DOMAIN items' : items'[x] = items[x]
    BY DEF Cleanup, CleanupStops, Close, TimePasses, cacheVars, world
  <1>2. CacheTypeOK'
    <2>1. CASE Cleanup
      BY <2>1 DEF Cleanup, CacheTypeOK, world
    <2>2. CASE CleanupStops
      BY <2>2 DEF CleanupStops, CacheTypeOK
    <2>3. CASE Close
      BY <2>3 DEF Close, CacheTypeOK
    <2>4. CASE TimePasses
      BY <2>4, CacheAssumption DEF TimePasses, CacheTypeOK
    <2>5. CASE UNCHANGED cacheVars
      BY <2>5 DEF cacheVars, world, CacheTypeOK
    <2> QED
      BY <2>1, <2>2, <2>3, <2>4, <2>5
  <1>3. Calm'
    BY <1>1 DEF Calm, Quiet, Alone, KeyKnown, Busy, Writes, Touches
  <1>4. Filling'
    BY <1>1 DEF Filling, CallAt
  <1>5. HalfDone'
    BY <1>1 DEF HalfDone, CallAt
  <1>6. Wired'
    BY <1>1 DEF Wired
  <1>7. FreshOrNothing'
    BY <1>1 DEF FreshOrNothing
  <1> QED
    BY <1>2, <1>3, <1>4, <1>5, <1>6, <1>7

(* The cache starts empty, and every key is trusted to be absent.          *)
LEMMA InitFInv == InitCache => FInv
  <1> SUFFICES ASSUME InitCache
               PROVE  FInv
    OBVIOUS
  <1>1. Idle \in CallState
    BY CacheAssumption DEF Idle, CallState
  <1>2. \A c \in Calls : call[c].pc = "idle"
    BY DEF InitCache, Idle
  <1>3. CacheTypeOK
    <2>1. DOMAIN items \subseteq Keys /\ items \in [DOMAIN items -> Item]
      BY DEF InitCache
    <2>2. time \in 0..MaxNow
      BY CacheAssumption DEF InitCache
    <2>3. call \in [Calls -> CallState]
      BY <1>1 DEF InitCache
    <2>4. distributed \in BOOLEAN /\ closed \in BOOLEAN /\ cleaner \in BOOLEAN
      BY DEF InitCache
    <2>5. redis \in [Keys -> {Nil} \cup [value : Value({"bytes"}), at : Nat, ttl : TTLs]]
      BY DEF InitCache
    <2>6. latest \in [Keys -> Calls \cup {Nil}] /\ trusted \in [Keys -> BOOLEAN]
      BY DEF InitCache
    <2> QED
      BY <2>1, <2>2, <2>3, <2>4, <2>5, <2>6 DEF CacheTypeOK
  <1>4. Calm /\ Filling /\ HalfDone
    BY <1>2 DEF Calm, Quiet, Alone, KeyKnown, Filling, HalfDone, Busy, CallAt
  <1>5. Wired /\ FreshOrNothing
    BY <1>2 DEF InitCache, Wired, FreshOrNothing
  <1> QED
    BY <1>3, <1>4, <1>5 DEF FInv

(* Every step preserves the invariant.                                     *)
LEMMA StepFInv == FInv /\ [CacheNext]_cacheVars => FInv'
  <1> SUFFICES ASSUME FInv, [CacheNext]_cacheVars
               PROVE  FInv'
    OBVIOUS
  <1>1. ASSUME NEW c \in Calls, NEW k \in Keys,
               \/ \E kind \in {"get", "del"} : Begin(c, kind, k, DefaultTTL)
               \/ \E ttl \in TTLs : Begin(c, "set", k, ttl)
        PROVE  FInv'
    BY <1>1, BeginPreserves, CacheAssumption
  <1>2. ASSUME NEW c \in Calls, Begin(c, "clear", Nil, DefaultTTL)
        PROVE  FInv'
    BY <1>2, BeginPreserves, CacheAssumption
  <1>3. ASSUME NEW c \in Calls, Get(c) \/ Set(c) \/ Del(c) \/ Clear(c)
        PROVE  FInv'
    BY <1>3, GetPreserves, SetPreserves, DelPreserves, ClearPreserves
  <1>4. CASE Cleanup \/ CleanupStops \/ Close \/ TimePasses \/ UNCHANGED cacheVars
    BY <1>4, EnvironmentPreserves
  <1> QED
    BY <1>1, <1>2, <1>3, <1>4 DEF CacheNext

(* Type correctness: in particular the local map never holds bytes of      *)
(* Redis that were not decoded.                                            *)
THEOREM CacheTypeCorrect == CacheSpec => []CacheTypeOK
  <1>1. FInv => CacheTypeOK
    BY DEF FInv
  <1> QED
    BY <1>1, InitFInv, StepFInv, PTL DEF CacheSpec

(* A value that was overwritten or deleted does not come back after a      *)
(* write that no other call overlapped and Redis did not refuse, for any   *)
(* number of calls that follow and whatever the cleaner, the clock and     *)
(* Close do.                                                               *)
THEOREM UndisturbedWriteStays == CacheSpec => []FreshOrNothing
  <1>1. FInv => FreshOrNothing
    BY DEF FInv
  <1> QED
    BY <1>1, InitFInv, StepFInv, PTL DEF CacheSpec

=============================================================================
