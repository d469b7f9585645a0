----------------------------- MODULE JSONPaging -----------------------------
(***************************************************************************)
(* The paginated queries of internal/jsondb/engine.go: FindPage, and a     *)
(* reader who asks for page after page, as HasMore tells him to, while     *)
(* nobody writes.                                                          *)
(*                                                                         *)
(* The documents have different update times, so ORDER BY leaves SQLite no *)
(* choice.  A shard in MayFail may fail to answer within three seconds.    *)
(***************************************************************************)
EXTENDS Integers, FiniteSets

CONSTANTS Docs,            \* the documents of the collection
          ShardCount,      \* JSON_SHARD_COUNT (16)
          EnginePageSize,  \* JSON_PAGE_SIZE (1000)
          PageSize,        \* the page size the reader asks for
          MayFail          \* the shards whose queries may fail

VARIABLES shard,     \* the shard of each document
          updatedAt, \* its update time
          page,      \* the page the reader asks for next
          hasMore,   \* HasMore of the last page
          seen       \* the documents the reader has got

vars == <<shard, updatedAt, page, hasMore, seen>>

Shards == 0..(ShardCount - 1)

Init ==
    /\ shard \in [Docs -> Shards]
    /\ updatedAt \in [Docs -> 1..Cardinality(Docs)]
    /\ \A d, e \in Docs : updatedAt[d] = updatedAt[e] => d = e
    /\ page = 1 /\ hasMore = TRUE /\ seen = {}

(* ORDER BY updated_at DESC LIMIT limit OFFSET offset                      *)
Newer(d, S) == {e \in S : updatedAt[e] > updatedAt[d]}
Slice(S, offset, limit) ==
    {d \in S : Cardinality(Newer(d, S)) \in offset..(offset + limit - 1)}

(* A page size out of range is replaced.                                   *)
Clamp(n) == IF n <= 0 \/ n > 1000 THEN 100 ELSE n

Offset(p, n) == IF (p - 1) * n < 0 THEN 0 ELSE (p - 1) * n

ShardsNeeded(offset, n) ==
    LET k == (offset + n + EnginePageSize - 1) \div EnginePageSize
    IN  IF k > ShardCount THEN ShardCount ELSE k

ShardOffset(s, offset) ==
    offset \div ShardCount + (IF offset % ShardCount > s THEN 1 ELSE 0)

ShardLimit(n) == n \div ShardCount + 1

ShardPage(s, offset, n) ==
    Slice({d \in Docs : shard[d] = s}, ShardOffset(s, offset), ShardLimit(n))

(* The page: what the shards that answer return, newest first, cut to n.   *)
FindPage(p, size, failing) ==
    LET n == Clamp(size)
        offset == Offset(p, n)
        asked == {s \in Shards : s < ShardsNeeded(offset, n)} \ failing
    IN  Slice(UNION {ShardPage(s, offset, n) : s \in asked}, 0, n)

Find == FindPage(1, 10000, {})
FindOne == FindPage(1, 1, {})

NextPage ==
    /\ hasMore
    /\ \E failing \in SUBSET MayFail :
          LET docs == FindPage(page, PageSize, failing) IN
          /\ seen' = seen \cup docs
          /\ hasMore' = (Cardinality(docs) = Clamp(PageSize))
    /\ page' = page + 1
    /\ UNCHANGED <<shard, updatedAt>>

Next == NextPage
Spec == Init /\ [][Next]_vars

(* A reader who walks through the pages until HasMore is false has got     *)
(* every document of the collection, when every shard has answered.        *)
WalkIsComplete == ~hasMore => seen = Docs

=============================================================================
