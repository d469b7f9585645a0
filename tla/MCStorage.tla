----------------------------- MODULE MCStorage ------------------------------
(***************************************************************************)
(* JSONEngine and CacheManager for TLC.  The two share no variable, so a   *)
(* state of both is a pair of states of each, and a property of one sees   *)
(* only its half: a behaviour of the run is one of either, chosen at the   *)
(* start, while the other stays where it is.                               *)
(***************************************************************************)
EXTENDS JSONEngine, CacheManager, TLC

VARIABLE part

storageVars == <<vars, cacheVars, part>>

InitStorage ==
    /\ Init /\ InitCache
    /\ part \in {"engine", "cache"}
    /\ part = "engine" => ~distributed
    /\ part = "cache" => ~meta

StorageNext ==
    /\ UNCHANGED part
    /\ \/ part = "engine" /\ Next /\ UNCHANGED cacheVars
       \/ part = "cache" /\ CacheNext /\ UNCHANGED vars

StorageSpec == InitStorage /\ [][StorageNext]_storageVars

(* The documents of Insert live in the first shard, those of BulkInsert in *)
(* the one and the other by turns.                                         *)
MCShards == {0, 1}
MCgetShard(id) == IF id \in Clients THEN 0 ELSE id[2] % 2

(* The calls of the cache are named like those of the engine.              *)
Symmetry == Permutations(Clients) \cup Permutations(Keys)
=============================================================================
