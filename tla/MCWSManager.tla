---------------------------- MODULE MCWSManager ----------------------------
(* WSManager for TLC.  Connections, requests and broadcasts are each       *)
(* interchangeable.                                                        *)
EXTENDS WSManager, TLC

Symmetry == Permutations(Conns) \cup Permutations(Requests)
                \cup Permutations(Broadcasts)
=============================================================================
