----------------------------- MODULE MCGojaPool -----------------------------
(* GojaPool for TLC: two calls whose scripts end and one that loops.       *)
EXTENDS GojaPool

CONSTANTS c1, c2, c3

(* The calls whose scripts end differ in nothing but their names, so c2 is *)
(* taken to start first.  No call is obliged to start: a behaviour that is *)
(* left out by this is one in which the two names are exchanged.           *)
InOrder == pc[c2] = "idle" => pc[c1] = "idle"
=============================================================================
