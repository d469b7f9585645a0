----------------------------- MODULE MCServing ------------------------------
(* Serving for TLC: two requests whose scripts loop, and a broadcast.      *)
EXTENDS Serving

CONSTANTS r1, r2, b1

Begun == {r \in Requests : req[r].pc # "none"} \cup {b \in Broadcasts : bcast[b].pc # "idle"}

(* Any two of the three begin, so that the janitor and the timers can be   *)
(* looked at in all their interleavings with them; nobody is obliged to    *)
(* send the third.  The requests differ in nothing but their names, so r1  *)
(* is taken to be the first.                                               *)
TwoAtOnce == Begun # {r1, r2, b1} /\ (r2 \in Begun => r1 \in Begun)
=============================================================================
