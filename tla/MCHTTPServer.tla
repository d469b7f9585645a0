---------------------------- MODULE MCHTTPServer ----------------------------
(* HTTPServer for TLC: two uploads of one name, the first the longer one.  *)
EXTENDS HTTPServer, TLC

CONSTANTS r1, r2, file

MCName == (r1 :> file) @@ (r2 :> file)
MCSize == (r1 :> 2) @@ (r2 :> 1)

(* A user's app.json lacks settings and limits uploads to one chunk.       *)
MCUserConfigs == {[port |-> None, maxUpload |-> 1, cors |-> None]}
=============================================================================
