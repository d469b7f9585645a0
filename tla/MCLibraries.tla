---------------------------- MODULE MCLibraries -----------------------------
(***************************************************************************)
(* Plugins over Metrics, and Imports, for TLC.  The two share no variable, *)
(* so a state of both is a pair of states of each, and a property of one   *)
(* sees only its half: a behaviour of the run is one of either, chosen at  *)
(* the start, while the other stays where it is.                           *)
(***************************************************************************)
EXTENDS Plugins, Imports

CONSTANTS r1, r2, g1, g2, home, plain, odd, url, main

VARIABLE part

vars == <<part, pluginVars, importVars>>

Init ==
    /\ InitPlugins /\ InitImports
    /\ part \in {"plugins", "imports"}
    /\ part = "plugins" => disk = [f \in Files |-> Absent]

Next ==
    /\ UNCHANGED part
    /\ \/ part = "plugins" /\ PluginsNext /\ UNCHANGED importVars
       \/ part = "imports" /\ ImportsNext /\ UNCHANGED pluginVars

Spec == Init /\ [][Next]_vars /\ PluginsFairness

(* Both requests come from one address, which has a burst of two.          *)
MCFrom == [r \in {r1, r2} |-> home]
MCChain == <<"Logging", "RateLimit", "CORS", "Validation">>

(* `odd' is refused by ValidateLocalPath and not by ResolveLocalPath, as a *)
(* path without an extension is.                                           *)
MCCandidates == [p \in {plain, odd, url} |-> <<main>>]

(* The first page has a block with more imports than the limit.            *)
MCConstructs == (g1 :> 4) @@ (g2 :> 2)
=============================================================================
