----------------------------- MODULE MCRefresh -----------------------------
(* Two callers share a replica and its gate; the third is another's. A     *)
(* tick of the overrun run is ten seconds; in the other the lock lasts as  *)
(* long as the calls of a refresh do, and runs out under some of them.     *)
EXTENDS Refresh, TLC

CONSTANTS r1, r2, r3, east, west

MCHome == (r1 :> east) @@ (r2 :> east) @@ (r3 :> west)
=============================================================================
