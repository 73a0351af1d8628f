----------------------------- MODULE MCBreaker -----------------------------
(* Three requests against one credential's breaker: enough for a request   *)
(* left over from before the trip, a probe, and a second would-be probe.   *)
EXTENDS Breaker
=============================================================================
