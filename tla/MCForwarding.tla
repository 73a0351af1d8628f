---------------------------- MODULE MCForwarding ----------------------------
(* A provider p with three credentials and a provider q with two; a rung of*)
(* p, one of p again with q beside it, one with no satisfying model, and   *)
(* one of q.                                                               *)
EXTENDS Forwarding, TLC

CONSTANTS p, q, a1, a2, a3, b1, b2

MCPoolOf == p :> {a1, a2, a3} @@ q :> {b1, b2}
MCLadder == <<<<p>>, <<p, q>>, <<>>, <<q>>>>
=============================================================================
