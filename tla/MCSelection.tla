---------------------------- MODULE MCSelection ----------------------------
(* A seat and a key of the first tier and a key of the second, of one slot *)
(* each, and two requests of one conversation. The turns that exclude the  *)
(* key are its failovers; a turn that asks for a seat follows ones that    *)
(* did not.                                                                *)
EXTENDS Selection, TLC

CONSTANTS r1, r2, seat, key, spare, talk, ann, bob

MCSessionOf == r1 :> talk @@ r2 :> talk
MCPrincipalOf == talk :> ann
MCKind == seat :> "oauth" @@ key :> "api_key" @@ spare :> "api_key"
MCLimit == seat :> 1 @@ key :> 1 @@ spare :> 1
MCPriority == seat :> 1 @@ key :> 1 @@ spare :> 2
MCReset == seat :> 1 @@ key :> 0 @@ spare :> 0
MCLastUsed == seat :> 1 @@ key :> 0 @@ spare :> 0
MCFirstOwner == seat :> ann @@ key :> None @@ spare :> None
MCAsks == {[channel |-> None, excluded |-> {}], [channel |-> "oauth", excluded |-> {}],
           [channel |-> None, excluded |-> {key}]}
=============================================================================
