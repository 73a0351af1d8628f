------------------------------ MODULE MCSlots ------------------------------
(* A credential with one seat, two requests on two replicas.               *)
EXTENDS Slots
=============================================================================
