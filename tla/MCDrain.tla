------------------------------ MODULE MCDrain ------------------------------
(* Three requests: one can stream, one write its rows and one arrive while *)
(* the drain loop is deciding. A budget of two polls lets it be spent.     *)
EXTENDS Drain
=============================================================================
