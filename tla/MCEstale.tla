------------------------------ MODULE MCEstale ------------------------------
(* Model checking of Estale. *)
EXTENDS Estale
=============================================================================
