---------------------------- MODULE MCPageCache ----------------------------
(* Model checking of PageCache. *)
EXTENDS PageCache
=============================================================================
