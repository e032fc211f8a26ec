--------------------------- MODULE MCOpenFileMap ---------------------------
(* Model checking of OpenFileMap. *)
EXTENDS OpenFileMap
=============================================================================
