------------------------------ MODULE MCExportd ------------------------------
(* Model checking of Exportd: threads and files are interchangeable. *)
EXTENDS Exportd, TLC

Symmetry == Permutations(Threads) \cup Permutations(Files)
=============================================================================
