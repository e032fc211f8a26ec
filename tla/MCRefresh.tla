----------------------------- MODULE MCRefresh -----------------------------
(* Bounded instances of Refresh for TLC. *)
EXTENDS Refresh
=============================================================================
