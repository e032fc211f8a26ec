------------------------------ MODULE MCPeers ------------------------------
(* Model checking of Peers. *)
EXTENDS Peers
=============================================================================
