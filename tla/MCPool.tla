------------------------------ MODULE MCPool ------------------------------
(* Model checking of Pool: a small pool of either kind. *)
EXTENDS Pool

BothPools == {[elastic |-> TRUE, capacity |-> 10], [elastic |-> FALSE, capacity |-> 1]}
=============================================================================
