------------------------------- MODULE MCServer -------------------------------
(* Model checking of Server. *)
EXTENDS Server

Sync == {[async |-> FALSE, arm |-> FALSE, idle |-> idle, nlisteners |-> 2] : idle \in BOOLEAN}
Async(n) == {[async |-> TRUE, arm |-> arm, idle |-> idle, nlisteners |-> n]
               : arm, idle \in BOOLEAN}

\* exportd without a threadpool and with one, with and without the async_reply_mechanism,
\* with one listener and with two.
AllModes == Sync \cup Async(1) \cup Async(2)

\* exportd as its own tests start it: a threadpool, the pipe and several listeners.
PooledListeners ==
  {[async |-> TRUE, arm |-> TRUE, idle |-> FALSE, nlisteners |-> 2]}
=============================================================================
