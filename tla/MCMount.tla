------------------------------- MODULE MCMount -------------------------------
(* Model checking of two parts of the mount that share nothing: Fallback, how it
   finds a server, and Readdir, how it serves a directory stream.  Every
   behaviour here is one of the one or of the other, and their states add up. *)
EXTENDS Fallback, Readdir, Functions, TLC

VARIABLE part  \* which of the two takes its steps

MCInit == /\ FallbackInit /\ ReaddirInit
          /\ \/ part = "fallback" /\ dir = Dots
             \/ part = "readdir" /\ nurls = 1 /\ healthy = {}

MCNext == \/ part = "fallback" /\ FallbackNext /\ UNCHANGED <<readdirVars, part>>
          \/ part = "readdir" /\ ReaddirNext /\ UNCHANGED <<fallbackVars, part>>

\* One entry is as long as two.
Sizes == [e \in Entries |-> IF e = 2 THEN 2 ELSE 1]
SumOfSizes == [s \in SUBSET Entries |-> SumFunctionOnSet(Sizes, s)]

\* The threads of Fallback are interchangeable.
Symmetric == Permutations(Callbacks)
=============================================================================
