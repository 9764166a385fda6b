--------------------------- MODULE MCHookChannel ----------------------------
(* Model-checking instances of HookChannel.                                 *)
EXTENDS HookChannel, TLC

\* Threads are interchangeable, and so are events: no property names or orders
\* either.  (Not used with liveness.)
Symmetry == Permutations(Threads) \cup Permutations(Events)
=============================================================================
