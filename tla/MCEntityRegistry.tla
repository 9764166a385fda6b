-------------------------- MODULE MCEntityRegistry --------------------------
(* Model-checking instances of EntityRegistry.                              *)
EXTENDS EntityRegistry, TLC

\* Threads are interchangeable, and so are addresses.
Symmetry == Permutations(Threads) \cup Permutations(Addresses)
=============================================================================
