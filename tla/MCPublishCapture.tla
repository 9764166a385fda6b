-------------------------- MODULE MCPublishCapture --------------------------
(* Model-checking instances of PublishCapture.                              *)
EXTENDS PublishCapture, TLC

\* Threads are interchangeable.
ThreadSymmetry == Permutations(Threads)
=============================================================================
