----------------------------- MODULE MCSemaphore -----------------------------
(* Model-checking instance of Semaphore.                                      *)
EXTENDS Semaphore, TLC

\* Threads are interchangeable in the safety properties.
Symmetry == Permutations(Threads)
==============================================================================
