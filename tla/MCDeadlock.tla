------------------------------ MODULE MCDeadlock ------------------------------
(* Model-checking instance of Deadlock.                                       *)
EXTENDS Deadlock, TLC

\* Threads and mutexes are interchangeable in every safety property.
Symmetry == Permutations(Threads) \cup Permutations(Mutexes)
==============================================================================
