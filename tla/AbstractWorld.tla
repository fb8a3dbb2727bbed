----------------------------- MODULE AbstractWorld -----------------------------
(* What stop-the-world promises: threads touch the heap together, a collector  *)
(* alone.                                                                      *)
CONSTANTS Threads, NoThread, Main

VARIABLES mutators,   \* the threads that may touch the heap
          collector   \* the thread that collects, or NoThread

vars == <<mutators, collector>>

Init ==
  /\ mutators = {Main}
  /\ collector = NoThread

\* A thread becomes a Lisp thread, or goes on after a collection.
Start(t) ==
  /\ collector = NoThread
  /\ t \notin mutators
  /\ mutators' = mutators \cup {t}
  /\ UNCHANGED collector

\* A thread stops for a collection, or ends.
Stop(t) ==
  /\ t \in mutators \ {collector}
  /\ mutators' = mutators \ {t}
  /\ UNCHANGED collector

Collect(t) ==
  /\ collector = NoThread
  /\ mutators = {t}
  /\ collector' = t
  /\ UNCHANGED mutators

Finish(t) ==
  /\ collector = t
  /\ collector' = NoThread
  /\ UNCHANGED mutators

Next == \E t \in Threads : Start(t) \/ Stop(t) \/ Collect(t) \/ Finish(t)

Spec == Init /\ [][Next]_vars
==============================================================================
