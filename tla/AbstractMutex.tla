---------------------------- MODULE AbstractMutex ----------------------------
(* What GRAB-MUTEX and RELEASE-MUTEX (src/src/code/target-thread.lisp)       *)
(* promise their callers, with no futex word in sight: a lock with at most   *)
(* one holder, threads that want it, and no thread left wanting a free lock. *)
(* Mutex.tla is shown to implement this specification, and the modules that  *)
(* use mutexes (Deadlock, CondVar) take a mutex to be this lock.             *)
CONSTANTS Threads,      \* the Lisp threads
          NoThread      \* "nobody": no element of Threads

VARIABLES holder,       \* the thread inside the lock, or NoThread
          wanting       \* the threads inside a blocking GRAB-MUTEX

vars == <<holder, wanting>>

Init == holder = NoThread /\ wanting = {}

\* A blocking GRAB-MUTEX starts to wait.
Want(t) ==
  /\ t \notin wanting
  /\ wanting' = wanting \cup {t}
  /\ UNCHANGED holder

\* GRAB-MUTEX returns true; %TRY-MUTEX does so without ever having waited.
Grab(t) ==
  /\ holder = NoThread
  /\ holder' = t
  /\ wanting' = wanting \ {t}

\* GRAB-MUTEX returns NIL on a timeout, or unwinds.
GiveUp(t) ==
  /\ t \in wanting
  /\ wanting' = wanting \ {t}
  /\ UNCHANGED holder

Drop(t) ==
  /\ holder = t
  /\ holder' = NoThread
  /\ UNCHANGED wanting

Next == \E t \in Threads : Want(t) \/ Grab(t) \/ GiveUp(t) \/ Drop(t)

GrabByWaiter == \E t \in wanting : Grab(t)

Safe == Init /\ [][Next]_vars

\* The lock is not left free for ever while somebody wants it.
Spec == Safe /\ WF_vars(GrabByWaiter)
==============================================================================
