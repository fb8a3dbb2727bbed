--------------------------- MODULE AbstractSemaphore ---------------------------
(* What the docstrings of WAIT-ON-SEMAPHORE and SIGNAL-SEMAPHORE promise        *)
(* (src/src/code/target-thread.lisp): the count never goes below zero, a wait   *)
(* either takes its amount at once or blocks, and it does not stay blocked      *)
(* while the count would do.  Semaphore is checked against it.                  *)
EXTENDS Integers

CONSTANTS Threads, Amounts

VARIABLES count,        \* (semaphore-count semaphore)
          waiting,      \* the threads in WAIT-ON-SEMAPHORE
          need          \* need[t]: the N of that call

vars == <<count, waiting, need>>

Init == count = 0 /\ waiting = {} /\ need = [t \in Threads |-> 1]

Begin(t) ==
  /\ t \notin waiting
  /\ waiting' = waiting \cup {t}
  /\ \E n \in Amounts : need' = [need EXCEPT ![t] = n]
  /\ UNCHANGED count

\* WAIT-ON-SEMAPHORE returns the new count.
Take(t) ==
  /\ t \in waiting /\ count >= need[t]
  /\ count' = count - need[t]
  /\ waiting' = waiting \ {t}
  /\ UNCHANGED need

\* It returns NIL for a timeout, or unwinds; the count is untouched.
GiveUp(t) ==
  /\ t \in waiting
  /\ waiting' = waiting \ {t}
  /\ UNCHANGED <<count, need>>

\* SIGNAL-SEMAPHORE
Signal == \E n \in Amounts : count' = count + n /\ UNCHANGED <<waiting, need>>

\* TRY-SEMAPHORE
Try == \E n \in Amounts :
  /\ count >= n
  /\ count' = count - n
  /\ UNCHANGED <<waiting, need>>

Next == Signal \/ Try \/ \E t \in Threads : Begin(t) \/ Take(t) \/ GiveUp(t)

Safe == Init /\ [][Next]_vars

\* A waiter's amount is there, and the semaphore does something about it.
Resolve ==
  /\ \E t \in waiting : count >= need[t]
  /\ Try \/ \E t \in waiting : Take(t) \/ GiveUp(t)

\* A count that would do for a waiter does not lie there for ever with nobody
\* moving: a wait takes it or is given up, or a TRY-SEMAPHORE was faster.
\* (The mutex inside is not a fair lock: no particular thread is promised
\* anything.)
Spec == Safe /\ WF_vars(Resolve)
==============================================================================
