------------------------------- MODULE Semaphore -------------------------------
(* %DECREMENT-SEMAPHORE (WAIT-ON-SEMAPHORE, TRY-SEMAPHORE) and SIGNAL-SEMAPHORE *)
(* of src/src/code/target-thread.lisp, over the condition variable of CondVar.  *)
EXTENDS CondVar

CONSTANTS Amounts,      \* the N of waits and signals
          MaxCount,     \* bound: the largest count explored
          Word          \* the number of values of a machine word: 2^64

\* A word can count all threads.
ASSUME SemaphoreAssumption ==
  /\ Amounts \subseteq Nat \ {0}
  /\ MaxCount \in Nat
  /\ Word \in Nat /\ Word > Cardinality(Threads)

VARIABLES
  count,        \* (semaphore-%count semaphore)
  waitcount,    \* (semaphore-waitcount semaphore), a word that wraps around
  need,         \* need[t]: the N of t's wait
  wakes         \* wakes[t]: how many sleepers SIGNAL-SEMAPHORE is to wake

semVars == <<count, waitcount, need, wakes>>
vars    == <<holder, token, pc, kind, count, waitcount, need, wakes>>

Init ==
  /\ CvInit
  /\ count = 0
  /\ waitcount = 0
  /\ need  = [t \in Threads |-> 1]
  /\ wakes = [t \in Threads |-> 0]

\* "uncounted": DECODE-TIMEOUT unwinds, with the mutex.
Places == ClientPlaces \cup WaitPlaces \cup {"enter", "uncounted", "notify", "unlock"}

------------------------------------------------------------------------------
(* WAIT-ON-SEMAPHORE                                                            *)

Begin(t) ==
  /\ pc[t] = "out"
  /\ \E n \in Amounts : need' = [need EXCEPT ![t] = n]
  /\ \E k \in Kinds : kind' = [kind EXCEPT ![t] = k]
  /\ Goto(t, "enter")
  /\ UNCHANGED <<holder, token, count, waitcount, wakes>>

\* WITH-SYSTEM-MUTEX
Enter(t) ==
  /\ pc[t] = "enter" /\ holder = NoThread
  /\ holder' = t
  /\ Goto(t, "in")
  /\ UNCHANGED <<token, kind, semVars>>

\* A deadline or an interrupt unwinds while we wait for the mutex.
EnterUnwound(t) ==
  /\ pc[t] = "enter"
  /\ Done(t)
  /\ UNCHANGED <<holder, token, semVars>>

\* ATOMIC-INCF and ATOMIC-DECF of the word.
Count   == waitcount' = IF waitcount = Word - 1 THEN 0 ELSE waitcount + 1
Uncount == waitcount' = IF waitcount = 0 THEN Word - 1 ELSE waitcount - 1

\* The units are taken, and the mutex is released on the way out.
Succeed(t) ==
  /\ count' = count - need[t]
  /\ holder' = NoThread
  /\ Done(t)
  /\ UNCHANGED <<token, need, wakes>>

\* Variant: the quick check is inside the UNWIND-PROTECT.
QuickCheckInside(t) ==
  /\ pc[t] = "in" /\ count >= need[t]
  /\ Succeed(t)
  /\ Uncount

\* The quick check succeeds, before the UNWIND-PROTECT.
QuickCheck(t) ==
  /\ pc[t] = "in" /\ count >= need[t]
  /\ Succeed(t)
  /\ UNCHANGED waitcount

\* Inside the UNWIND-PROTECT, DECODE-TIMEOUT finds that the deadline is over and
\* signals it, with interrupts enabled, before the wait is counted.  A handler
\* unwinds, or cancels the deadline or defers it.
DeadlineExpired(t) ==
  /\ pc[t] = "in" /\ count < need[t] /\ kind[t] = "expired"
  /\ \/ Goto(t, "uncounted") /\ UNCHANGED kind
     \/ /\ \E k \in {"untimed", "deadline"} : kind' = [kind EXCEPT ![t] = k]
        /\ UNCHANGED pc
  /\ UNCHANGED <<holder, token, semVars>>

\* Count ourselves and wait on the queue.
Block(t) ==
  /\ pc[t] = "in" /\ count < need[t] /\ kind[t] # "expired"
  /\ Count
  /\ StartWait(t)
  /\ UNCHANGED <<kind, count, need, wakes>>

\* %CONDITION-WAIT returned T, but there is not enough yet.
WaitAgain(t) ==
  /\ pc[t] = "back" /\ count < need[t]
  /\ StartWait(t)
  /\ UNCHANGED <<kind, semVars>>

\* Variant: WHEN instead of LOOP UNTIL around %CONDITION-WAIT.
TakeUnchecked(t) ==
  /\ pc[t] = "back"
  /\ Succeed(t)
  /\ Uncount

\* Success after waiting; out through the cleanup.
Take(t) ==
  /\ pc[t] = "back" /\ count >= need[t]
  /\ Succeed(t)
  /\ Uncount

\* %CONDITION-WAIT returned T with no time remaining: give up with the mutex.
NoneRemaining(t) ==
  /\ pc[t] = "back" /\ kind[t] = "timeout"
  /\ Goto(t, "nil")
  /\ UNCHANGED <<holder, token, kind, semVars>>

\* %CONDITION-WAIT returned NIL or unwound, or DECODE-TIMEOUT did: out through
\* the cleanups, which decrement the wait count, whether we are in it or not,
\* and release the mutex if we have it.
Leave(t) ==
  /\ pc[t] \in {"nil", "thrown", "uncounted"}
  /\ Uncount
  /\ holder' = IF holder = t THEN NoThread ELSE holder
  /\ Done(t)
  /\ UNCHANGED <<token, count, need, wakes>>

------------------------------------------------------------------------------
(* SIGNAL-SEMAPHORE                                                             *)

Signal(t) ==
  /\ pc[t] = "out" /\ holder = NoThread
  /\ holder' = t
  /\ \E n \in Amounts :
       /\ count + n <= MaxCount
       /\ count' = count + n
       /\ wakes' = [wakes EXCEPT ![t] = MinOf(waitcount, count')]
  /\ IF waitcount > 0
       THEN token' = NoThread /\ Goto(t, "notify")
       ELSE UNCHANGED token /\ Goto(t, "unlock")
  /\ UNCHANGED <<kind, waitcount, need>>

Notify(t) ==
  /\ pc[t] = "notify"
  /\ FutexWake(t, wakes[t], "unlock")
  /\ UNCHANGED <<holder, token, kind, semVars>>

Unlock(t) ==
  /\ pc[t] = "unlock"
  /\ holder' = NoThread
  /\ Goto(t, "out")
  /\ wakes' = [wakes EXCEPT ![t] = 0]
  /\ UNCHANGED <<token, kind, count, waitcount, need>>

\* Variant: any count will do.
TryPositive(t) ==
  /\ pc[t] = "out" /\ holder = NoThread
  /\ \E n \in Amounts : count > 0 /\ count' = count - n
  /\ UNCHANGED <<cvVars, waitcount, need, wakes>>

\* TRY-SEMAPHORE that succeeds; one that fails changes nothing.
Try(t) ==
  /\ pc[t] = "out" /\ holder = NoThread
  /\ \E n \in Amounts : count >= n /\ count' = count - n
  /\ UNCHANGED <<cvVars, waitcount, need, wakes>>

------------------------------------------------------------------------------

Step(t) ==
  \/ CvStep(t) /\ UNCHANGED semVars
  \/ Enter(t) \/ QuickCheck(t) \/ DeadlineExpired(t) \/ Block(t)
  \/ WaitAgain(t) \/ Take(t) \/ Leave(t) \/ Notify(t) \/ Unlock(t)

Environment(t) ==
  \/ CvEnvironment(t) /\ UNCHANGED semVars
  \/ Begin(t) \/ EnterUnwound(t) \/ NoneRemaining(t) \/ Signal(t) \/ Try(t)

Next == \E t \in Threads : Step(t) \/ Environment(t)

Safe == Init /\ [][Next]_vars

\* Threads inside an operation are scheduled.  Nobody is obliged to wait, to
\* signal, to be interrupted or to run out of time.
Fairness == \A t \in Threads : WF_vars(Step(t))

Spec == Safe /\ Fairness

------------------------------------------------------------------------------
(* Properties.                                                                  *)

TypeOK ==
  /\ holder \in Threads \cup {NoThread}
  /\ token \in Threads \cup {NoThread}
  /\ pc \in [Threads -> Places]
  /\ kind \in [Threads -> KindsOfWait]
  /\ count \in 0..MaxCount
  /\ waitcount \in 0..(Word - 1)
  /\ need \in [Threads -> Amounts \cup {1}]
  /\ wakes \in [Threads -> 0..MaxCount]

\* The mutex is held exactly where the code believes it is: %CONDITION-WAIT
\* returns T only with the mutex and never runs on with a mutex it gave away,
\* through timeouts, deadlines and unwinding ("nil" and "unwind" may be either,
\* as the docstring of CONDITION-WAIT allows for an unwind).
MutexAccounted ==
  \A t \in Threads :
    /\ pc[t] \in {"in", "uncounted", "back", "signalin", "notify", "unlock"} => holder = t
    /\ pc[t] \in {"out", "enter", "cwait", "asleep", "awake", "timedout",
                  "signal", "relock"} => holder # t

\* A thread here will look at the count, or wake a sleeper, before it stops.
InFlight == {t \in Threads :
  \/ pc[t] \in {"in", "back", "awake", "relock", "unwind", "signal", "signalin",
                "timedout", "notify"}
  \/ pc[t] = "cwait" /\ token # t}

\* No wakeup is lost: a wait sleeps on only while the semaphore could not be
\* decremented for it, or while some thread is on its way to see to that.
NoStrandedWaiter ==
  \A t \in Asleep : count >= need[t] => InFlight # {}

\* Every unit of the count has a taker: with waiters of amount 1 there are as
\* many threads on their way as the count has units, or nobody sleeps.
EveryUnitHasATaker ==
  Asleep # {} =>
    \/ \E t \in Threads : pc[t] = "notify"
    \/ Cardinality(InFlight) >= count

\* A signal wakes as many sleepers as its count could serve, or all of them,
\* and one that wakes nobody leaves nobody asleep, although wait counts are
\* dropped outside the mutex by waits that time out or unwind.
SignalReachesSleepers ==
  \A t \in Threads : pc[t] \in {"notify", "unlock"} =>
    wakes[t] >= MinOf(count, Cardinality(Asleep))

waitingNow == {t \in Threads :
                pc[t] \in WaitPlaces \cup {"enter", "in", "back"}}

Abstract == INSTANCE AbstractSemaphore WITH waiting <- waitingNow

\* The implementation, its wait count and token included, is the semaphore of
\* the docstrings, liveness included (as long as no deadline is over when it is
\* decoded).
ImplementsSemaphore == Abstract!Spec

\* Its safety half, which holds for every kind of wait and every amount.
ImplementsSafely == Abstract!Safe
==============================================================================
