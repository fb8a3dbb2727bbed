-------------------------------- MODULE Mutex --------------------------------
(* The futex mutex of src/src/code/target-thread.lisp: %TRY-MUTEX,           *)
(* %MUTEX-TIMEDLOCK, the retry loop of MUTEX-WAIT, and RELEASE-MUTEX, in a   *)
(* #+sb-thread #+sb-futex build.  One action per atomic access to the futex  *)
(* word or to %OWNER, so that every interleaving of threads is explored.     *)
(*                                                                           *)
(* FUTEX-WAIT runs with interrupts enabled: an interrupt may wake a sleeper  *)
(* (EINTR) or unwind out of the call (Unwind), in which case the NLX-PROTECT *)
(* cleanup of %MUTEX-TIMEDLOCK runs.                                         *)
EXTENDS Integers

CONSTANTS Threads,      \* the Lisp threads
          NoThread      \* %OWNER when nobody holds the mutex (the code's 0)

ASSUME NoThreadAssumption == NoThread \notin Threads

VARIABLES
  state,                \* (mutex-state mutex): 0 free, 1 taken, 2 contested
  owner,                \* (mutex-%owner mutex)
  pc,                   \* pc[t]: where thread t is in the code
  c,                    \* c[t]: local C of %MUTEX-TIMEDLOCK
  timed                 \* timed[t]: the wait has a timeout or a deadline

vars == <<state, owner, pc, c, timed>>

\* "lock" .. "timedout" are inside %MUTEX-TIMEDLOCK; "unwind" is its cleanup;
\* "won" has CASed the word and not yet set %OWNER; "rel", "zero", "wakeone"
\* are inside RELEASE-MUTEX.
Waiting   == {"lock", "contend", "wait", "asleep", "awake", "recas", "timedout"}
Holding   == {"won", "cs", "rel", "zero"}
Places    == Waiting \cup Holding \cup {"idle", "unwind", "wakeone"}

Asleep    == {t \in Threads : pc[t] = "asleep"}
Goto(t, place) == pc' = [pc EXCEPT ![t] = place]

Init ==
  /\ state = 0
  /\ owner = NoThread
  /\ pc    = [t \in Threads |-> "idle"]
  /\ c     = [t \in Threads |-> 0]
  /\ timed = [t \in Threads |-> FALSE]

------------------------------------------------------------------------------
(* futex_wake(word, 1): the kernel picks any one sleeper, if there is one.   *)

FutexWakeOne(t) ==
  /\ IF Asleep = {}
       THEN Goto(t, "idle")
       ELSE \E s \in Asleep : pc' = [pc EXCEPT ![t] = "idle", ![s] = "awake"]
  /\ UNCHANGED <<state, owner, c, timed>>

------------------------------------------------------------------------------
(* Acquiring.                                                                *)

\* Variant: the word is incremented without comparing it.
TryMutexNoCompare(t) ==
  /\ pc[t] = "idle"
  /\ state' = state + 1
  /\ Goto(t, "won")
  /\ UNCHANGED <<owner, c, timed>>

\* %TRY-MUTEX, the first thing GRAB-MUTEX does.
TryMutex(t) ==
  /\ pc[t] = "idle"
  /\ state = 0
  /\ state' = 1
  /\ Goto(t, "won")
  /\ UNCHANGED <<owner, c, timed>>

\* %TRY-MUTEX failed and WAITP is true: MUTEX-WAIT, timed or not.  (With
\* WAITP NIL, or when the caller owns the mutex, nothing changes.)
MutexWait(t) ==
  /\ pc[t] = "idle"
  /\ state # 0
  /\ \E b \in BOOLEAN : timed' = [timed EXCEPT ![t] = b]
  /\ Goto(t, "lock")
  /\ UNCHANGED <<state, owner, c>>

\* c = cas(val, 0, 1) on entry to %MUTEX-TIMEDLOCK.
Lock(t) ==
  /\ pc[t] = "lock"
  /\ c' = [c EXCEPT ![t] = state]
  /\ IF state = 0
       THEN state' = 1 /\ Goto(t, "won")
       ELSE UNCHANGED state /\ Goto(t, "contend")
  /\ UNCHANGED <<owner, timed>>

\* (when (or (eql c 2) (/= 0 (cas val 1 2))) wait)
Contend(t) ==
  /\ pc[t] = "contend"
  /\ IF c[t] = 2
       THEN UNCHANGED state /\ Goto(t, "wait")
       ELSE /\ state' = IF state = 1 THEN 2 ELSE state
            /\ Goto(t, IF state = 0 THEN "recas" ELSE "wait")
  /\ UNCHANGED <<owner, c, timed>>

\* futex_wait(&val, 2): the kernel compares and queues atomically; otherwise
\* it is EWOULDBLOCK.
FutexWait(t) ==
  /\ pc[t] = "wait"
  /\ Goto(t, IF state = 2 THEN "asleep" ELSE "awake")
  /\ UNCHANGED <<state, owner, c, timed>>

\* Variant: a woken thread takes the word as uncontested.
RecasUncontested(t) ==
  /\ pc[t] \in {"awake", "recas"}
  /\ c' = [c EXCEPT ![t] = state]
  /\ IF state = 0
       THEN state' = 1 /\ Goto(t, "won")
       ELSE UNCHANGED state /\ Goto(t, "contend")
  /\ UNCHANGED <<owner, timed>>

\* c = cas(val, 0, 2)
Recas(t) ==
  /\ pc[t] \in {"awake", "recas"}
  /\ c' = [c EXCEPT ![t] = state]
  /\ IF state = 0
       THEN state' = 2 /\ Goto(t, "won")
       ELSE UNCHANGED state /\ Goto(t, "contend")
  /\ UNCHANGED <<owner, timed>>

\* (setf (mutex-%owner mutex) (current-vmthread-id))
SetOwner(t) ==
  /\ pc[t] = "won"
  /\ owner' = t
  /\ Goto(t, "cs")
  /\ UNCHANGED <<state, c, timed>>

------------------------------------------------------------------------------
(* Leaving FUTEX-WAIT other than by FUTEX-WAKE.                              *)

TimeOut(t) ==
  /\ pc[t] = "asleep"
  /\ timed[t]
  /\ Goto(t, "timedout")
  /\ UNCHANGED <<state, owner, c, timed>>

\* EINTR: the handler returned and the loop goes on.
Interrupted(t) ==
  /\ pc[t] = "asleep"
  /\ Goto(t, "awake")
  /\ UNCHANGED <<state, owner, c, timed>>

\* A handler run inside FUTEX-WAIT's WITH-INTERRUPTS makes a non-local exit:
\* before the system call, in it, or after it, even when it was woken.
Unwind(t) ==
  /\ pc[t] \in {"wait", "asleep", "awake", "timedout"}
  /\ Goto(t, "unwind")
  /\ UNCHANGED <<state, owner, c, timed>>

\* Variant: without the NLX-PROTECT cleanup.
UnwindNoWake(t) ==
  pc[t] = "unwind" /\ Goto(t, "idle") /\ UNCHANGED <<state, owner, c, timed>>

\* The NLX-PROTECT cleanup: wake up another futex.
UnwindWake(t) == pc[t] = "unwind" /\ FutexWakeOne(t)

\* %MUTEX-TIMEDLOCK returns NIL: GRAB-MUTEX returns NIL for a timeout, and for
\* a deadline SIGNAL-DEADLINE unwinds ...
ReturnNil(t) ==
  /\ pc[t] = "timedout"
  /\ Goto(t, "idle")
  /\ UNCHANGED <<state, owner, c, timed>>

\* ... or returns because a handler deferred or cancelled the deadline; the
\* timeout is decoded again and the lock is tried again.
DeadlineDeferred(t) ==
  /\ pc[t] = "timedout"
  /\ \E b \in BOOLEAN : timed' = [timed EXCEPT ![t] = b]
  /\ Goto(t, "lock")
  /\ UNCHANGED <<state, owner, c>>

------------------------------------------------------------------------------
(* Releasing.                                                                *)

\* cas(owner, self, 0).  A thread that is not the owner punts: no change.
Release(t) ==
  /\ pc[t] = "cs"
  /\ owner = t
  /\ owner' = NoThread
  /\ Goto(t, "rel")
  /\ UNCHANGED <<state, c, timed>>

\* Variant: the word is freed before it is stored again.
DecrementToZero(t) ==
  /\ pc[t] = "rel"
  /\ state' = 0
  /\ Goto(t, IF state = 1 THEN "idle" ELSE "zero")
  /\ UNCHANGED <<owner, c, timed>>

\* (eql (atomic-decf state 1) 1): nobody contests.
Decrement(t) ==
  /\ pc[t] = "rel"
  /\ state' = state - 1
  /\ Goto(t, IF state = 1 THEN "idle" ELSE "zero")
  /\ UNCHANGED <<owner, c, timed>>

Zero(t) ==
  /\ pc[t] = "zero"
  /\ state' = 0
  /\ Goto(t, "wakeone")
  /\ UNCHANGED <<owner, c, timed>>

WakeOne(t) == pc[t] = "wakeone" /\ FutexWakeOne(t)

------------------------------------------------------------------------------

\* The steps a running thread takes by itself.
Step(t) ==
  \/ Lock(t) \/ Contend(t) \/ FutexWait(t) \/ Recas(t) \/ SetOwner(t)
  \/ UnwindWake(t) \/ ReturnNil(t) \/ DeadlineDeferred(t)
  \/ Release(t) \/ Decrement(t) \/ Zero(t) \/ WakeOne(t)

\* What the caller, the clock and interrupts do.
Environment(t) ==
  TryMutex(t) \/ MutexWait(t) \/ TimeOut(t) \/ Interrupted(t) \/ Unwind(t)

Next == \E t \in Threads : Step(t) \/ Environment(t)

Safe == Init /\ [][Next]_vars

\* The operating system schedules every runnable thread, and critical
\* sections end.  Nobody is obliged to lock, to time out or to interrupt.
Fairness == \A t \in Threads : WF_vars(Step(t))

Spec == Safe /\ Fairness

------------------------------------------------------------------------------
(* Properties.                                                               *)

\* The values the slots of the mutex struct and the locals take.
TypeOK ==
  /\ state \in 0..2
  /\ owner \in Threads \cup {NoThread}
  /\ pc \in [Threads -> Places]
  /\ c \in [Threads -> 0..2]
  /\ timed \in [Threads -> BOOLEAN]

\* The futex word and the threads agree: it is non-zero exactly while some
\* thread is between winning the CAS and giving the word back.
WordMeansHeld == state # 0 <=> \E t \in Threads : pc[t] \in Holding

AtMostOneHolder ==
  \A t, u \in Threads : pc[t] \in Holding /\ pc[u] \in Holding => t = u

OwnerIsInside == \A t \in Threads : owner = t <=> pc[t] = "cs"

\* GRAB-MUTEX excludes: one thread at a time holds the word, %OWNER names it
\* while (and only while) it runs protected code, and the word is 0 exactly
\* when nobody holds it, although RELEASE-MUTEX gives it up in three steps and
\* waiters CAS it in between.
MutualExclusion == WordMeansHeld /\ AtMostOneHolder /\ OwnerIsInside

\* A thread at one of these places will mark the word contested, take it, or
\* wake a sleeper before it stops.
InFlight == {"contend", "wait", "awake", "recas", "unwind", "zero", "wakeone"}

\* No wakeup is lost: while somebody sleeps in futex_wait, either the word
\* says so (2), and the next RELEASE-MUTEX wakes one, or a thread that will
\* see to it is on its way.  Timeouts, EINTR, barging and unwinding included.
NoStrandedSleeper ==
  Asleep # {} => state = 2 \/ \E t \in Threads : pc[t] \in InFlight

\* The conjunction is inductive.
IInv == TypeOK /\ MutualExclusion /\ NoStrandedSleeper

\* The mutex implements the abstract lock: the holder is the thread that owns
\* the word, and a thread wants the lock while it is in %MUTEX-TIMEDLOCK.
holderOf  == IF \E t \in Threads : pc[t] \in Holding
               THEN CHOOSE t \in Threads : pc[t] \in Holding
               ELSE NoThread
wantingOf == {t \in Threads : pc[t] \in Waiting}

Abstract == INSTANCE AbstractMutex WITH holder <- holderOf, wanting <- wantingOf

\* Refinement with liveness: the futex protocol takes only the steps of the
\* abstract lock, and never leaves it free for ever while a thread wants it.
ImplementsLock == Abstract!Spec
==============================================================================
