-------------------------------- MODULE CondVar --------------------------------
(* %CONDITION-WAIT and CONDITION-NOTIFY (src/src/code/target-thread.lisp) on   *)
(* one waitqueue and its mutex, in a futex build.  This module has the steps;  *)
(* a client (Semaphore) says when they are taken.                              *)
(*                                                                             *)
(* The mutex is the abstract lock that Mutex implements: holder.  What happens *)
(* between two accesses to shared state under the mutex is one step.           *)
EXTENDS Integers, FiniteSets

CONSTANTS Threads,
          NoThread,     \* nobody; also the token 0 that CONDITION-NOTIFY stores
          Kinds         \* the waits explored: see KindsOfWait

\* A wait has no time limit, a TIMEOUT argument, or a WITH-DEADLINE around it;
\* "expired" is a deadline that is over when the client decodes it, before the
\* wait: %CONDITION-WAIT never sees one.
KindsOfWait == {"untimed", "timeout", "deadline", "expired"}

ASSUME CondVarAssumption ==
  /\ IsFiniteSet(Threads)
  /\ NoThread \notin Threads
  /\ Kinds \subseteq KindsOfWait

VARIABLES
  holder,       \* the thread inside the mutex
  token,        \* (waitqueue-token queue): the last thread to wait, or 0
  pc,
  kind          \* kind[t]: the wait of t is untimed, has a timeout, a deadline

cvVars == <<holder, token, pc, kind>>

\* Inside the client: "out" has not entered, "in" holds the mutex.
\* "back" %CONDITION-WAIT returned T; "nil" it returned NIL; "thrown" it unwound.
ClientPlaces == {"out", "in", "back", "nil", "thrown"}
WaitPlaces   == {"cwait", "asleep", "awake", "timedout", "signal", "signalin",
                 "relock", "unwind"}

Asleep         == {t \in Threads : pc[t] = "asleep"}
Goto(t, place) == pc' = [pc EXCEPT ![t] = place]

\* The locals of a call that is over.
Done(t) ==
  /\ Goto(t, "out")
  /\ kind' = [kind EXCEPT ![t] = "untimed"]

CvInit ==
  /\ holder = NoThread
  /\ token = NoThread
  /\ pc    = [t \in Threads |-> "out"]
  /\ kind  = [t \in Threads |-> "untimed"]

MinOf(a, b) == IF a <= b THEN a ELSE b

\* futex_wake(token, n) by t, which goes on at place: the kernel wakes any n
\* sleepers, or all if there are fewer.
FutexWake(t, n, place) ==
  \E woken \in SUBSET Asleep :
    /\ Cardinality(woken) = MinOf(n, Cardinality(Asleep))
    /\ pc' = [s \in Threads |-> IF s = t THEN place
                                ELSE IF s \in woken THEN "awake" ELSE pc[s]]

------------------------------------------------------------------------------
(* Going to sleep.                                                             *)

\* Store our thread ID in the token and release the mutex.
StartWait(t) ==
  /\ holder = t
  /\ token' = t
  /\ holder' = NoThread
  /\ Goto(t, "cwait")

\* Variant: sleep without comparing the token.
FutexWaitNoCompare(t) ==
  /\ pc[t] = "cwait"
  /\ Goto(t, "asleep")
  /\ UNCHANGED <<holder, token, kind>>

\* futex_wait(token, me): sleep unless another waiter or a notifier has
\* changed the token since.
FutexWait(t) ==
  /\ pc[t] = "cwait"
  /\ Goto(t, IF token = t THEN "asleep" ELSE "awake")
  /\ UNCHANGED <<holder, token, kind>>

\* ETIMEDOUT
TimeOut(t) ==
  /\ pc[t] = "asleep" /\ kind[t] # "untimed"
  /\ Goto(t, "timedout")
  /\ UNCHANGED <<holder, token, kind>>

\* EINTR, and the handler returned: a spurious wakeup.
Interrupted(t) ==
  /\ pc[t] = "asleep"
  /\ Goto(t, "awake")
  /\ UNCHANGED <<holder, token, kind>>

\* A handler unwinds where interrupts are allowed: in FUTEX-WAIT, while waiting
\* for the mutex, and in SIGNAL-DEADLINE (whose error may unwind as well).
Unwind(t) ==
  /\ pc[t] \in {"cwait", "asleep", "awake", "relock", "signal", "signalin"}
  /\ Goto(t, "unwind")
  /\ UNCHANGED <<holder, token, kind>>

\* Variant: without the cleanup.
UnwindNoWake(t) ==
  /\ pc[t] = "unwind"
  /\ Goto(t, "thrown")
  /\ UNCHANGED <<holder, token, kind>>

\* The cleanup of NLX-PROTECT-FUTEX wakes up another sleeper.
UnwindWake(t) ==
  /\ pc[t] = "unwind"
  /\ FutexWake(t, 1, "thrown")
  /\ UNCHANGED <<holder, token, kind>>

------------------------------------------------------------------------------
(* After the sleep.                                                            *)

\* Status :OK, and time is left or none was set: take the mutex again.
StillTime(t) ==
  /\ pc[t] = "awake"
  /\ Goto(t, "relock")
  /\ UNCHANGED <<holder, token, kind>>

\* Status :OK, but RELATIVE-DECODED-TIMES says zero: status :TIMEOUT.
NoTimeLeft(t) ==
  /\ pc[t] = "awake" /\ kind[t] # "untimed"
  /\ Goto(t, "timedout")
  /\ UNCHANGED <<holder, token, kind>>

\* Status :TIMEOUT without a deadline: return NIL without the mutex.
ReturnNil(t) ==
  /\ pc[t] = "timedout" /\ kind[t] = "timeout"
  /\ Goto(t, "nil")
  /\ UNCHANGED <<holder, token, kind>>

\* Status :TIMEOUT with a deadline: try the mutex before signalling.
TryBeforeSignal(t) ==
  /\ pc[t] = "timedout" /\ kind[t] = "deadline"
  /\ IF holder = NoThread
       THEN holder' = t /\ Goto(t, "signalin")
       ELSE UNCHANGED holder /\ Goto(t, "signal")
  /\ UNCHANGED <<token, kind>>

\* SIGNAL-DEADLINE returns: a handler deferred or cancelled the deadline.  The
\* timeout decoded anew serves to get the mutex only: a caller that waits again
\* passes the deadline it decoded first.  With the mutex got, the RETURN-FROM
\* leaves the body of WITHOUT-INTERRUPTS, a function of its own, by a non-local
\* exit, so that the cleanup of NLX-PROTECT-FUTEX wakes a sleeper here as well.
DeadlineDeferred(t) ==
  /\ \/ pc[t] = "signalin" /\ FutexWake(t, 1, "back")
     \/ pc[t] = "signal" /\ Goto(t, "relock")
  /\ UNCHANGED <<holder, token, kind>>

\* The mutex is ours again: return T.
Relock(t) ==
  /\ pc[t] = "relock" /\ holder = NoThread
  /\ holder' = t
  /\ Goto(t, "back")
  /\ UNCHANGED <<token, kind>>

\* Variant: T is returned although the mutex was not to be had.
RelockTimeOutTrue(t) ==
  /\ pc[t] = "relock" /\ kind[t] = "timeout"
  /\ Goto(t, "back")
  /\ UNCHANGED <<holder, token, kind>>

\* The mutex was not to be had in time; a deadline is signalled inside
\* GRAB-MUTEX and unwinds (Unwind) or is deferred (no change).
RelockTimeOut(t) ==
  /\ pc[t] = "relock" /\ kind[t] = "timeout"
  /\ Goto(t, "nil")
  /\ UNCHANGED <<holder, token, kind>>

------------------------------------------------------------------------------
(* CONDITION-NOTIFY: clear the token, then wake n.                             *)

ClearToken(t) ==
  /\ holder = t
  /\ token' = NoThread

CvStep(t) ==
  \/ FutexWait(t) \/ UnwindWake(t) \/ StillTime(t) \/ ReturnNil(t)
  \/ TryBeforeSignal(t) \/ DeadlineDeferred(t) \/ Relock(t)

CvEnvironment(t) ==
  TimeOut(t) \/ Interrupted(t) \/ Unwind(t) \/ NoTimeLeft(t) \/ RelockTimeOut(t)
==============================================================================
