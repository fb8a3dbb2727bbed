------------------------------- MODULE Deadlock -------------------------------
(* CHECK-DEADLOCK (src/src/code/target-thread.lisp) and the waiting-for marks *)
(* it reads, among threads that lock and unlock several mutexes.  The walk    *)
(* over the waiting-for graph is not atomic: every read of another thread's   *)
(* slot is a step of its own, and the graph may change in between.            *)
(*                                                                            *)
(* A mutex is taken at the level of AbstractMutex (Mutex implements it), but  *)
(* winning the word and setting %OWNER stay two steps, and so do clearing     *)
(* %OWNER and giving the word back, because the walk reads %OWNER.            *)
EXTENDS Integers, Sequences, FiniteSets

CONSTANTS Threads, Mutexes,
          NoThread, NoMutex,
          Limit,                \* how many locks a walk may visit (10)
          MaxAttempts,          \* bound: acquisitions by all threads together
          MaxInterrupts,        \* bound: threads interrupted while they wait
          UnwindingHandlers     \* whether an interrupt handler may unwind

ASSUME DeadlockAssumption ==
  /\ IsFiniteSet(Threads)
  /\ NoThread \notin Threads /\ NoMutex \notin Mutexes
  /\ Limit \in Nat \ {0} /\ MaxAttempts \in Nat /\ MaxInterrupts \in Nat
  /\ UnwindingHandlers \in BOOLEAN

VARIABLES
  holder,               \* holder[m]: the thread whose CAS on the word of m won
  owner,                \* owner[m]: (mutex-%owner m)
  waitingFor,           \* waitingFor[t]: (thread-waiting-for t)
  deadlockLock,         \* **DEADLOCK-LOCK**, a spin lock
  pc,
  want,                 \* want[t]: the mutex t is acquiring or releasing
  timed,                \* timed[t]: that acquisition has a timeout or deadline
  path,                 \* path[t]: the frames of DETECT-DEADLOCK
  depth,                \* depth[t]: the frame being rechecked on the way back
  saved,                \* saved[t]: the mark hidden while t runs a handler
  attempts,             \* bound: acquisitions so far
  interrupted           \* bound: the threads interrupted so far

marks   == <<waitingFor, saved>>
walks   == <<path, depth>>
bounds  == <<attempts, interrupted>>
words   == <<holder, owner>>
vars    == <<holder, owner, waitingFor, deadlockLock, pc, want, timed, path,
             depth, saved, attempts, interrupted>>

\* A mark is a mutex, or a cons of a timeout and a mutex, or NIL.
NoMark       == [lock |-> NoMutex, timeout |-> FALSE]
Mark(m, b)   == [lock |-> m, timeout |-> b]
Marks        == [lock : Mutexes, timeout : BOOLEAN] \cup {NoMark}
MutexP(mark) == mark # NoMark /\ ~mark.timeout

Checking == {"readowner", "readmark", "base", "reowner", "remark", "condemned",
             "disclaimed", "endcheck"}
Places   == Checking \cup {"run", "tried", "acquire", "won", "unmark", "rel",
                           "reporting"}
Frames   == [other : Threads, lock : Mutexes \cup {NoMutex}]

Running(t)     == saved[t] = NoMark
At(t, place)   == pc[t] = place /\ Running(t)
Goto(t, place) == pc' = [pc EXCEPT ![t] = place]
SetMark(t, mark) == waitingFor' = [waitingFor EXCEPT ![t] = mark]

\* The operation under way returns or unwinds, and its locals are gone.
Return(t) ==
  /\ Goto(t, "run")
  /\ want'  = [want EXCEPT ![t] = NoMutex]
  /\ timed' = [timed EXCEPT ![t] = FALSE]
  /\ path'  = [path EXCEPT ![t] = <<>>]
  /\ depth' = [depth EXCEPT ![t] = 0]

Init ==
  /\ holder = [m \in Mutexes |-> NoThread]
  /\ owner  = [m \in Mutexes |-> NoThread]
  /\ waitingFor = [t \in Threads |-> NoMark]
  /\ deadlockLock = NoThread
  /\ pc    = [t \in Threads |-> "run"]
  /\ want  = [t \in Threads |-> NoMutex]
  /\ timed = [t \in Threads |-> FALSE]
  /\ path  = [t \in Threads |-> <<>>]
  /\ depth = [t \in Threads |-> 0]
  /\ saved = [t \in Threads |-> NoMark]
  /\ attempts = 0
  /\ interrupted = {}

------------------------------------------------------------------------------
(* Acquiring and releasing.                                                   *)

\* %TRY-MUTEX; a thread that owns m gets an error and changes nothing.
TryMutex(t, m) ==
  /\ At(t, "run") /\ owner[m] # t
  /\ attempts < MaxAttempts /\ attempts' = attempts + 1
  /\ want' = [want EXCEPT ![t] = m]
  /\ IF holder[m] = NoThread
       THEN holder' = [holder EXCEPT ![m] = t] /\ Goto(t, "won")
       ELSE UNCHANGED holder /\ Goto(t, "tried")
  /\ UNCHANGED <<owner, marks, deadlockLock, timed, walks, interrupted>>

\* Variant: the thread does not say what it waits for.
SetWaitingForUnmarked(t) ==
  /\ At(t, "tried")
  /\ Goto(t, "readowner")
  /\ UNCHANGED <<words, marks, deadlockLock, want, timed, walks, bounds>>

\* WITH-DEADLOCKS marks the thread; a timeout means there is no deadlock.
SetWaitingFor(t) ==
  /\ At(t, "tried")
  /\ \E b \in BOOLEAN :
       /\ timed' = [timed EXCEPT ![t] = b]
       /\ SetMark(t, Mark(want[t], b))
       /\ Goto(t, IF b THEN "acquire" ELSE "readowner")
  /\ UNCHANGED <<words, deadlockLock, want, walks, saved, bounds>>

\* %MUTEX-TIMEDLOCK wins the word ...
Acquire(t) ==
  /\ At(t, "acquire")
  /\ holder[want[t]] = NoThread
  /\ holder' = [holder EXCEPT ![want[t]] = t]
  /\ Goto(t, "won")
  /\ UNCHANGED <<owner, marks, deadlockLock, want, timed, walks, bounds>>

\* ... and then becomes the owner;
SetOwner(t) ==
  /\ At(t, "won")
  /\ owner' = [owner EXCEPT ![want[t]] = t]
  /\ IF waitingFor[t] = NoMark
       THEN Return(t)
       ELSE Goto(t, "unmark") /\ UNCHANGED <<want, timed, walks>>
  /\ UNCHANGED <<holder, marks, deadlockLock, bounds>>

\* only now does the cleanup of WITH-DEADLOCKS take the mark away.
ClearWaitingFor(t) ==
  /\ At(t, "unmark")
  /\ SetMark(t, NoMark)
  /\ Return(t)
  /\ UNCHANGED <<words, deadlockLock, saved, bounds>>

TimeOut(t) ==
  /\ At(t, "acquire") /\ timed[t]
  /\ SetMark(t, NoMark)
  /\ Return(t)
  /\ UNCHANGED <<words, deadlockLock, saved, bounds>>

ReleaseOwner(t, m) ==
  /\ At(t, "run") /\ owner[m] = t
  /\ owner' = [owner EXCEPT ![m] = NoThread]
  /\ want' = [want EXCEPT ![t] = m]
  /\ Goto(t, "rel")
  /\ UNCHANGED <<holder, marks, deadlockLock, timed, walks, bounds>>

ReleaseWord(t) ==
  /\ At(t, "rel")
  /\ holder' = [holder EXCEPT ![want[t]] = NoThread]
  /\ Return(t)
  /\ UNCHANGED <<owner, marks, deadlockLock, bounds>>

------------------------------------------------------------------------------
(* DETECT-DEADLOCK, down the chain.                                           *)

\* The lock the i-th frame is about; its mark is the lock of the next frame.
LockAt(t, i) == IF i = 1 THEN want[t] ELSE path[t][i - 1].lock
InnerLock(t) == LockAt(t, Len(path[t]) + 1)

\* There is no chain: wait for the mutex.
NoChain(t) ==
  /\ path'  = [path EXCEPT ![t] = <<>>]
  /\ depth' = [depth EXCEPT ![t] = 0]
  /\ Goto(t, "acquire")

\* Variant: without the limit.
ReadOwnerUnlimited(t) ==
  /\ At(t, "readowner")
  /\ LET other == owner[InnerLock(t)]
     IN  IF other \in {NoThread, t}
           THEN NoChain(t)
           ELSE /\ path' = [path EXCEPT ![t] =
                              Append(@, [other |-> other, lock |-> NoMutex])]
                /\ Goto(t, "readmark")
                /\ UNCHANGED depth
  /\ UNCHANGED <<words, marks, deadlockLock, want, timed, bounds>>

\* Read the owner of the innermost lock.
ReadOwner(t) ==
  /\ At(t, "readowner")
  /\ LET other == owner[InnerLock(t)]
     IN  IF Len(path[t]) = Limit \/ other = NoThread
           THEN NoChain(t)
         ELSE IF other = t
           THEN Goto(t, "base") /\ UNCHANGED walks
         ELSE /\ path' = [path EXCEPT ![t] =
                            Append(@, [other |-> other, lock |-> NoMutex])]
              /\ Goto(t, "readmark")
              /\ UNCHANGED depth
  /\ UNCHANGED <<words, marks, deadlockLock, want, timed, bounds>>

\* Read what that owner waits for, and go on if it is a mutex.
ReadMark(t) ==
  /\ At(t, "readmark")
  /\ LET n    == Len(path[t])
         mark == waitingFor[path[t][n].other]
     IN  IF MutexP(mark)
           THEN /\ path' = [path EXCEPT ![t][n].lock = mark.lock]
                /\ Goto(t, "readowner")
                /\ UNCHANGED depth
           ELSE NoChain(t)
  /\ UNCHANGED <<words, marks, deadlockLock, want, timed, bounds>>

\* Variant: without **DEADLOCK-LOCK**.
GrabNoLock(t) ==
  /\ At(t, "base")
  /\ depth' = [depth EXCEPT ![t] = Len(path[t])]
  /\ Goto(t, "reowner")
  /\ UNCHANGED <<words, marks, deadlockLock, want, timed, path, bounds>>

\* The innermost lock is our own: serialise with other reporters.
GrabDeadlockLock(t) ==
  /\ At(t, "base")
  /\ deadlockLock \in {NoThread, t}
  /\ deadlockLock' = t
  /\ depth' = [depth EXCEPT ![t] = Len(path[t])]
  /\ Goto(t, "reowner")
  /\ UNCHANGED <<words, marks, want, timed, path, bounds>>

------------------------------------------------------------------------------
(* DETECT-DEADLOCK, back up the chain.                                        *)

\* "Recheck that the mutex is still owned by the same thread."
RecheckOwner(t) ==
  /\ At(t, "reowner")
  /\ Goto(t, IF owner[LockAt(t, depth[t])] = path[t][depth[t]].other
               THEN "remark" ELSE "endcheck")
  /\ UNCHANGED <<words, marks, deadlockLock, want, timed, walks, bounds>>

\* Variant: the mark is not looked at again.
RecheckMarkNot(t) ==
  /\ At(t, "remark")
  /\ depth' = [depth EXCEPT ![t] = @ - 1]
  /\ Goto(t, IF depth[t] = 1 THEN "condemned" ELSE "reowner")
  /\ UNCHANGED <<words, marks, deadlockLock, want, timed, path, bounds>>

\* "See if it hasn't been set to NIL above by another thread."
RecheckMark(t) ==
  /\ At(t, "remark")
  /\ LET frame == path[t][depth[t]]
     IN  IF waitingFor[frame.other] = Mark(frame.lock, FALSE)
           THEN /\ depth' = [depth EXCEPT ![t] = @ - 1]
                /\ Goto(t, IF depth[t] = 1 THEN "condemned" ELSE "reowner")
           ELSE UNCHANGED depth /\ Goto(t, "endcheck")
  /\ UNCHANGED <<words, marks, deadlockLock, want, timed, path, bounds>>

\* There is a chain: no longer waiting, ...
Disclaim(t) ==
  /\ At(t, "condemned")
  /\ SetMark(t, NoMark)
  /\ Goto(t, "disclaimed")
  /\ UNCHANGED <<words, deadlockLock, want, timed, walks, saved, bounds>>

\* ... let the others report, and signal THREAD-DEADLOCK.
SignalDeadlock(t) ==
  /\ At(t, "disclaimed")
  /\ deadlockLock' = NoThread
  /\ Goto(t, "reporting")
  /\ UNCHANGED <<words, marks, want, timed, walks, bounds>>

\* A handler of THREAD-DEADLOCK transfers control out of the acquisition.
Handled(t) ==
  /\ At(t, "reporting")
  /\ Return(t)
  /\ UNCHANGED <<words, marks, deadlockLock, bounds>>

\* The chain did not survive the rechecks.
EndCheck(t) ==
  /\ At(t, "endcheck")
  /\ deadlockLock' = NoThread
  /\ NoChain(t)
  /\ UNCHANGED <<words, marks, want, timed, bounds>>

------------------------------------------------------------------------------
(* Interrupts, which DEADLOCK-AWARE-MUTEX-WAIT enables around CHECK-DEADLOCK  *)
(* and FUTEX-WAIT around the system call.                                     *)

Interruptible(t) ==
  /\ Running(t) /\ pc[t] \in Checking \cup {"acquire"}
  /\ t \notin interrupted /\ Cardinality(interrupted) < MaxInterrupts
  /\ interrupted' = interrupted \cup {t}

\* WITHOUT-THREAD-WAITING-FOR hides the mark while the handler runs ...
EnterHandler(t) ==
  /\ Interruptible(t) /\ waitingFor[t] # NoMark
  /\ saved' = [saved EXCEPT ![t] = waitingFor[t]]
  /\ SetMark(t, NoMark)
  /\ UNCHANGED <<words, deadlockLock, pc, want, timed, walks, attempts>>

\* ... and puts it back, unless it is a cons.
LeaveHandler(t) ==
  /\ ~Running(t)
  /\ IF MutexP(saved[t]) THEN SetMark(t, saved[t]) ELSE UNCHANGED waitingFor
  /\ saved' = [saved EXCEPT ![t] = NoMark]
  /\ UNCHANGED <<words, deadlockLock, pc, want, timed, walks, bounds>>

\* A handler makes a non-local exit: the cleanup of WITH-DEADLOCKS takes the
\* mark away.  CHECK-DEADLOCK has no cleanup of its own.
Unwind(t) ==
  /\ UnwindingHandlers
  /\ Interruptible(t)
  /\ SetMark(t, NoMark)
  /\ Return(t)
  /\ UNCHANGED <<words, deadlockLock, saved, attempts>>


------------------------------------------------------------------------------

\* One iteration of an acquisition, a check or a release under way.
Step(t) ==
  \/ SetWaitingFor(t) \/ Acquire(t) \/ SetOwner(t) \/ ClearWaitingFor(t)
  \/ ReleaseWord(t)
  \/ ReadOwner(t) \/ ReadMark(t) \/ GrabDeadlockLock(t)
  \/ RecheckOwner(t) \/ RecheckMark(t) \/ Disclaim(t) \/ SignalDeadlock(t)
  \/ EndCheck(t) \/ LeaveHandler(t)

Environment(t) ==
  \/ \E m \in Mutexes : TryMutex(t, m) \/ ReleaseOwner(t, m)
  \/ TimeOut(t) \/ Handled(t) \/ EnterHandler(t) \/ Unwind(t)

Next == \E t \in Threads : Step(t) \/ Environment(t)

Safe == Init /\ [][Next]_vars

\* Every thread that can run is scheduled; that is all a spin lock gets.
Fairness == \A t \in Threads : WF_vars(Step(t))

Spec == Safe /\ Fairness

------------------------------------------------------------------------------
(* Properties.                                                                *)

TypeOK ==
  /\ holder \in [Mutexes -> Threads \cup {NoThread}]
  /\ owner \in [Mutexes -> Threads \cup {NoThread}]
  /\ waitingFor \in [Threads -> Marks]
  /\ deadlockLock \in Threads \cup {NoThread}
  /\ pc \in [Threads -> Places]
  /\ want \in [Threads -> Mutexes \cup {NoMutex}]
  /\ timed \in [Threads -> BOOLEAN]
  /\ path \in [Threads -> Seq(Frames)]
  /\ \A t \in Threads : Len(path[t]) <= Limit
  /\ depth \in [Threads -> 0..Limit]
  /\ saved \in [Threads -> Marks]
  /\ attempts \in 0..MaxAttempts
  /\ interrupted \subseteq Threads

\* t is inside an untimed acquisition that somebody else's release must end.
Blocked(t, S) ==
  /\ pc[t] \in Checking \cup {"acquire"} /\ ~timed[t]
  /\ holder[want[t]] \in S

\* A set of threads each waiting for a member.
Deadlocked(S) == S # {} /\ \A t \in S : Blocked(t, S)

\* CHECK-DEADLOCK "signals an error if owner of LOCK is waiting on a lock whose
\* release depends on the current thread": a thread committed to signalling is
\* on a cycle of blocked threads.
NoFalseAlarm ==
  \A t \in Threads : pc[t] = "condemned" =>
    \E S \in SUBSET Threads : t \in S /\ Deadlocked(S)

\* What a report does mean: some thread sleeps until the reporter releases a
\* mutex (or that thread was interrupted), so that signalling helps somebody.
ReporterIsWaitedFor ==
  \A t \in Threads : pc[t] = "condemned" =>
    LET last == path[t][Len(path[t])].other
    IN  Blocked(last, {t}) \/ last \in interrupted

\* "A single deadlock is reported in only one thread": who is about to signal
\* has nobody on its chain who handles a report already.  (The converse may
\* happen: a thread on the chain of a report is interrupted, leaves, closes
\* another cycle and reports that one.)
OneReporter ==
  \A t \in Threads : pc[t] = "disclaimed" =>
    \A i \in 1..Len(path[t]) : pc[path[t][i].other] # "reporting"

\* Every deadlock is detected: when all threads of a cycle sleep, their checks
\* done, there is nobody left to report it.
Silent(S) == Deadlocked(S) /\ \A t \in S : pc[t] = "acquire"
NoSilentDeadlock == \A S \in SUBSET Threads : ~Silent(S)

\* The one way to miss a deadlock of no more threads than a walk may visit is
\* an interrupt that hid a thread's mark.
DeadlockReportedUnlessHidden ==
  \A S \in SUBSET Threads :
    Silent(S) /\ Cardinality(S) <= Limit => S \cap interrupted # {}

\* CHECK-DEADLOCK returns or signals.
CheckTerminates ==
  \A t \in Threads : pc[t] \in Checking ~> pc[t] \notin Checking
==============================================================================
