------------------------------ MODULE StopTheWorld ------------------------------
(* Stopping the world (src/src/runtime/stop-the-world.c) while threads come    *)
(* and go (thread.c), in a build that stops threads with SIG_STOP_FOR_GC.      *)
(*                                                                             *)
(* What a thread defers a stop signal for is in Deferral; here it is one       *)
(* place, "nogc".  What is done under a thread's state_sem is one step.        *)
EXTENDS Integers, FiniteSets

CONSTANTS Threads, NoThread, Main

ASSUME StopTheWorldAssumption ==
  /\ Main \in Threads
  /\ NoThread \notin Threads

VARIABLES
  pc,
  linked,     \* all_threads
  listLock,   \* the owner of all_threads_lock
  gcLock,     \* the owner of in_gc_lock
  state,      \* the state word: "RUNNING", "STOPPED", "DEAD"
  sig,        \* SIG_STOP_FOR_GC is sent to the thread and not delivered
  pending,    \* *STOP-FOR-GC-PENDING*
  notRunning, \* the semaphore and the count of those who wait until a thread is
  notStopped, \* not running, and not stopped: see Semaphores
  todo,       \* what is left of the collector's loop over all_threads
  whom        \* the thread that the collector waits for

vars == <<pc, linked, listLock, gcLock, state, sig, pending, notRunning,
          notStopped, todo, whom>>

Semaphores == [sem : Nat, waitcount : Nat]

\* Not a Lisp thread: not created, finished, or a C thread outside of Lisp.
Outside   == {"foreign", "enter"}
\* Inside WITHOUT-GCING; from "gc" on, in SUB-GC.
Collector == {"take", "signal", "await", "sleep", "collect", "start", "unlock"}
Inhibited == {"nogc", "gc", "drop"} \cup Collector
\* In the handler of the stop signal.
Handler   == {"stopping", "stopped", "asleep"}
\* In unregister_thread, with signals blocked.
Exiting   == {"exit", "dead", "clear"}
Places    == {"lisp", "leave", "lost"} \cup Outside \cup Inhibited \cup Handler
             \cup Exiting

Goto(t, place) == pc' = [pc EXCEPT ![t] = place]

Init ==
  /\ pc = [t \in Threads |-> IF t = Main THEN "lisp" ELSE "foreign"]
  /\ linked = {Main}
  /\ listLock = NoThread
  /\ gcLock = NoThread
  /\ state = [t \in Threads |-> "RUNNING"]
  /\ sig = [t \in Threads |-> FALSE]
  /\ pending = [t \in Threads |-> FALSE]
  /\ notRunning = [t \in Threads |-> [sem |-> 0, waitcount |-> 0]]
  /\ notStopped = [t \in Threads |-> [sem |-> 0, waitcount |-> 0]]
  /\ todo = {}
  /\ whom = NoThread

------------------------------------------------------------------------------
(* The state word and its semaphores.                                          *)

\* Variant: the waiters stay counted.
WakeNoReset(s) == [sem |-> s.sem + s.waitcount, waitcount |-> s.waitcount]

Wake(s) == [sem |-> s.sem + s.waitcount, waitcount |-> 0]

\* set_thread_state.
SetState(t, new) ==
  /\ state' = [state EXCEPT ![t] = new]
  /\ notRunning' = IF new # state[t] /\ new \in {"STOPPED", "DEAD"}
                   THEN [notRunning EXCEPT ![t] = Wake(@)] ELSE notRunning
  /\ notStopped' = IF new # state[t] /\ new \in {"RUNNING", "DEAD"}
                   THEN [notStopped EXCEPT ![t] = Wake(@)] ELSE notStopped

Wait(s) == [s EXCEPT !.waitcount = @ + 1]
Take(s) == [s EXCEPT !.sem = @ - 1]

------------------------------------------------------------------------------
(* Threads come and go.                                                        *)

\* create_lisp_thread, or attach_os_thread for a callback from C: a fresh or
\* recycled thread structure.
Begin(t) ==
  /\ pc[t] = "foreign"
  /\ Goto(t, "enter")
  /\ state' = [state EXCEPT ![t] = "RUNNING"]
  /\ pending' = [pending EXCEPT ![t] = FALSE]
  /\ notRunning' = [notRunning EXCEPT ![t] = [sem |-> 0, waitcount |-> 0]]
  /\ notStopped' = [notStopped EXCEPT ![t] = [sem |-> 0, waitcount |-> 0]]
  /\ UNCHANGED <<linked, listLock, gcLock, sig, todo, whom>>

\* init_new_thread: under all_threads_lock, so not while the world is stopped.
Enter(t) ==
  /\ pc[t] = "enter"
  /\ listLock = NoThread
  /\ linked' = linked \cup {t}
  /\ Goto(t, "lisp")
  /\ UNCHANGED <<listLock, gcLock, state, sig, pending, notRunning, notStopped,
                 todo, whom>>

\* The Lisp function returned: unregister_thread blocks signals.
Exit(t) ==
  /\ pc[t] = "lisp"
  /\ t # Main
  /\ Goto(t, "exit")
  /\ UNCHANGED <<linked, listLock, gcLock, state, sig, pending, notRunning,
                 notStopped, todo, whom>>

\* After the last use of the heap; acknowledges a stop signal that is blocked.
Die(t) ==
  /\ pc[t] = "exit"
  /\ Goto(t, "dead")
  /\ SetState(t, "DEAD")
  /\ UNCHANGED <<linked, listLock, gcLock, sig, pending, todo, whom>>

Unlink(t) ==
  /\ pc[t] = "dead"
  /\ listLock = NoThread
  /\ linked' = linked \ {t}
  /\ Goto(t, "clear")
  /\ UNCHANGED <<listLock, gcLock, state, sig, pending, notRunning, notStopped,
                 todo, whom>>

\* Variant: a pending stop signal is left pending.
DetachPending(t) ==
  /\ pc[t] = "clear"
  /\ Goto(t, "foreign")
  /\ UNCHANGED <<linked, listLock, gcLock, state, sig, pending, notRunning,
                 notStopped, todo, whom>>

\* detach_os_thread takes a stop signal that is pending; a thread that Lisp
\* created ends with it.
Detach(t) ==
  /\ pc[t] = "clear"
  /\ sig' = [sig EXCEPT ![t] = FALSE]
  /\ Goto(t, "foreign")
  /\ UNCHANGED <<linked, listLock, gcLock, state, pending, notRunning,
                 notStopped, todo, whom>>

------------------------------------------------------------------------------
(* The stopped thread: sig_stop_for_gc_handler.                                *)

\* The signal is delivered.  Only a Lisp thread has a handler for it.
Deliver(t) ==
  /\ sig[t]
  /\ pc[t] \notin Handler \cup Exiting \cup {"lost"}
  /\ sig' = [sig EXCEPT ![t] = FALSE]
  /\ \/ /\ pc[t] \in Inhibited
        /\ pending' = [pending EXCEPT ![t] = TRUE]
        /\ UNCHANGED pc
     \/ /\ pc[t] \in {"lisp", "leave"}
        /\ Goto(t, IF state[t] = "RUNNING" THEN "stopping" ELSE "lost")
        /\ UNCHANGED pending
     \/ /\ pc[t] \in Outside
        /\ Goto(t, "lost")
        /\ UNCHANGED pending
  /\ UNCHANGED <<linked, listLock, gcLock, state, notRunning, notStopped, todo,
                 whom>>

StopNow(t) ==
  /\ pc[t] = "stopping"
  /\ pending' = [pending EXCEPT ![t] = FALSE]
  /\ SetState(t, "STOPPED")
  /\ Goto(t, "stopped")
  /\ UNCHANGED <<linked, listLock, gcLock, sig, todo, whom>>

\* thread_wait_until_not(STATE_STOPPED) looks, sleeps and looks again.
LookStopped(t) ==
  /\ pc[t] = "stopped"
  /\ \/ /\ state[t] = "STOPPED"
        /\ notStopped' = [notStopped EXCEPT ![t] = Wait(@)]
        /\ Goto(t, "asleep")
     \/ /\ state[t] # "STOPPED"
        /\ Goto(t, IF state[t] = "RUNNING" THEN "lisp" ELSE "lost")
        /\ UNCHANGED notStopped
  /\ UNCHANGED <<linked, listLock, gcLock, state, sig, pending, notRunning, todo,
                 whom>>

\* Variant: any wakeup will do.
WakeStoppedEarly(t) ==
  /\ pc[t] = "asleep"
  /\ notStopped' = [notStopped EXCEPT ![t] = Take(@)]
  /\ Goto(t, "stopped")
  /\ UNCHANGED <<linked, listLock, gcLock, state, sig, pending, notRunning, todo,
                 whom>>

WakeStopped(t) ==
  /\ pc[t] = "asleep"
  /\ notStopped[t].sem > 0
  /\ notStopped' = [notStopped EXCEPT ![t] = Take(@)]
  /\ Goto(t, "stopped")
  /\ UNCHANGED <<linked, listLock, gcLock, state, sig, pending, notRunning, todo,
                 whom>>

------------------------------------------------------------------------------
(* WITHOUT-GCING and SUB-GC.                                                   *)

\* In WITHOUT-GCING, in the end to collect.
Inhibit(t) ==
  /\ pc[t] = "lisp"
  /\ \/ Goto(t, "nogc") \/ Goto(t, "gc")
  /\ UNCHANGED <<linked, listLock, gcLock, state, sig, pending, notRunning,
                 notStopped, todo, whom>>

\* Variant: the pending stop is forgotten.
LeaveUnasked(t) ==
  /\ \/ /\ pc[t] \in {"nogc", "drop"}
        /\ Goto(t, "leave")
     \/ /\ pc[t] = "leave"
        /\ Goto(t, "lisp")
  /\ UNCHANGED <<linked, listLock, gcLock, state, sig, pending, notRunning,
                 notStopped, todo, whom>>

\* WITHOUT-GCING ends, and a deferred stop is made up for.
Leave(t) ==
  /\ \/ /\ pc[t] \in {"nogc", "drop"}
        /\ Goto(t, "leave")
     \/ /\ pc[t] = "leave"
        /\ Goto(t, IF pending[t] THEN "stopping" ELSE "lisp")
  /\ UNCHANGED <<linked, listLock, gcLock, state, sig, pending, notRunning,
                 notStopped, todo, whom>>

\* try_acquire_gc_lock: if another thread has it, this one will be stopped.
TryLock(t) ==
  /\ pc[t] = "gc"
  /\ \/ /\ gcLock = NoThread
        /\ gcLock' = t
        /\ Goto(t, "take")
     \/ /\ gcLock # NoThread
        /\ Goto(t, "drop")
        /\ UNCHANGED gcLock
  /\ UNCHANGED <<linked, listLock, state, sig, pending, notRunning, notStopped,
                 todo, whom>>

------------------------------------------------------------------------------
(* The collector: gc_stop_the_world and gc_start_the_world.                    *)

\* Keep threads from coming and going.
LockList(t) ==
  /\ pc[t] = "take"
  /\ listLock = NoThread
  /\ listLock' = t
  /\ todo' = linked \ {t}
  /\ Goto(t, "signal")
  /\ UNCHANGED <<linked, gcLock, state, sig, pending, notRunning, notStopped, whom>>

\* The order of all_threads does not matter.
Signal(t) ==
  /\ pc[t] = "signal"
  /\ \/ \E s \in todo :
          /\ sig' = [sig EXCEPT ![s] = @ \/ state[s] = "RUNNING"]
          /\ todo' = todo \ {s}
          /\ UNCHANGED pc
     \/ /\ todo = {}
        /\ todo' = linked \ {t}
        /\ Goto(t, "await")
        /\ UNCHANGED sig
  /\ UNCHANGED <<linked, listLock, gcLock, state, pending, notRunning, notStopped,
                 whom>>

\* Variant: the threads are signalled, but not waited for.
AwaitNobody(t) ==
  /\ pc[t] = "await"
  /\ Goto(t, "collect")
  /\ todo' = linked \ {t}
  /\ UNCHANGED <<linked, listLock, gcLock, state, sig, pending, notRunning,
                 notStopped, whom>>

\* thread_wait_until_not(STATE_RUNNING), for each thread.
Await(t) ==
  /\ pc[t] = "await"
  /\ \/ \E s \in todo :
          \/ /\ state[s] = "RUNNING"
             /\ notRunning' = [notRunning EXCEPT ![s] = Wait(@)]
             /\ whom' = s
             /\ Goto(t, "sleep")
             /\ UNCHANGED todo
          \/ /\ state[s] # "RUNNING"
             /\ todo' = todo \ {s}
             /\ UNCHANGED <<pc, notRunning, whom>>
     \/ /\ todo = {}
        /\ todo' = linked \ {t}
        /\ Goto(t, "collect")
        /\ UNCHANGED <<notRunning, whom>>
  /\ UNCHANGED <<linked, listLock, gcLock, state, sig, pending, notStopped>>

Awake(t) ==
  /\ pc[t] = "sleep"
  /\ notRunning[whom].sem > 0
  /\ notRunning' = [notRunning EXCEPT ![whom] = Take(@)]
  /\ whom' = NoThread
  /\ Goto(t, "await")
  /\ UNCHANGED <<linked, listLock, gcLock, state, sig, pending, notStopped, todo>>

Collect(t) ==
  /\ pc[t] = "collect"
  /\ Goto(t, "start")
  /\ UNCHANGED <<linked, listLock, gcLock, state, sig, pending, notRunning,
                 notStopped, todo, whom>>

\* A thread that is not dead must be stopped.
StartWorld(t) ==
  /\ pc[t] = "start"
  /\ \/ \E s \in todo :
          /\ todo' = todo \ {s}
          /\ \/ /\ state[s] = "STOPPED"
                /\ SetState(s, "RUNNING")
                /\ UNCHANGED pc
             \/ /\ state[s] # "STOPPED"
                /\ IF state[s] = "DEAD" THEN UNCHANGED pc ELSE Goto(t, "lost")
                /\ UNCHANGED <<state, notRunning, notStopped>>
          /\ UNCHANGED listLock
     \/ /\ todo = {}
        /\ listLock' = NoThread
        /\ Goto(t, "unlock")
        /\ UNCHANGED <<state, notRunning, notStopped, todo>>
  /\ UNCHANGED <<linked, gcLock, sig, pending, whom>>

ReleaseGCLock(t) ==
  /\ pc[t] = "unlock"
  /\ gcLock' = NoThread
  /\ Goto(t, "drop")
  /\ UNCHANGED <<linked, listLock, state, sig, pending, notRunning, notStopped,
                 todo, whom>>

------------------------------------------------------------------------------
\* What a thread does on its own, if the kernel runs it.
Step(t) == \/ StopNow(t) \/ LookStopped(t) \/ WakeStopped(t)
           \/ Die(t) \/ Detach(t) \/ Leave(t) \/ TryLock(t)
           \/ Signal(t) \/ Await(t) \/ Awake(t) \/ Collect(t) \/ StartWorld(t)
           \/ ReleaseGCLock(t)
\* Steps that need all_threads_lock.
Locked(t) == Enter(t) \/ Unlink(t) \/ LockList(t)

Next == \E t \in Threads :
          Begin(t) \/ Exit(t) \/ Inhibit(t) \/ Deliver(t) \/ Step(t) \/ Locked(t)

Spec == Init /\ [][Next]_vars

\* Threads run, stop signals are delivered, WITHOUT-GCING ends, and the pthread
\* mutex does not starve a thread.
Fairness == \A t \in Threads :
              WF_vars(Deliver(t)) /\ WF_vars(Step(t)) /\ SF_vars(Locked(t))

LiveSpec == Spec /\ Fairness

------------------------------------------------------------------------------
(* Properties.                                                                 *)

TypeOK ==
  /\ pc \in [Threads -> Places]
  /\ linked \subseteq Threads
  /\ {listLock, gcLock, whom} \subseteq Threads \cup {NoThread}
  /\ state \in [Threads -> {"RUNNING", "STOPPED", "DEAD"}]
  /\ sig \in [Threads -> BOOLEAN]
  /\ pending \in [Threads -> BOOLEAN]
  /\ notRunning \in [Threads -> Semaphores]
  /\ notStopped \in [Threads -> Semaphores]
  /\ todo \subseteq Threads

\* Where a thread may touch the heap.
Mutating(t) == pc[t] \in {"lisp", "leave", "exit"} \cup Inhibited

\* While a thread collects, no other one touches the heap: one that has come,
\* gone, stopped or deferred the signal meanwhile included.
WorldIsStopped ==
  \A t \in Threads : pc[t] = "collect" =>
    \A s \in Threads \ {t} : ~Mutating(s)

\* None of the lose() calls is reached: a stop signal in a thread that is not a
\* Lisp thread, or a thread in a state that it cannot be in.
NeverLoses == \A t \in Threads : pc[t] # "lost"

\* A wakeup that someone waits for comes: whoever sleeps is counted while the
\* state is still the one waited out, and has its token otherwise; and no token
\* is left over from one collection for the next.
TokensMatch ==
  \A t \in Threads :
    /\ pc[t] = "sleep" =>
         notRunning[whom] = IF state[whom] = "RUNNING"
                            THEN [sem |-> 0, waitcount |-> 1]
                            ELSE [sem |-> 1, waitcount |-> 0]
    /\ pc[t] = "asleep" =>
         notStopped[t] = IF state[t] = "STOPPED"
                         THEN [sem |-> 0, waitcount |-> 1]
                         ELSE [sem |-> 1, waitcount |-> 0]
    /\ gcLock = NoThread => notRunning[t] = [sem |-> 0, waitcount |-> 0]

\* Every thread that waits goes on: the collector to collect, the stopped thread
\* to run, and the one that comes or goes past the lock.
CollectorCollects == \A t \in Threads : pc[t] = "take" ~> pc[t] = "collect"
StoppedResumes    == \A t \in Threads : pc[t] = "stopping" ~> pc[t] = "lisp"

\* The world is stopped as AbstractWorld says.
World == INSTANCE AbstractWorld WITH
  mutators  <- {t \in Threads : Mutating(t)},
  collector <- IF \E t \in Threads : pc[t] = "collect"
               THEN CHOOSE t \in Threads : pc[t] = "collect" ELSE NoThread

ImplementsWorld == World!Spec
==============================================================================
