# Verification of the threading core and the collector of CL

CL ("Cursed Lisp") is a fork of SBCL: a native-code Common Lisp compiler, its
runtime library in Lisp (`src/src/code`, `src/src/pcl`), and a C runtime with
the garbage collector (`src/src/runtime`).  These TLA+ modules model the parts in
which interleavings, interrupts, timeouts and non-local exits meet and which
tests reach least, from the locks down to the heap:

* mutexes, deadlock detection, condition variables and semaphores
  (`src/src/code/target-thread.lisp`);
* how a thread defers signals and collections (`interrupt.c`, `sysmacs.lisp`,
  `signal.lisp`);
* how a collection stops all threads (`stop-the-world.c`, `thread.c`);
* the collection itself (`gencgc.c`, `gc-common.c`).

The build is the usual one for Linux on x86-64: `#+sb-thread #+sb-futex`, gencgc
with soft card marks, SIGUSR2 as the stop signal; no safepoints, no `ultrafutex`,
no `nonstop-foreign-call`.

Paths below are relative to the repository, those of C files to
`src/src/runtime`, those of Lisp files to `src/src/code`; line numbers without a
file are of `target-thread.lisp`.

## 1. Inventory

| Component | State | Operations | What makes it hard | What makes it correct |
|---|---|---|---|---|
| Futex mutex (723-1016; `runtime/linux-os.c` 132-160) | futex word 0/1/2, `%owner` | `grab-mutex`, `%mutex-timedlock`, `release-mutex` | CAS races, barging, timeouts, EINTR, unwinding out of `futex-wait` | one holder; word, owner and holder agree; no sleeper stranded |
| Deadlock detection (518-613; `thread.lisp` 133-158) | `thread-waiting-for` marks, `**deadlock-lock**` | `check-deadlock`, `with-deadlocks`, `without-thread-waiting-for` | walk over a changing graph, interrupts enabled during it | what a report means; one report per deadlock; none missed; the check ends |
| Condition variable (1083-1278) | `waitqueue-token` | `condition-wait`, `-notify`, `-broadcast` | going to sleep is not atomic; unwinding with or without the mutex; deadline handlers | no lost wakeup; mutex held exactly when claimed |
| Semaphore (1340-1462) | count, wait count, mutex, queue | `wait-on-`, `try-`, `signal-semaphore` | wait count changed outside the mutex, amounts, timeouts, deadlines that are over before the wait | count never negative; a wait does not sleep on an available count |
| Session / foreground (1467-1698) | interactive threads, new enrollees | `get-foreground`, `release-foreground`, `terminate-session` | one waiter notified, only the first may go | the first interactive thread gets the foreground |
| Thread life cycle (1700-2263; `runtime/thread.c`) | `*all-threads*`, `*starting-threads*`, `*joinable-threads*`, `%visible`, exit semaphore | `start-thread`, `run`, `handle-thread-exit`, `join-thread`, `%exit-other-threads` | creation, exit, join and memory reuse race | a struct is joined and reused once; joiners wake; exit ends |
| Signal deferral (`interrupt.c`, `gengc.inc`, `sysmacs.lisp` 36-72, `signal.lisp`, `target-signal-common.lisp`) | five dynamic variables, pending flags, pseudo-atomic bits, `struct interrupt_data`, signal mask | `maybe_now_maybe_later`, `interrupt_handle_pending`, `trigger_gc`, `without-interrupts`, `without-gcing`, `with-interrupts`, `sub-gc` | three kinds of deferral share one saved mask; any instruction can be interrupted; handlers unwind | nothing deferred is forgotten, the mask is right, no check of the runtime fails |
| Interruptions (2281-2402) | interruptions queue | `interrupt-thread`, `run-interruption` | signals nest and are deferred | run once, in order, or refused |
| Deadlines (`deadline.lisp`) | `*deadline*` per thread | `with-deadline`, `signal-deadline`, `decode-timeout` | nesting, deferral in handlers | an inner deadline only restricts |
| Readers-writer lock (`rwlock.lisp`) | state word, wake words, pending counts | `rdlock`, `wrlock`, `unlock` | CAS word and mutex-protected counts | exclusion; nobody waits for nobody |
| Queue, mailbox, gate, frlock (`src/contrib/sb-concurrency`) | list with head and tail; semaphore; gate state; sequence counters | `enqueue`, `dequeue`, `send-`/`receive-message`, `open-gate`, `frlock-read` | lock-free steps; two structures kept in step | FIFO; count and contents agree; consistent reads |
| Lock-free list, hash set (`target-lflist.lisp`, `solist.lisp`) | linked nodes with deletion marks | insert, delete, find | helping, ABA | refines a set |
| Timers, finalizers (`timer.lisp`, `final.lisp`) | priority queue; finalizer store and thread | schedule, cancel, run | callbacks, thread start and stop | each runs once |
| Trees (`avltree.lisp`, `brothertree.lisp`, `redblack.lisp`) | immutable trees | insert, delete, find | rebalancing cases | same set, balanced |
| Stop-the-world (`stop-the-world.c`, `thread.c` 351-800, `gc.lisp` 129-222) | `all_threads`, two locks, a state word per thread with two gates | `gc_stop_the_world`, `gc_start_the_world`, `sig_stop_for_gc_handler`, attach, detach | threads enter, exit and ask for collections meanwhile; late signals | the collector is alone; everybody resumes; no gate is left open |
| Collector and allocator (`gencgc.c`, `gc-common.c`, `gencgc-impl.h`; store barrier `compiler/x86-64/memory.lisp`) | page table, card marks, generations, regions, new areas, pins, weak pointers | `collect_garbage`, `lisp_alloc`, the store barrier | moving objects under conservative roots; marks cleaned between a mark and its write; byte counts kept on many paths | the program's object graph is untouched; old-to-young references are on marked cards |
| Compiler, CLOS, I/O, contribs, vendored code | - | - | - | not modelled (section 8) |

How they interact.  Everything above the mutex uses it through `with-mutex` or
`with-system-mutex`.  `grab-mutex` calls `check-deadlock` before it sleeps, with
interrupts enabled.  `%condition-wait` releases and re-acquires the mutex; the
semaphore is a mutex, a waitqueue and two counts; thread exit, mailboxes and
`join-thread` are built on semaphores, sessions and gates on condition
variables.  Interrupts run handlers inside `futex-wait` and `check-deadlock`,
and a handler may unwind the interrupted call (`terminate-thread` does).  Whether
a handler runs now is decided by the deferral machinery, which also holds back
the thread's own collections and the stop signal of others.  `sub-gc` takes
`in_gc_lock`, stops the world, and runs `collect_garbage`, which therefore sees
every other thread stopped between two instructions outside of pseudo-atomic
sections: this is what the modules below hand over to each other.

## 2. Modules

```
AbstractMutex <--refines-- Mutex        MutexProofs (theorems)
      |  taken as the lock of
      +--> Deadlock                     DeadlockProofs (theorems)
      +--> CondVar <--extends-- Semaphore --refines--> AbstractSemaphore
                                        SemaphoreProofs (theorems)

Deferral        one thread: when does it stop?      DeferralProofs (theorems)
   |  taken as the place "nogc" of
StopTheWorld --refines--> AbstractWorld        StopTheWorldProofs (theorems)
   |  lets a collection be one step of the mutator in
Gencgc --refines--> AbstractHeap        GencgcInv (inductive invariant),
                                        GencgcCopying, GencgcScavenging,
                                        GencgcProofs (theorems)
```

**AbstractMutex.**  The lock callers rely on: `holder`, the threads `wanting`
it, and the promise that it is not left free for ever while it is wanted.  It
is not fair, because the code is not: any thread may barge.

**Mutex.**  One action per atomic access to the futex word or to `%owner`.
`pc[t]` names the place in the code: `lock` the first CAS of
`%mutex-timedlock`, `contend` the CAS 1 to 2, `wait`/`asleep`/`awake` the
`futex_wait` call, `recas` the CAS 0 to 2, `won` between the CAS and the store of
`%owner`, `cs` protected code, `rel`/`zero`/`wakeone` the three steps of
`release-mutex`, `unwind` the `nlx-protect` cleanup.  `futex_wait` compares and
queues atomically, `futex_wake` picks any sleeper; both are the kernel's
promise, seen through `linux-os.c`.

**Deadlock.**  Threads lock and unlock several mutexes; every read of another
thread's `%owner` or mark by `detect-deadlock` is a step, down the chain (`path`)
and back up (`depth`).  Winning a word and setting `%owner` are two steps.
Marks are records: a mutex, a timed mark (the code's cons), or none.  A handler
run by an interrupt hides the mark (`saved`) and restores it only if it was a
mutex; an unwinding handler runs the cleanup of `with-deadlocks` and nothing
else.  A thread that holds several mutexes may release them in any order.

**CondVar.**  `%condition-wait` and `condition-notify` as steps, over the
abstract lock `holder`.  The token is the last waiter's ID or 0.  What a thread
does between two accesses to shared state under the mutex is one step.

**Semaphore.**  The client of CondVar: `%decrement-semaphore` (`Begin` .. `Leave`),
`signal-semaphore` (`Signal`, `Notify`, `Unlock`) and `try-semaphore`.
`QuickCheck` is the decrement before the `unwind-protect` (1374-1378).  Inside it,
`DeadlineExpired` is `decode-timeout` on a deadline that is over, which unwinds
(place `uncounted`) or goes on with a new deadline or none; `Block` counts the wait
and begins the first `%condition-wait`; `WaitAgain` and `Take` are the loop
(1395-1411).  `Leave` is the way out through the cleanups, with or without the
mutex; it decrements the wait count like the code, that is, also when the wait was
not counted.  The wait count is a word that wraps around.

**AbstractSemaphore.**  Count, waiting threads and their amounts.

**Deferral.**  One thread.  `dyn` holds the five variables that regions bind,
`stack` the regions, handlers and C frames that it is in, innermost first; `gc`,
`ip`, `pa`, `pai`, `data` and `mask` are `*gc-pending*` and
`*stop-for-gc-pending*`, `*interrupt-pending*`, the two pseudo-atomic bits, `struct
interrupt_data` and the signal mask.  The ends of regions are taken apart
(`LeaveWithoutGcing` .. `UnbindInWithoutGcing`), because a signal between two
unbindings is what they are written against.  A C handler runs with its signals
blocked and is one step up to where it unblocks them: `Trap`, `PendRest` and
`PendEnd` are the parts of `interrupt_handle_pending` between which Lisp runs.
`lose()` is `pc = "lost"`.  Another thread's collection is `other`.

**StopTheWorld.**  Any number of threads, one of them the main thread.  `state`
with `notRunning` and `notStopped` is the state word with its two counted
semaphores; what the code does under `state_sem` is one step.  `Begin` .. `Detach`
is a thread's way into and out of `all_threads`; a thread that detached may come
back.  `Deliver` .. `WakeStopped` is the handler, `TryLock` .. `ReleaseGCLock`
the collector, loop by loop.

**AbstractWorld.**  `mutators` and `collector`: mutators run together, a
collector alone.

**Gencgc.**  `heap` is the collector's state: the page table with type,
generation, card mark and fill of each page, the words (an object, a forwarding
pointer or a filler at each address), byte counts, regions, new areas, pins and
the weak pointer chain.  The code's functions are operators from heap to
heap that carry the code's names where they can (`ScavengeRootGens`,
`ScavengeNewspace`, `Obliterate`, `FreeOldspace`, ...), composed in the code's
order in `CollectGeneration`; `Collect` is one round of the loop of
`collect_garbage`, with its decisions to raise a generation and to go on to the
next.  The program (`Program`) allocates, loads and stores through registers; a store
is `MarkCard` and later `Write`, and a collection may come between: the barrier that
compiled code runs on x86-64 (`emit-gengc-barrier` and `emit-store` in `cell-set`),
which marks the card whatever it was.

**AbstractHeap.**  A graph of identities that only the program changes, except
that a weak pointer may break when only weak pointers lead to its object.

Definitions called "Variant" in a comment are plausible mistakes; they are used
to make sure that the properties notice them, and are no part of the models.

## 3. Runs and what they show

| Run | Bounds | Shows |
|---|---|---|
| `mutex` | 3 threads | `TypeOK`, `MutualExclusion`, `NoStrandedSleeper`; `ImplementsLock`: refinement of `AbstractMutex` with its liveness |
| `deadlock` | 3 threads, 3 mutexes, 6 acquisitions, 1 interrupt, limit 3 | `ReporterIsWaitedFor`, `OneReporter`, `DeadlockReportedUnlessHidden` |
| `deadlock_alarm` | 2 threads, 2 mutexes, 5 acquisitions | counterexample to `NoFalseAlarm` |
| `deadlock_orphan` | 2 threads, 2 mutexes, 6 acquisitions, 1 interrupt | counterexample to `CheckTerminates` |
| `semaphore` | 3 threads, amount 1, count up to 2, untimed and deadline waits | `NoStrandedWaiter`, `EveryUnitHasATaker`, `SignalReachesSleepers`; `ImplementsSemaphore`: refinement with liveness |
| `semaphore_all` | 3 threads, amounts 1 and 2, count up to 2, all kinds of wait, words of 4 values | `TypeOK`, `MutexAccounted`; `ImplementsSafely`: refinement, safety |
| `semaphore_expired` | 3 threads, amount 1, untimed waits and waits with an expired deadline | counterexample to `NoStrandedWaiter` |
| `semaphore_timeout` | 3 threads, amount 1, untimed and timeout waits | counterexample to `NoStrandedWaiter` |
| `deferral` | nesting of 3 | `NoOtherLoss`, `NoCollectionForgotten`, `NoSignalForgotten`, `MaskIsRight`; `StopsForGC`: the thread stops for every collection of another one |
| `stop_the_world` | 3 threads | `WorldIsStopped`, `NeverLoses`, `TokensMatch`; `CollectorCollects`, `StoppedResumes`: everybody goes on; `ImplementsWorld`: refinement of `AbstractWorld` |
| `gencgc_store` | 3 pages of 2 objects, 2 objects, 1 root, 2 registers, 1 stray word, generations 0 and 1, 1 new area | `NeverLoses`, `HeapVerifies`, `CardsCover`, `CountsRight`; `StateOK`, the inductive invariant of the proofs; `ImplementsHeap`: refinement of `AbstractHeap` |
| `gencgc_lists` | 3 pages of 2 objects, 3 objects, 1 root, 1 register, generations 0 and 1, 2 new areas; conses and weak pointers | `NeverLoses`, `HeapVerifies`, `ImplementsHeap` |

Why the bounds are enough.  Mutex has no counters: three threads give a holder,
a thread in flight and a sleeper at once, which is every role in its argument,
and the theorems of section 5 remove the bound.  In Deadlock, three threads and
mutexes give cycles of two and of three, and a bystander that changes a chain
while it is walked; `MaxAttempts` = 6 is what it takes to build a cycle of three
(each thread locks twice), and with cycles of two it leaves two more
acquisitions to disturb it; `Limit` = 3 is reachable by three threads, so that
the limit matters (the code's 10 is used in the two-thread runs, where it is
never reached); `MaxInterrupts` = 1 suffices because one hidden mark already
hides a deadlock.  In Semaphore a waiter, a second waiter and a signaller exist
at once; `MaxCount` = 2 lets the count exceed an amount.  `Word` stands for 2^64: 4 is
the smallest word that can count three threads, so that a wait count that goes
below 0 soon comes round.  In `semaphore_all` waits begin with a timeout or an expired
deadline, and become untimed or get a live deadline when the handler cancels or
defers it, so that every kind occurs.

In Deferral, three frames are a region in a handler in a region, and the frames
that traps and collections add come on top (`TypeOK` bounds them); signals and
stop requests are unlimited.  In StopTheWorld three threads are a collector, one
that stops and one that enters, exits or wants to collect too; nothing is
counted, and the theorems remove the bound.  In Gencgc, three pages hold from
space, new space and an older page at once; two objects per page let a page
hold a pinned and a garbage object; two normal generations and the scratch
generation give promotion, lowering and root generations.  Identities are
reused once their object is gone from every page, so that the number of
allocations is not bounded.  `NumNewAreas` of 1 and 2 makes the table of new
areas overflow, of which the code has 512.

The theorems of section 5 remove the bounds on threads, mutexes, acquisitions,
interrupts, the limit, amounts, the count, the nesting of regions and handlers,
and, for the invariants of Gencgc, on pages, objects, generations, roots,
registers, new areas and stray words; what the runs add to them is liveness, the
counterexamples, the refinement of AbstractHeap, and a check that the properties
can fail.

Deadlock checking is off in the Gencgc runs, where an exhausted heap ends the
program, and in the Deadlock runs, whose threads do stop: when the
acquisitions are used up, and in deadlocks nobody reports.

Fairness.  Each thread's own steps (`Step(t)`) are weakly fair: the operating
system schedules a runnable thread, and protected code ends.  Starting an
operation, timing out, being interrupted, unwinding and handling a condition are
the environment's and have no fairness.  Nothing is assumed about which thread
wins a lock or is woken.  For `CheckTerminates` this is all a spin lock gets.

In Deferral the runtime's own steps (`Runtime`) and pseudo-atomic sections end, the
kernel delivers what is again and again not blocked (strong fairness of the two
signals), and the other thread goes from its lock to its signal.  The program's
own steps are not fair: `StopsForGC` assumes instead that the thread leaves its
regions and handlers again and again, as user code must.  In StopTheWorld each
thread's own steps and the delivery of its signal are weakly fair, the end of
WITHOUT-GCING included, and `all_threads_lock` is a pthread mutex that does not
starve a thread (strong fairness of `Locked`); starting, exiting and wanting to
collect have no fairness.

## 4. What was found

* **A deadlock may be reported that does not exist** (`deadlock_alarm`).  The
  links of the chain are rechecked one by one (587-598).  With two threads it
  takes a thread that handled its own report, released and locked again; with
  three it happens without an earlier report.  What does hold:
  `ReporterIsWaitedFor`, some thread really sleeps until the reporter
  releases (unless that thread was interrupted), so that a report is never
  quite pointless.
* **`**deadlock-lock**` can be orphaned** (`deadlock_orphan`).  Interrupts are
  enabled around `check-deadlock` (915), and the spin lock has no cleanup (575,
  605, 612).  After `terminate-thread` hits that window, the next thread to
  find a cycle spins for ever.
* **A hidden mark hides a deadlock.**  While a waiting thread runs a handler its
  mark is NIL (`thread.lisp` 150).  The thread that closes the cycle then finds
  no chain, and nobody checks again: `NoSilentDeadlock` fails, and
  `DeadlockReportedUnlessHidden` shows that this is the only way it can, for
  cycles of at most `Limit` threads; a longer one is given up on by design (548).
* **One reporter per chain, but only when it begins to report.**  Nobody on the
  chain of a thread that is about to report handles a report (`OneReporter`).  That
  nobody on it does so later, while the first report is being handled, would be
  too much: a thread on the chain may be interrupted, unwind out of its wait, lock
  again, close another cycle and report that.  It takes seven acquisitions, more
  than the run has, and came to light when the stronger statement was to be
  proved.
* **An expired deadline corrupts a semaphore's wait count** (`semaphore_expired`).
  `decode-timeout` (1385-1387) is called inside the `unwind-protect` and before the
  `atomic-incf` (1394).  If the deadline is over it is signalled there
  (`deadline.lisp` 257-264), and a handler that unwinds leaves through the
  `atomic-decf` (1414), which is unconditional.  With a thread asleep the wait count
  becomes 0, and the next `signal-semaphore` wakes nobody; with none it wraps, and
  the next waiter brings it back to 0 while it sleeps.  The count itself and the
  mutex stay right (`semaphore_all`).
* **Semaphores lose wakeups between unequal waiters** (`semaphore_timeout`, and
  `tlc -config MCSemaphore_amounts.cfg MCSemaphore.tla`, which shows a violation of
  `NoStrandedWaiter` with untimed waits of amounts 1 and 2).  A wakeup that
  reaches a wait it cannot serve (1462 wakes `(min waitcount count)` sleepers,
  whatever their amounts), or one that times out after it was woken, is not passed on.
  Among waits of equal amount without timeouts or expired deadlines none is lost
  (`NoStrandedWaiter` in `semaphore`), even when they unwind.
* **A signal at the end of WITHOUT-GCING can end the process.**  `sysmacs.lisp` 66-68
  says "This is not racy because can_hande_now() defers signals if *GC-INHIBIT* is
  NIL but there is a pending gc or stop-for-gc."  It does defer them, but
  `check_interrupt_context_or_lose` does not let it: `*gc-inhibit*` is unbound
  first, and until `*interrupts-enabled*` is too, a pending collection is
  explained neither by `GC_INHIBIT` nor by `in_leaving_without_gcing_race_p`,
  which wants interrupts enabled (`interrupt.c` 676-687).  A deferrable signal there
  dies with "GC_PENDING, but why?" (727-729).  `tlc -config MCDeferral_why.cfg
  MCDeferral.tla` shows it (`PendingIsExplained`).
* **The stop handler does not always tidy up.**  `stop-the-world.c` 164-172 explains
  why it clears `pseudo_atomic_interrupted` after it has satisfied a collection
  that was requested in a pseudo-atomic section; but it does so only if
  `gc_blocked_deferrables` is set.  If a deferred signal was stored before the
  request, it is not set (`interrupt.c` 631-670), the bit stays, and inside
  WITHOUT-INTERRUPTS the trap that follows dies with "pseudo_atomic_interrupted
  after interrupt_handle_pending" (1178-1181).  `tlc -config MCDeferral_pai.cfg
  MCDeferral.tla` shows it (`TrapClearsInterrupted`).

  Both need a signal within an instruction or two.  `NoOtherLoss` shows that
  none of the other checks that the model contains can fail.
* **SUB-GC always gives up after another thread's collection.**  `gc.lisp` 219-220
  compares `epoch` with `*gc-pending*` rather than with `*gc-epoch*`, so that the
  test is always true: a minor collection that lost the lock returns even if the
  winner had not yet stopped this thread.  The model has it so (`GCAfter`); no
  property depends on it, because such a thread is still stopped on its way out.

## 5. What is proved

`MutexProofs.tla`, checked by TLAPS, for every set `Threads` (finite or not),
from the one assumption that `NoThread` is not a thread:

* `TypeCorrect`: `Spec => []TypeOK`
* `Excludes`: `Spec => []MutualExclusion`
* `NobodyStranded`: `Spec => []NoStrandedSleeper`
* `RefinesAbstractMutex`: `Spec => Abstract!Safe`

The argument.  `IInv`, the conjunction of the three invariants, is inductive; none
of the parts is by itself.  `TypeOK` needs "a thread in `rel` means that the word
is not 0" (`WordMeansHeld`) or the decrement could leave 0..2.
`NoStrandedSleeper` needs both: when the word goes from 1 to 0 no thread sleeps
without somebody on the way, and when a barging thread takes a word that was 0
the thread that made `NoStrandedSleeper` true then is another one.
`StepKeepsIInv` has one step per action and one per conjunct; the wakeups, which
move two threads, are the lemma `WakeKeepsIInv`.  The refinement rests on
`HolderIsHolding` (at most one holder makes the CHOOSE of `holderOf` well
defined) and classifies the actions: those that win the word are `Grab`, those
that give it back `Drop`, entering and leaving `%mutex-timedlock` are `Want` and
`GiveUp`, and the rest stutter.

`StopTheWorldProofs.tla`, for every set `Threads` (finite or not) with `Main` in it
and `NoThread` not:

* `TypeCorrect`: `Spec => []TypeOK`
* `StopsTheWorld`: `Spec => []WorldIsStopped`
* `Survives`: `Spec => []NeverLoses`
* `TokensAreRight`: `Spec => []TokensMatch`
* `RefinesAbstractWorld`: `Spec => ImplementsWorld`

The argument.  The inductive invariant `IInv` says, besides types, who may be at which
place: only the owner of the locks is at the collector's places, and the list
does not change while it is locked (`ListLocked`); a thread is linked exactly
between `Enter` and `Unlink` (`LinkedRight`); the state word is what the place
says (`StateRight`); and, the heart of it, a linked thread that the collector has
done with is stopped or dead while it is being done with (`Acknowledged`), so
that none can be left to mutate when the loop is empty.  `NeverLoses` needs in
addition that a thread that cannot take the signal has none on the way
(`NotSignalled`): a signal goes only to a thread that is RUNNING, which one
outside is not as far as the collector can see, and `detach_os_thread` takes the one
that came too late.  `NextInductive` has one step per action.  `TokensMatch` is inductive
together with three more parts: `GCLocked` (who has `in_gc_lock`), `RunningTokens` and
`StoppedTokens`, which say of each gate that it is empty unless the place of
the thread, or of the collector, says that its token is on the way.  The refinement
rests on `OneCollector`, which makes the CHOOSE of the collector well defined,
and `WorldIsStopped`, which makes `Collect` legal.

`SemaphoreProofs.tla`, for every finite set `Threads`, any amounts, any `MaxCount`, and
any `Word` that is larger than the number of threads:

* `TypeCorrect`: `Safe => []TypeOK`
* `MutexIsAccounted`: `Safe => []MutexAccounted`
* `RefinesAbstractSemaphore`: `Safe => ImplementsSafely`
* `SignalsReach`: `Safe /\ []AllCounted => []SignalReachesSleepers`
* `UnitsAreTaken` and `NobodyStranded`: `Safe /\ []AllCounted => []EveryUnitHasATaker`
  and `Safe /\ []AllCounted => []NoStrandedWaiter`, if `Single`: all waits are for
  one unit and none has a timeout.

`Safe` is the specification without fairness.  The first three hold for every kind
of wait.  `AllCounted` says that no thread is at the place `uncounted`: no wait unwinds
out of `decode-timeout`.  No condition of `NobodyStranded` can be dropped, as
`semaphore_expired`, `semaphore_timeout` and `MCSemaphore_amounts.cfg` show.

The argument.  `Owned`, types and the mutex, is inductive by itself, because nothing
in it reads the wait count; the refinement rests on it.  For the signals the
invariant must say whom the wait count counts, since it is changed without the mutex
in a cleanup: it is the number of the threads between their first
`%condition-wait` and their cleanup (`CountsWaiters`), which is why `Threads` is finite,
and why a word that can count the threads does not wrap.  Only a wait that leaves
without having been counted breaks it, which `AllCounted` excludes.  A signaller
reads the wait count under the mutex, and from there until it lets the mutex go
will wake, or has woken, as many of those asleep or on the way to sleep as the count
could serve (`NotifierWakes`).  `Taken`, for `Single`, adds that a thread on the way to
sleep whose token is still its own stored it when the count was 0, so that a unit
signalled since has a signaller or a woken thread for it; and a wait that
unwinds stays on its way (`InFlight`) until its cleanup has looked at the count or
woken another one.

`DeadlockProofs.tla`, for every finite set `Threads`, any mutexes, `Limit`, number of
acquisitions and of interrupts:

* `TypeCorrect`: `Safe => []TypeOK`
* `SomebodyIsHelped`: `Safe => []ReporterIsWaitedFor`
* `ReportedOnce`: `Safe => []OneReporter`
* `DeadlocksAreReported`: `Safe => []DeadlockReportedUnlessHidden`

The argument.  `Locks` relates words, owners, marks and places of the threads; in
particular, if a thread waits and has no mark, an interrupt hid it
(`MarksRight`).  `Walks` says what a walk knows although everything it reads may
change under it: its chain ends at a lock of its own, which
nobody else can take from it (`PathOK`); once its last frame is confirmed, the
thread there waits for that lock until the walker releases it (`LastWaits`);
and nobody in a confirmed frame handles a report (`NoneReports`), because it
would have had to pass `**deadlock-lock**`, which the walker has.
`DeadlocksAreReported` needs more than states of one walk: `SomebodyFinds` says that
of each smallest set of threads that wait for each other there is one, the last
to mark itself, whose walk has so far read nothing but links of the cycle.
A cycle comes about in one step only by a mark (`CycleBack`): with every other
step it was there before; and since it is smallest, the walk cannot return to a
thread it has met before it is at its start (`NextLink`), nor, by counting, need
more frames than `Limit` (`ShortWalk`).

`DeferralProofs.tla`, for every nesting depth `MaxDepth`:

* `TypeCorrect`: `Spec => []TypeOK`
* `NothingElseLost`: `Spec => []NoOtherLoss`
* `CollectionsAreMadeUpFor`: `Spec => []NoCollectionForgotten`
* `SignalsAreMadeUpFor`: `Spec => []NoSignalForgotten`
* `MaskIsAlwaysRight`: `Spec => []MaskIsRight`

The argument.  Every frame restores bindings and a mask that were saved when
it was pushed, at an arbitrary earlier time; so the invariant must say of every
frame what it can lie on, in what state it was pushed and where it returns to.
`Fits` does so from the two frames under it, which is enough: the innermost
region's bindings are a function of the frame under it (`InLisp`), and whether
`maybe_gc` has blocked signals shows two frames down (`InMaybeGC`).  `StackRight` is
`Fits` of all frames, with the number of frames that the runtime can have added
(`Height`).  Of the thread itself, `PlaceRight` says which bindings go with its
place, `DataRight` when something is stored and what of, `CollectionRight` and
`SignalRight` that the code ahead will see what is put off, `MaskFits` what
the mask is at every place, and `NoteRight` and `RoomRight` that the flags
agree with what was noted before Lisp ran and that the stack has room for what
is put off.  A step pushes, pops or replaces the top, or unwinds to a frame further
down; lemmas about each of these (`PushNow`, `PopNow`, `StayNow`, ...) hide the
sequences from the lemmas about actions, of which each action has one.  `Land` unwinds
over any number of frames; that it lands where deferrable signals are not blocked
(`UnwoundFrames`) takes the least frame on the way of which this could be wrong.
Two checks of the runtime can fail (section 4): they end the process, and the
invariant speaks of the process while it lives.

`GencgcCopying.tla`, `GencgcScavenging.tla` and `GencgcProofs.tla`, each of which extends
the one before, with the invariants of `GencgcInv.tla`; for any number of pages, of
objects on a page, of generations, new areas and stray words, any registers and
finitely many roots (`GencgcAssumption`; the table of new areas has at least one
entry):

* `Invariant`: `Spec => []StateOK`
* `TypeCorrect`: `Spec => []TypeOK`
* `NothingLost`: `Spec => []NeverLoses`
* `Verified`: `Spec => []HeapVerifies`
* `CardsCovered`: `Spec => []CardsCover`
* `BytesCounted`: `Spec => []CountsRight`

The argument.  Between collections, and between two generations of one collection,
the heap is at rest (`Rest`): every reference of an object, dead ones included, leads
to an object, an object that leads to a younger one is not on a clean card, and
the counts are what the pages hold.  `StateOK` adds what a store between its mark
and its write relies on (`PendingOK`): the collector makes the card sticky, and
a sticky card stays sticky until all generations are done.

A collection is one step and some thirty functions.  Inside of it, `Rest` does not
hold, and what holds instead at every point is `Mid`: a forwarding pointer is in
from space and leads to an object in new space (`ForwardsOK`); the open regions
are on pages of new space whose cards are marked (`RegionsOK`); what waits on the
weak pointer chain was saved and leads to from space or new space (`ChainOK`); what
the table of new areas holds is in new space (`AreasOK`); an object on a clean card
leads to nothing in from space (`CleanOK`).  One lemma for each function says that it
keeps `Mid` and how it changes the heap, in one of a few relations that compose:
`Step` (one reference was scavenged; what was copied or promoted is recorded),
`Work` (scavenging) and `Sweep` (what no part of scavenging undoes).  The heart of it is
`Work`: whatever is still to be scavenged (`Unclean`) was so before, or is `Due`, that
is, recorded in the table of new areas, in an open region, or on a page that is yet
to come.  So, when roots, root generations and pins were scavenged, all that is
unclean is due (`ScavengeAllOK`), and a round of `scavenge_newspace` makes what was
due clean unless it records something new (`ScavengeAreasOK`), with the table full
and the whole of new space scavenged again as well.  A round that records something
has saved an object of from space (`Grow`), and of those there are fewer than
addresses: this is why `rounds` in `ScavengeNewspace` may stop after as many (`RoundsOK`,
`MovableBound`), and why the loop of the code ends.  At its end nothing that is kept
leads to from space, so that `Obliterate` and `FreeOldspace` take away nothing that
anything leads to (`FinishOK`), and `CollectGenerationOK` has `Rest` again.  The
exception is a heap that is exhausted in the middle of a collection: the program
ends, and `StateOK` then says only that no assertion failed.

The loops over pages, roots, areas and words are folds, written as recursive
functions.  What each loop keeps is proved by induction over its interval
(`Upward`), with a set in place of the predicate, and with it that the function
exists at all (`Folding`, `Folded`).  `CopyList`, which follows a list in the code until
it ends, is a fold of as many steps as there are addresses.

Only model-checked: that Gencgc refines AbstractHeap (`ImplementsHeap`), and all
liveness (TLAPS does not prove properties under fairness or ENABLED).  The refinement
is about the graph that the program can reach, `Reachable`, which would have to be
carried through all of scavenging as an isomorphism between what was reachable
before and the copies; the theorems say that no reference dangles, not that it
leads to the copy of the object that it led to before.

## 6. Abstractions

* Memory is sequentially consistent: each access is a step.  The barriers in
  the code are what justifies it on the hardware.
* Time is not modelled: a timed wait may time out whenever it sleeps.  A deadline
  and a timeout differ in what follows.
* Whether a deadline will be over when its wait decodes it is chosen when the wait
  begins (kind `expired`).  A wait with a timeout and a deadline is one with
  whichever comes first.
* The kernel thread ID in the token is the thread; IDs are not reused among the
  threads that live during a run.
* A handler is an arbitrary computation seen from outside: it returns or
  unwinds.  Handlers in Deadlock do not lock mutexes themselves.
* Deferral: the C code between the entry of a handler and where it unblocks signals
  is one step.  All deferrable signals behave as one; the handler table and
  synchronous signals are left out.  `with-local-interrupts` is only used
  directly inside its `without-interrupts`.
* StopTheWorld: the heap is not in it; where a thread may touch it is `Mutating`.
  Thread creation by Lisp and attaching from C are one action, because they
  differ only in where the structure comes from.  `pthread_kill` never fails, for
  the list only has live threads.
* Gencgc: one card per page; an object is one unit with one reference; a large
  object has its page to itself, and does not shrink.  The allocator has no
  hint where to start.  The generation that a free page keeps is ignored.  A
  mutator's region is closed at once, as `gc_close_thread_regions` does before a
  collection.  Whether a generation is due by its age, and whether space is low,
  is open.  A stray word may lead to any object of the generation collected;
  precise checks of `conservative_root_p` that only reject words are not in it.
  A generation's collection is one step: nothing else runs.  The mutator's stack
  is its registers.  An exhausted heap ends the program.
* `without-interrupts` regions of the lock modules are those where no interrupt action is enabled.

## 7. Plan

1. Done: AbstractMutex, Mutex, MutexProofs, Deadlock, DeadlockProofs, CondVar,
   AbstractSemaphore, Semaphore, SemaphoreProofs; Deferral, DeferralProofs;
   AbstractWorld, StopTheWorld, StopTheWorldProofs; AbstractHeap, Gencgc,
   GencgcInv, GencgcCopying, GencgcScavenging, GencgcProofs.
2. Proofs left: `ImplementsHeap`, by an isomorphism of the graphs before and after
   in `Step`, `Work` and `Sweep`.
3. `Session` over CondVar: `get-foreground` is granted to the first interactive
   thread; a notify that reaches another one.
4. `ThreadLife`: start, exit, join, struct reuse and `%exit-other-threads`;
   `Interruptions`: the queue, SIGURG and ordering.
5. `Queue` (lock-free, refines a FIFO) and `Mailbox` over Queue and
   AbstractSemaphore; `RWLock`, `Gate`, `FRLock`, `Deadline`, `LFList`, and the trees
   as operators.
6. Of the collector: weak hash tables and finalizers, immobile space's generations
   and card marks, and the mark-region collector as another refinement of
   AbstractHeap.

Runs are shared where modules allow it: Session and Gate are clients of CondVar
like Semaphore, Mailbox takes the semaphore at its abstract level.

## 8. Not modelled

Of the collector: the mark-region variant (`pmrgc.c`, `mark-region.c`), the mark-only
full collection, immobile and permanent space, pseudo-static objects, code pages,
weak hash tables, finalizers, heap verification (its rule is the property
`HeapVerifies`), core files (`coreparse.c`, `save.c`) and the inspection tools
(`monitor.c`): the last two are sequential code over file formats.  Safepoint
builds (`safepoint.c`).  The compiler, assembler, CLOS, reader, printer, streams
(sequential code specified by the language standard), contribs that bind external
libraries, vendored and generated code, builds without futexes or threads,
Windows and macOS variants, `release-mutex` with `:if-not-owner :force` or `:warn`
(no caller), and the components of section 7 that are still to come.
