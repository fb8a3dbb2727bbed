------------------------------ MODULE MutexProofs ------------------------------
(* Theorems about Mutex, for every set of threads: its type invariant, mutual   *)
(* exclusion, that no sleeper is stranded, and that the futex protocol takes    *)
(* only the steps of the abstract lock.  IInv is the inductive invariant; its   *)
(* three parts need each other (a decrement stays in 0..2 because a holder      *)
(* means the word is not 0, and a sleeper survives a barging thread because     *)
(* the word was 0 only while some other thread was on its way).                 *)
EXTENDS Mutex, TLAPS

------------------------------------------------------------------------------

\* No thread has the mutex in the initial state, and none sleeps.
LEMMA InitIInv == Init => IInv
<1> SUFFICES ASSUME Init PROVE IInv
  OBVIOUS
<1>1. TypeOK
  BY DEF Init, TypeOK, Places, Waiting, Holding
<1>2. MutualExclusion
  BY NoThreadAssumption
  DEF Init, MutualExclusion, WordMeansHeld, AtMostOneHolder, OwnerIsInside, Holding
<1>3. NoStrandedSleeper
  BY DEF Init, NoStrandedSleeper, Asleep
<1> QED
  BY <1>1, <1>2, <1>3 DEF IInv

\* FUTEX-WAKE of one sleeper, by RELEASE-MUTEX or by the cleanup of
\* %MUTEX-TIMEDLOCK, moves two threads among places outside the lock; if there
\* was a sleeper, the one that is woken now sees to the others.
LEMMA WakeKeepsIInv ==
  ASSUME IInv, NEW t \in Threads, pc[t] \in {"unwind", "wakeone"},
         FutexWakeOne(t)
  PROVE  IInv'
<1> USE DEF FutexWakeOne, Goto
<1>1. UNCHANGED <<state, owner, c, timed>>
  OBVIOUS
<1>2. \/ Asleep = {} /\ pc' = [pc EXCEPT ![t] = "idle"]
      \/ \E s \in Asleep : pc' = [pc EXCEPT ![t] = "idle", ![s] = "awake"]
  OBVIOUS
<1>3. pc' \in [Threads -> Places] /\ TypeOK
  BY <1>2 DEF IInv, TypeOK, Asleep, Places, Waiting, Holding
<1>4. \A u \in Threads : pc'[u] = pc[u] \/ {pc'[u], pc[u]} \cap Holding = {}
  BY <1>2, <1>3 DEF TypeOK, Asleep, Holding
<1>5. TypeOK'
  BY <1>1, <1>3 DEF TypeOK
<1>6. MutualExclusion'
  <2>1. \A u \in Threads : pc'[u] \in Holding <=> pc[u] \in Holding
    BY <1>4
  <2>2. \A u \in Threads : pc'[u] = "cs" <=> pc[u] = "cs"
    BY <1>4 DEF Holding
  <2> QED
    BY <1>1, <2>1, <2>2
    DEF IInv, MutualExclusion, WordMeansHeld, AtMostOneHolder, OwnerIsInside
<1>7. NoStrandedSleeper'
  <2>1. CASE Asleep = {} /\ pc' = [pc EXCEPT ![t] = "idle"]
    BY <2>1, <1>3 DEF TypeOK, NoStrandedSleeper, Asleep
  <2>2. ASSUME NEW s \in Asleep, pc' = [pc EXCEPT ![t] = "idle", ![s] = "awake"]
        PROVE  NoStrandedSleeper'
    BY <2>2, <1>3 DEF TypeOK, NoStrandedSleeper, Asleep, InFlight
  <2> QED
    BY <1>2, <2>1, <2>2
<1> QED
  BY <1>5, <1>6, <1>7 DEF IInv

\* Every other action, and stuttering, preserves the three parts as well.
LEMMA StepKeepsIInv == IInv /\ [Next]_vars => IInv'
<1> SUFFICES ASSUME IInv, [Next]_vars PROVE IInv'
  OBVIOUS
<1> USE NoThreadAssumption DEF Goto
<1>1. CASE UNCHANGED vars
  BY <1>1 DEF IInv, TypeOK, MutualExclusion, WordMeansHeld, AtMostOneHolder,
              OwnerIsInside, NoStrandedSleeper, Asleep, vars
<1>2. ASSUME NEW t \in Threads, Step(t) \/ Environment(t)
      PROVE  IInv'
  <2>1. CASE TryMutex(t)
    <3>1. TypeOK'
      BY <2>1 DEF TryMutex, IInv, TypeOK, MutualExclusion, WordMeansHeld, Places, Waiting, Holding
    <3>2. MutualExclusion'
      BY <2>1 DEF TryMutex, IInv, TypeOK, MutualExclusion, WordMeansHeld,
                 AtMostOneHolder, OwnerIsInside, Holding
    <3>3. NoStrandedSleeper'
      BY <2>1 DEF TryMutex, IInv, TypeOK, MutualExclusion, WordMeansHeld, Holding,
                 NoStrandedSleeper, Asleep, InFlight
    <3> QED
      BY <3>1, <3>2, <3>3 DEF IInv
  <2>2. CASE MutexWait(t)
    <3>1. TypeOK'
      BY <2>2 DEF MutexWait, IInv, TypeOK, MutualExclusion, WordMeansHeld, Places, Waiting, Holding
    <3>2. MutualExclusion'
      BY <2>2 DEF MutexWait, IInv, TypeOK, MutualExclusion, WordMeansHeld,
                 AtMostOneHolder, OwnerIsInside, Holding
    <3>3. NoStrandedSleeper'
      BY <2>2 DEF MutexWait, IInv, TypeOK, MutualExclusion, WordMeansHeld, Holding,
                 NoStrandedSleeper, Asleep, InFlight
    <3> QED
      BY <3>1, <3>2, <3>3 DEF IInv
  <2>3. CASE Lock(t)
    <3>1. TypeOK'
      BY <2>3 DEF Lock, IInv, TypeOK, MutualExclusion, WordMeansHeld, Places, Waiting, Holding
    <3>2. MutualExclusion'
      BY <2>3 DEF Lock, IInv, TypeOK, MutualExclusion, WordMeansHeld,
                 AtMostOneHolder, OwnerIsInside, Holding
    <3>3. NoStrandedSleeper'
      BY <2>3 DEF Lock, IInv, TypeOK, MutualExclusion, WordMeansHeld, Holding,
                 NoStrandedSleeper, Asleep, InFlight
    <3> QED
      BY <3>1, <3>2, <3>3 DEF IInv
  <2>4. CASE Contend(t)
    <3>1. TypeOK'
      BY <2>4 DEF Contend, IInv, TypeOK, MutualExclusion, WordMeansHeld, Places, Waiting, Holding
    <3>2. MutualExclusion'
      BY <2>4 DEF Contend, IInv, TypeOK, MutualExclusion, WordMeansHeld,
                 AtMostOneHolder, OwnerIsInside, Holding
    <3>3. NoStrandedSleeper'
      BY <2>4 DEF Contend, IInv, TypeOK, MutualExclusion, WordMeansHeld, Holding,
                 NoStrandedSleeper, Asleep, InFlight
    <3> QED
      BY <3>1, <3>2, <3>3 DEF IInv
  <2>5. CASE FutexWait(t)
    <3>1. TypeOK'
      BY <2>5 DEF FutexWait, IInv, TypeOK, MutualExclusion, WordMeansHeld, Places, Waiting, Holding
    <3>2. MutualExclusion'
      BY <2>5 DEF FutexWait, IInv, TypeOK, MutualExclusion, WordMeansHeld,
                 AtMostOneHolder, OwnerIsInside, Holding
    <3>3. NoStrandedSleeper'
      BY <2>5 DEF FutexWait, IInv, TypeOK, MutualExclusion, WordMeansHeld, Holding,
                 NoStrandedSleeper, Asleep, InFlight
    <3> QED
      BY <3>1, <3>2, <3>3 DEF IInv
  <2>6. CASE Recas(t)
    <3>1. TypeOK'
      BY <2>6 DEF Recas, IInv, TypeOK, MutualExclusion, WordMeansHeld, Places, Waiting, Holding
    <3>2. MutualExclusion'
      BY <2>6 DEF Recas, IInv, TypeOK, MutualExclusion, WordMeansHeld,
                 AtMostOneHolder, OwnerIsInside, Holding
    <3>3. NoStrandedSleeper'
      BY <2>6 DEF Recas, IInv, TypeOK, MutualExclusion, WordMeansHeld, Holding,
                 NoStrandedSleeper, Asleep, InFlight
    <3> QED
      BY <3>1, <3>2, <3>3 DEF IInv
  <2>7. CASE SetOwner(t)
    <3>1. TypeOK'
      BY <2>7 DEF SetOwner, IInv, TypeOK, MutualExclusion, WordMeansHeld, Places, Waiting, Holding
    <3>2. MutualExclusion'
      BY <2>7 DEF SetOwner, IInv, TypeOK, MutualExclusion, WordMeansHeld,
                 AtMostOneHolder, OwnerIsInside, Holding
    <3>3. NoStrandedSleeper'
      BY <2>7 DEF SetOwner, IInv, TypeOK, MutualExclusion, WordMeansHeld, Holding,
                 NoStrandedSleeper, Asleep, InFlight
    <3> QED
      BY <3>1, <3>2, <3>3 DEF IInv
  <2>8. CASE TimeOut(t)
    <3>1. TypeOK'
      BY <2>8 DEF TimeOut, IInv, TypeOK, MutualExclusion, WordMeansHeld, Places, Waiting, Holding
    <3>2. MutualExclusion'
      BY <2>8 DEF TimeOut, IInv, TypeOK, MutualExclusion, WordMeansHeld,
                 AtMostOneHolder, OwnerIsInside, Holding
    <3>3. NoStrandedSleeper'
      BY <2>8 DEF TimeOut, IInv, TypeOK, MutualExclusion, WordMeansHeld, Holding,
                 NoStrandedSleeper, Asleep, InFlight
    <3> QED
      BY <3>1, <3>2, <3>3 DEF IInv
  <2>9. CASE Interrupted(t)
    <3>1. TypeOK'
      BY <2>9 DEF Interrupted, IInv, TypeOK, MutualExclusion, WordMeansHeld, Places, Waiting, Holding
    <3>2. MutualExclusion'
      BY <2>9 DEF Interrupted, IInv, TypeOK, MutualExclusion, WordMeansHeld,
                 AtMostOneHolder, OwnerIsInside, Holding
    <3>3. NoStrandedSleeper'
      BY <2>9 DEF Interrupted, IInv, TypeOK, MutualExclusion, WordMeansHeld, Holding,
                 NoStrandedSleeper, Asleep, InFlight
    <3> QED
      BY <3>1, <3>2, <3>3 DEF IInv
  <2>10. CASE Unwind(t)
    <3>1. TypeOK'
      BY <2>10 DEF Unwind, IInv, TypeOK, MutualExclusion, WordMeansHeld, Places, Waiting, Holding
    <3>2. MutualExclusion'
      BY <2>10 DEF Unwind, IInv, TypeOK, MutualExclusion, WordMeansHeld,
                 AtMostOneHolder, OwnerIsInside, Holding
    <3>3. NoStrandedSleeper'
      BY <2>10 DEF Unwind, IInv, TypeOK, MutualExclusion, WordMeansHeld, Holding,
                 NoStrandedSleeper, Asleep, InFlight
    <3> QED
      BY <3>1, <3>2, <3>3 DEF IInv
  <2>11. CASE ReturnNil(t)
    <3>1. TypeOK'
      BY <2>11 DEF ReturnNil, IInv, TypeOK, MutualExclusion, WordMeansHeld, Places, Waiting, Holding
    <3>2. MutualExclusion'
      BY <2>11 DEF ReturnNil, IInv, TypeOK, MutualExclusion, WordMeansHeld,
                 AtMostOneHolder, OwnerIsInside, Holding
    <3>3. NoStrandedSleeper'
      BY <2>11 DEF ReturnNil, IInv, TypeOK, MutualExclusion, WordMeansHeld, Holding,
                 NoStrandedSleeper, Asleep, InFlight
    <3> QED
      BY <3>1, <3>2, <3>3 DEF IInv
  <2>12. CASE DeadlineDeferred(t)
    <3>1. TypeOK'
      BY <2>12 DEF DeadlineDeferred, IInv, TypeOK, MutualExclusion, WordMeansHeld, Places, Waiting, Holding
    <3>2. MutualExclusion'
      BY <2>12 DEF DeadlineDeferred, IInv, TypeOK, MutualExclusion, WordMeansHeld,
                 AtMostOneHolder, OwnerIsInside, Holding
    <3>3. NoStrandedSleeper'
      BY <2>12 DEF DeadlineDeferred, IInv, TypeOK, MutualExclusion, WordMeansHeld, Holding,
                 NoStrandedSleeper, Asleep, InFlight
    <3> QED
      BY <3>1, <3>2, <3>3 DEF IInv
  <2>13. CASE Release(t)
    <3>1. TypeOK'
      BY <2>13 DEF Release, IInv, TypeOK, MutualExclusion, WordMeansHeld, Places, Waiting, Holding
    <3>2. MutualExclusion'
      BY <2>13 DEF Release, IInv, TypeOK, MutualExclusion, WordMeansHeld,
                 AtMostOneHolder, OwnerIsInside, Holding
    <3>3. NoStrandedSleeper'
      BY <2>13 DEF Release, IInv, TypeOK, MutualExclusion, WordMeansHeld, Holding,
                 NoStrandedSleeper, Asleep, InFlight
    <3> QED
      BY <3>1, <3>2, <3>3 DEF IInv
  <2>14. CASE Decrement(t)
    <3>1. TypeOK'
      BY <2>14 DEF Decrement, IInv, TypeOK, MutualExclusion, WordMeansHeld, Places, Waiting, Holding
    <3>2. MutualExclusion'
      BY <2>14 DEF Decrement, IInv, TypeOK, MutualExclusion, WordMeansHeld,
                 AtMostOneHolder, OwnerIsInside, Holding
    <3>3. NoStrandedSleeper'
      BY <2>14 DEF Decrement, IInv, TypeOK, MutualExclusion, WordMeansHeld, Holding,
                 NoStrandedSleeper, Asleep, InFlight
    <3> QED
      BY <3>1, <3>2, <3>3 DEF IInv
  <2>15. CASE Zero(t)
    <3>1. TypeOK'
      BY <2>15 DEF Zero, IInv, TypeOK, MutualExclusion, WordMeansHeld, Places, Waiting, Holding
    <3>2. MutualExclusion'
      BY <2>15 DEF Zero, IInv, TypeOK, MutualExclusion, WordMeansHeld,
                 AtMostOneHolder, OwnerIsInside, Holding
    <3>3. NoStrandedSleeper'
      BY <2>15 DEF Zero, IInv, TypeOK, MutualExclusion, WordMeansHeld, Holding,
                 NoStrandedSleeper, Asleep, InFlight
    <3> QED
      BY <3>1, <3>2, <3>3 DEF IInv
  <2>16. CASE UnwindWake(t) \/ WakeOne(t)
    BY <2>16, WakeKeepsIInv DEF UnwindWake, WakeOne
  <2> QED
    BY <1>2, <2>1, <2>2, <2>3, <2>4, <2>5, <2>6, <2>7, <2>8, <2>9, <2>10, <2>11, <2>12, <2>13, <2>14, <2>15, <2>16 DEF Step, Environment
<1> QED
  BY <1>1, <1>2 DEF Next

------------------------------------------------------------------------------

\* The futex word stays in 0..2 and every local in its range: no interleaving
\* of %TRY-MUTEX, %MUTEX-TIMEDLOCK and RELEASE-MUTEX decrements a free word or
\* counts past "contested".
THEOREM TypeCorrect == Spec => []TypeOK
<1>1. IInv => TypeOK
  BY DEF IInv
<1> QED
  BY InitIInv, StepKeepsIInv, <1>1, PTL DEF Spec, Safe

\* GRAB-MUTEX excludes, for any number of threads: one thread between winning
\* the CAS and giving the word back, %OWNER naming it while it runs protected
\* code, and the word 0 exactly when there is none.
THEOREM Excludes == Spec => []MutualExclusion
<1>1. IInv => MutualExclusion
  BY DEF IInv
<1> QED
  BY InitIInv, StepKeepsIInv, <1>1, PTL DEF Spec, Safe

\* No wakeup is lost between RELEASE-MUTEX and %MUTEX-TIMEDLOCK, through
\* timeouts, interrupts, barging threads and non-local exits.
THEOREM NobodyStranded == Spec => []NoStrandedSleeper
<1>1. IInv => NoStrandedSleeper
  BY DEF IInv
<1> QED
  BY InitIInv, StepKeepsIInv, <1>1, PTL DEF Spec, Safe

------------------------------------------------------------------------------
(* The refinement of AbstractMutex, safety half.                              *)

\* The thread inside the lock is the one that holds the word.
LEMMA HolderIsHolding ==
  ASSUME AtMostOneHolder
  PROVE  /\ \A t \in Threads : pc[t] \in Holding => holderOf = t
         /\ (\A t \in Threads : pc[t] \notin Holding) => holderOf = NoThread
  BY DEF AtMostOneHolder, holderOf

\* The same in the next state.
LEMMA HolderIsHoldingNext ==
  ASSUME AtMostOneHolder'
  PROVE  /\ \A t \in Threads : pc'[t] \in Holding => holderOf' = t
         /\ (\A t \in Threads : pc'[t] \notin Holding) => holderOf' = NoThread
  BY DEF AtMostOneHolder, holderOf

\* A step that takes no thread into or out of the word leaves the holder alone.
LEMMA HolderStays ==
  ASSUME AtMostOneHolder, AtMostOneHolder',
         \A t \in Threads : pc'[t] \in Holding <=> pc[t] \in Holding
  PROVE  holderOf' = holderOf
<1>1. CASE \E t \in Threads : pc[t] \in Holding
  <2> PICK t \in Threads : pc[t] \in Holding
    BY <1>1
  <2> QED
    BY HolderIsHolding, HolderIsHoldingNext
<1>2. CASE \A t \in Threads : pc[t] \notin Holding
  BY <1>2, HolderIsHolding, HolderIsHoldingNext
<1> QED
  BY <1>1, <1>2

\* The mutex is created free and unwanted.
LEMMA InitRefines == Init => Abstract!Init
<1> SUFFICES ASSUME Init PROVE Abstract!Init
  OBVIOUS
<1>1. \A t \in Threads : pc[t] = "idle"
  BY DEF Init
<1>2. holderOf = NoThread
  BY <1>1 DEF holderOf, Holding
<1>3. wantingOf = {}
  BY <1>1 DEF wantingOf, Waiting
<1> QED
  BY <1>2, <1>3 DEF Abstract!Init

\* Every step of the futex protocol is a step of the abstract lock or stutters.
LEMMA StepRefines ==
  IInv /\ IInv' /\ [Next]_vars => [Abstract!Next]_Abstract!vars
<1> SUFFICES ASSUME IInv, IInv', [Next]_vars
             PROVE  [Abstract!Next]_Abstract!vars
  OBVIOUS
<1> USE DEF Goto, TypeOK
<1>a. AtMostOneHolder /\ AtMostOneHolder' /\ WordMeansHeld /\ TypeOK
  BY DEF IInv, MutualExclusion
<1>1. CASE UNCHANGED vars
  BY <1>1 DEF vars, holderOf, wantingOf, Abstract!vars
<1>2. ASSUME NEW t \in Threads, Step(t) \/ Environment(t)
      PROVE  [Abstract!Next]_Abstract!vars
  <2> SUFFICES \/ UNCHANGED <<holderOf, wantingOf>>
               \/ Abstract!Want(t) \/ Abstract!Grab(t)
               \/ Abstract!GiveUp(t) \/ Abstract!Drop(t)
    BY DEF Abstract!Next, Abstract!vars
  \* Winning the word.
  <2>1. CASE TryMutex(t) \/ ((Lock(t) \/ Recas(t)) /\ state = 0)
    <3>1. pc' = [pc EXCEPT ![t] = "won"] /\ state = 0
      BY <2>1 DEF TryMutex, Lock, Recas
    <3>2. holderOf = NoThread /\ holderOf' = t
      BY <3>1, <1>a, HolderIsHolding, HolderIsHoldingNext DEF WordMeansHeld, Holding
    <3>3. wantingOf' = wantingOf \ {t}
      BY <3>1, <1>a DEF wantingOf, Waiting
    <3> QED
      BY <3>2, <3>3 DEF Abstract!Grab
  \* Giving the word back.
  <2>2. CASE Zero(t) \/ (Decrement(t) /\ state = 1)
    <3>1. /\ pc[t] \in {"zero", "rel"}
          /\ pc' = [pc EXCEPT ![t] = IF pc[t] = "zero" THEN "wakeone" ELSE "idle"]
      BY <2>2 DEF Zero, Decrement
    <3>2. holderOf = t
      BY <3>1, <1>a, HolderIsHolding DEF Holding
    <3>3. \A u \in Threads : pc'[u] \notin Holding
      BY <3>1, <1>a DEF AtMostOneHolder, Holding
    <3>4. holderOf' = NoThread
      BY <3>3, <1>a, HolderIsHoldingNext
    <3>5. wantingOf' = wantingOf
      BY <3>1, <1>a DEF wantingOf, Waiting
    <3> QED
      BY <3>2, <3>4, <3>5 DEF Abstract!Drop
  \* Entering %MUTEX-TIMEDLOCK.
  <2>3. CASE MutexWait(t)
    <3>1. pc[t] = "idle" /\ pc' = [pc EXCEPT ![t] = "lock"]
      BY <2>3 DEF MutexWait
    <3>2. holderOf' = holderOf
      BY <3>1, <1>a, HolderStays DEF Holding
    <3>3. t \notin wantingOf /\ wantingOf' = wantingOf \cup {t}
      BY <3>1, <1>a DEF wantingOf, Waiting
    <3> QED
      BY <3>2, <3>3 DEF Abstract!Want
  \* Leaving it empty-handed.
  <2>4. CASE Unwind(t) \/ ReturnNil(t)
    <3>1. /\ pc[t] \in Waiting
          /\ \E place \in {"unwind", "idle"} : pc' = [pc EXCEPT ![t] = place]
      BY <2>4 DEF Unwind, ReturnNil, Waiting
    <3>2. holderOf' = holderOf
      BY <3>1, <1>a, HolderStays DEF Holding, Waiting
    <3>3. t \in wantingOf /\ wantingOf' = wantingOf \ {t}
      BY <3>1, <1>a DEF wantingOf, Waiting
    <3> QED
      BY <3>2, <3>3 DEF Abstract!GiveUp
  \* What the abstract lock does not see: moves among the waiting places ...
  <2>5. CASE \/ (Lock(t) \/ Recas(t)) /\ state # 0
             \/ Contend(t) \/ FutexWait(t) \/ TimeOut(t) \/ Interrupted(t)
             \/ DeadlineDeferred(t)
    <3>1. /\ pc[t] \in Waiting
          /\ \E place \in Waiting : pc' = [pc EXCEPT ![t] = place]
      BY <2>5 DEF Lock, Recas, Contend, FutexWait, TimeOut, Interrupted,
                 DeadlineDeferred, Waiting
    <3>2. holderOf' = holderOf
      BY <3>1, <1>a, HolderStays DEF Holding, Waiting
    <3>3. wantingOf' = wantingOf
      BY <3>1, <1>a DEF wantingOf
    <3> QED
      BY <3>2, <3>3
  \* ... and inside the lock, ...
  <2>6. CASE SetOwner(t) \/ Release(t) \/ (Decrement(t) /\ state # 1)
    <3>1. /\ pc[t] \in Holding
          /\ \E place \in Holding : pc' = [pc EXCEPT ![t] = place]
      BY <2>6 DEF SetOwner, Release, Decrement, Holding
    <3>2. holderOf' = holderOf
      BY <3>1, <1>a, HolderStays
    <3>3. wantingOf' = wantingOf
      BY <3>1, <1>a DEF wantingOf, Waiting, Holding
    <3> QED
      BY <3>2, <3>3
  \* ... and wakeups.
  <2>7. CASE UnwindWake(t) \/ WakeOne(t)
    <3>1. \A u \in Threads : pc'[u] \in Holding <=> pc[u] \in Holding
      BY <2>7, <1>a DEF UnwindWake, WakeOne, FutexWakeOne, Asleep, Holding
    <3>2. \A u \in Threads : pc'[u] \in Waiting <=> pc[u] \in Waiting
      BY <2>7, <1>a DEF UnwindWake, WakeOne, FutexWakeOne, Asleep, Waiting
    <3>3. holderOf' = holderOf
      BY <3>1, <1>a, HolderStays
    <3>4. wantingOf' = wantingOf
      BY <3>2 DEF wantingOf
    <3> QED
      BY <3>3, <3>4
  <2> QED
    BY <1>2, <1>a, <2>1, <2>2, <2>3, <2>4, <2>5, <2>6, <2>7
    DEF Step, Environment
<1> QED
  BY <1>1, <1>2 DEF Next

\* The futex mutex implements the lock its callers assume, for any number of
\* threads: at most one holder, who came by Grab and leaves by Drop.
THEOREM RefinesAbstractMutex == Spec => Abstract!Safe
<1>1. Spec => []IInv
  BY InitIInv, StepKeepsIInv, PTL DEF Spec, Safe
<1> QED
  BY <1>1, InitRefines, StepRefines, PTL DEF Spec, Safe, Abstract!Safe
==============================================================================
