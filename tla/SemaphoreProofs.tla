----------------------------- MODULE SemaphoreProofs -----------------------------
(* Proofs about Semaphore for any finite set of threads, any amounts, any bound *)
(* of the count and any size of a word that can count the threads.              *)
(*                                                                              *)
(* What has to do with the mutex, and that no unit is taken twice, holds for    *)
(* every kind of wait.  That signals reach the sleepers holds where no wait     *)
(* unwinds out of DECODE-TIMEOUT: then the wait count is the number of threads  *)
(* between their first %CONDITION-WAIT and the cleanup, and a signal cannot     *)
(* overlook one that sleeps.                                                    *)
EXTENDS Semaphore, FiniteSetTheorems, TLAPS

\* Types and the mutex: inductive for every kind of wait.
Owned == TypeOK /\ MutexAccounted

\* No wait unwinds before it is counted, that is, out of DECODE-TIMEOUT.
AllCounted == \A t \in Threads : pc[t] # "uncounted"

CountedPlaces == WaitPlaces \cup {"back", "nil", "thrown"}

Counted  == {t \in Threads : pc[t] \in CountedPlaces}
Sleepers == {t \in Threads : pc[t] \in {"cwait", "asleep"}}

\* The wait count is the number of the threads between their first
\* %CONDITION-WAIT and the cleanup of %DECREMENT-SEMAPHORE.
CountsWaiters == waitcount = Cardinality(Counted)

\* A signaller wakes enough of those that sleep or are about to.
NotifierWakes ==
  \A t \in Threads : pc[t] \in {"notify", "unlock"} =>
    wakes[t] >= MinOf(count, Cardinality(Sleepers))

Counts == CountsWaiters /\ NotifierWakes

IInv == Owned /\ Counts

------------------------------------------------------------------------------
(* What the steps are built from.                                              *)

\* Sets of threads are finite.
LEMMA Finite ==
  ASSUME NEW S \in SUBSET Threads
  PROVE  /\ IsFiniteSet(S)
         /\ Cardinality(S) \in Nat
         /\ Cardinality(S) <= Cardinality(Threads)
         /\ Cardinality(Threads) \in Nat
BY CondVarAssumption, FS_Subset, FS_CardinalityType

\* A subset is not larger.
LEMMA Smaller ==
  ASSUME NEW S \in SUBSET Threads, NEW T \in SUBSET S
  PROVE  Cardinality(T) <= Cardinality(S)
BY Finite, FS_Subset

\* futex_wake moves the caller, and sleepers out of FUTEX-WAIT.
LEMMA WakeMoves ==
  ASSUME TypeOK, NEW t \in Threads, NEW n, NEW place \in Places, FutexWake(t, n, place)
  PROVE  /\ pc' \in [Threads -> Places]
         /\ pc'[t] = place
         /\ \A s \in Threads \ {t} :
              pc'[s] = pc[s] \/ (pc[s] = "asleep" /\ pc'[s] = "awake")
BY DEF TypeOK, FutexWake, Asleep, Places, WaitPlaces

\* Waits are for a number of units.
LEMMA NeedIsNat == TypeOK => \A t \in Threads : need[t] \in Nat \ {0}
<1>1. Amounts \cup {1} \subseteq Nat \ {0}
  BY SemaphoreAssumption
<1> QED
  BY <1>1 DEF TypeOK

------------------------------------------------------------------------------
(* Types and the mutex.                                                        *)

\* Nobody has the mutex.
LEMMA InitOwned == Init => Owned
BY CondVarAssumption, SemaphoreAssumption, Finite
DEF Init, CvInit, Owned, TypeOK, MutexAccounted, Places, ClientPlaces, KindsOfWait

\* Each step of Semaphore and of the condition variable keeps types and owner.
LEMMA NextOwned == Owned /\ [Next]_vars => Owned'
<1> SUFFICES ASSUME Owned, [Next]_vars PROVE Owned'
  OBVIOUS
<1>0. Word \in Nat \ {0}
  BY SemaphoreAssumption, Finite
<1> USE <1>0, CondVarAssumption, SemaphoreAssumption DEF Owned

<1>1. ASSUME NEW t \in Threads, FutexWait(t), UNCHANGED semVars PROVE Owned'
  <2>1. pc' \in [Threads -> Places]
    BY <1>1 DEF FutexWait, semVars, Goto, TypeOK, Places, ClientPlaces, WaitPlaces
  <2>2. TypeOK'
    BY <1>1, <2>1 DEF FutexWait, semVars, Goto, TypeOK, KindsOfWait
  <2>3. MutexAccounted'
    BY <1>1, <2>1 DEF FutexWait, semVars, Goto, TypeOK, MutexAccounted
  <2> QED  BY <2>2, <2>3
<1>2. ASSUME NEW t \in Threads, StillTime(t), UNCHANGED semVars PROVE Owned'
  <2>1. pc' \in [Threads -> Places]
    BY <1>2 DEF StillTime, semVars, Goto, TypeOK, Places, ClientPlaces, WaitPlaces
  <2>2. TypeOK'
    BY <1>2, <2>1 DEF StillTime, semVars, Goto, TypeOK, KindsOfWait
  <2>3. MutexAccounted'
    BY <1>2, <2>1 DEF StillTime, semVars, Goto, TypeOK, MutexAccounted
  <2> QED  BY <2>2, <2>3
<1>3. ASSUME NEW t \in Threads, ReturnNil(t), UNCHANGED semVars PROVE Owned'
  <2>1. pc' \in [Threads -> Places]
    BY <1>3 DEF ReturnNil, semVars, Goto, TypeOK, Places, ClientPlaces, WaitPlaces
  <2>2. TypeOK'
    BY <1>3, <2>1 DEF ReturnNil, semVars, Goto, TypeOK, KindsOfWait
  <2>3. MutexAccounted'
    BY <1>3, <2>1 DEF ReturnNil, semVars, Goto, TypeOK, MutexAccounted
  <2> QED  BY <2>2, <2>3
<1>4. ASSUME NEW t \in Threads, TryBeforeSignal(t), UNCHANGED semVars PROVE Owned'
  <2>1. pc' \in [Threads -> Places]
    BY <1>4 DEF TryBeforeSignal, semVars, Goto, TypeOK, Places, ClientPlaces, WaitPlaces
  <2>2. TypeOK'
    BY <1>4, <2>1 DEF TryBeforeSignal, semVars, Goto, TypeOK, KindsOfWait
  <2>3. MutexAccounted'
    BY <1>4, <2>1 DEF TryBeforeSignal, semVars, Goto, TypeOK, MutexAccounted
  <2> QED  BY <2>2, <2>3
<1>5. ASSUME NEW t \in Threads, DeadlineDeferred(t), UNCHANGED semVars PROVE Owned'
  <2>1. /\ pc' \in [Threads -> Places]
        /\ \/ pc[t] = "signalin" /\ pc'[t] = "back"
           \/ pc[t] = "signal" /\ pc'[t] = "relock"
        /\ \A s \in Threads \ {t} : pc'[s] = pc[s] \/ (pc[s] = "asleep" /\ pc'[s] = "awake")
    BY <1>5, WakeMoves DEF DeadlineDeferred, Goto, TypeOK, Places, ClientPlaces, WaitPlaces
  <2>2. TypeOK'
    BY <1>5, <2>1 DEF DeadlineDeferred, semVars, TypeOK, KindsOfWait
  <2>3. MutexAccounted'
    BY <1>5, <2>1 DEF DeadlineDeferred, semVars, TypeOK, MutexAccounted
  <2> QED  BY <2>2, <2>3
<1>6. ASSUME NEW t \in Threads, Relock(t), UNCHANGED semVars PROVE Owned'
  <2>1. pc' \in [Threads -> Places]
    BY <1>6 DEF Relock, semVars, Goto, TypeOK, Places, ClientPlaces, WaitPlaces
  <2>2. TypeOK'
    BY <1>6, <2>1 DEF Relock, semVars, Goto, TypeOK, KindsOfWait
  <2>3. MutexAccounted'
    BY <1>6, <2>1 DEF Relock, semVars, Goto, TypeOK, MutexAccounted
  <2> QED  BY <2>2, <2>3
<1>7. ASSUME NEW t \in Threads, UnwindWake(t), UNCHANGED semVars PROVE Owned'
  <2>1. /\ pc' \in [Threads -> Places]
        /\ pc[t] = "unwind" /\ pc'[t] = "thrown"
        /\ \A s \in Threads \ {t} : pc'[s] = pc[s] \/ (pc[s] = "asleep" /\ pc'[s] = "awake")
    BY <1>7, WakeMoves DEF UnwindWake, Places, ClientPlaces
  <2>2. TypeOK'
    BY <1>7, <2>1 DEF UnwindWake, semVars, TypeOK, KindsOfWait
  <2>3. MutexAccounted'
    BY <1>7, <2>1 DEF UnwindWake, semVars, TypeOK, MutexAccounted
  <2> QED  BY <2>2, <2>3
<1>8. ASSUME NEW t \in Threads, TimeOut(t), UNCHANGED semVars PROVE Owned'
  <2>1. pc' \in [Threads -> Places]
    BY <1>8 DEF TimeOut, semVars, Goto, TypeOK, Places, ClientPlaces, WaitPlaces
  <2>2. TypeOK'
    BY <1>8, <2>1 DEF TimeOut, semVars, Goto, TypeOK, KindsOfWait
  <2>3. MutexAccounted'
    BY <1>8, <2>1 DEF TimeOut, semVars, Goto, TypeOK, MutexAccounted
  <2> QED  BY <2>2, <2>3
<1>9. ASSUME NEW t \in Threads, Interrupted(t), UNCHANGED semVars PROVE Owned'
  <2>1. pc' \in [Threads -> Places]
    BY <1>9 DEF Interrupted, semVars, Goto, TypeOK, Places, ClientPlaces, WaitPlaces
  <2>2. TypeOK'
    BY <1>9, <2>1 DEF Interrupted, semVars, Goto, TypeOK, KindsOfWait
  <2>3. MutexAccounted'
    BY <1>9, <2>1 DEF Interrupted, semVars, Goto, TypeOK, MutexAccounted
  <2> QED  BY <2>2, <2>3
<1>10. ASSUME NEW t \in Threads, Unwind(t), UNCHANGED semVars PROVE Owned'
  <2>1. pc' \in [Threads -> Places]
    BY <1>10 DEF Unwind, semVars, Goto, TypeOK, Places, ClientPlaces, WaitPlaces
  <2>2. TypeOK'
    BY <1>10, <2>1 DEF Unwind, semVars, Goto, TypeOK, KindsOfWait
  <2>3. MutexAccounted'
    BY <1>10, <2>1 DEF Unwind, semVars, Goto, TypeOK, MutexAccounted
  <2> QED  BY <2>2, <2>3
<1>11. ASSUME NEW t \in Threads, NoTimeLeft(t), UNCHANGED semVars PROVE Owned'
  <2>1. pc' \in [Threads -> Places]
    BY <1>11 DEF NoTimeLeft, semVars, Goto, TypeOK, Places, ClientPlaces, WaitPlaces
  <2>2. TypeOK'
    BY <1>11, <2>1 DEF NoTimeLeft, semVars, Goto, TypeOK, KindsOfWait
  <2>3. MutexAccounted'
    BY <1>11, <2>1 DEF NoTimeLeft, semVars, Goto, TypeOK, MutexAccounted
  <2> QED  BY <2>2, <2>3
<1>12. ASSUME NEW t \in Threads, RelockTimeOut(t), UNCHANGED semVars PROVE Owned'
  <2>1. pc' \in [Threads -> Places]
    BY <1>12 DEF RelockTimeOut, semVars, Goto, TypeOK, Places, ClientPlaces, WaitPlaces
  <2>2. TypeOK'
    BY <1>12, <2>1 DEF RelockTimeOut, semVars, Goto, TypeOK, KindsOfWait
  <2>3. MutexAccounted'
    BY <1>12, <2>1 DEF RelockTimeOut, semVars, Goto, TypeOK, MutexAccounted
  <2> QED  BY <2>2, <2>3
<1>13. ASSUME NEW t \in Threads, Enter(t) PROVE Owned'
  <2>1. pc' \in [Threads -> Places]
    BY <1>13 DEF Enter, semVars, Goto, TypeOK, Places, ClientPlaces, WaitPlaces
  <2>2. TypeOK'
    BY <1>13, <2>1 DEF Enter, semVars, Goto, TypeOK, KindsOfWait
  <2>3. MutexAccounted'
    BY <1>13, <2>1 DEF Enter, semVars, Goto, TypeOK, MutexAccounted
  <2> QED  BY <2>2, <2>3
<1>14. ASSUME NEW t \in Threads, QuickCheck(t) PROVE Owned'
  <2>1. pc' \in [Threads -> Places]
    BY <1>14 DEF QuickCheck, Succeed, Goto, Done, TypeOK, Places, ClientPlaces, WaitPlaces
  <2>2. TypeOK'
    <3>1. need[t] \in Nat
      BY NeedIsNat
    <3>2. count' = count - need[t] /\ count >= need[t]
      BY <1>14 DEF QuickCheck, Succeed
    <3>3. count' \in 0..MaxCount
      BY <3>1, <3>2 DEF TypeOK
    <3> QED
      BY <1>14, <2>1, <3>3 DEF QuickCheck, Succeed, Goto, Done, TypeOK, KindsOfWait
  <2>3. MutexAccounted'
    BY <1>14, <2>1 DEF QuickCheck, Succeed, Goto, Done, TypeOK, MutexAccounted
  <2> QED  BY <2>2, <2>3
<1>15. ASSUME NEW t \in Threads, DeadlineExpired(t) PROVE Owned'
  <2>1. pc' \in [Threads -> Places]
    BY <1>15 DEF DeadlineExpired, semVars, Goto, TypeOK, Places, ClientPlaces, WaitPlaces
  <2>2. TypeOK'
    BY <1>15, <2>1 DEF DeadlineExpired, semVars, Goto, TypeOK, KindsOfWait
  <2>3. MutexAccounted'
    BY <1>15, <2>1 DEF DeadlineExpired, semVars, Goto, TypeOK, MutexAccounted
  <2> QED  BY <2>2, <2>3
<1>16. ASSUME NEW t \in Threads, Block(t) PROVE Owned'
  <2>1. pc' \in [Threads -> Places]
    BY <1>16 DEF Block, StartWait, Count, Goto, TypeOK, Places, ClientPlaces, WaitPlaces
  <2>2. TypeOK'
    BY <1>16, <2>1 DEF Block, StartWait, Count, Goto, TypeOK, KindsOfWait
  <2>3. MutexAccounted'
    BY <1>16, <2>1 DEF Block, StartWait, Count, Goto, TypeOK, MutexAccounted
  <2> QED  BY <2>2, <2>3
<1>17. ASSUME NEW t \in Threads, WaitAgain(t) PROVE Owned'
  <2>1. pc' \in [Threads -> Places]
    BY <1>17 DEF WaitAgain, semVars, StartWait, Goto, TypeOK, Places, ClientPlaces, WaitPlaces
  <2>2. TypeOK'
    BY <1>17, <2>1 DEF WaitAgain, semVars, StartWait, Goto, TypeOK, KindsOfWait
  <2>3. MutexAccounted'
    BY <1>17, <2>1 DEF WaitAgain, semVars, StartWait, Goto, TypeOK, MutexAccounted
  <2> QED  BY <2>2, <2>3
<1>18. ASSUME NEW t \in Threads, Take(t) PROVE Owned'
  <2>1. pc' \in [Threads -> Places]
    BY <1>18 DEF Take, Succeed, Uncount, Goto, Done, TypeOK, Places, ClientPlaces, WaitPlaces
  <2>2. TypeOK'
    <3>1. need[t] \in Nat
      BY NeedIsNat
    <3>2. count' = count - need[t] /\ count >= need[t]
      BY <1>18 DEF Take, Succeed
    <3>3. count' \in 0..MaxCount
      BY <3>1, <3>2 DEF TypeOK
    <3> QED
      BY <1>18, <2>1, <3>3 DEF Take, Succeed, Uncount, Goto, Done, TypeOK, KindsOfWait
  <2>3. MutexAccounted'
    BY <1>18, <2>1 DEF Take, Succeed, Uncount, Goto, Done, TypeOK, MutexAccounted
  <2> QED  BY <2>2, <2>3
<1>19. ASSUME NEW t \in Threads, Leave(t) PROVE Owned'
  <2>1. pc' \in [Threads -> Places]
    BY <1>19 DEF Leave, Uncount, Goto, Done, TypeOK, Places, ClientPlaces, WaitPlaces
  <2>2. TypeOK'
    BY <1>19, <2>1 DEF Leave, Uncount, Goto, Done, TypeOK, KindsOfWait
  <2>3. MutexAccounted'
    BY <1>19, <2>1 DEF Leave, Uncount, Goto, Done, TypeOK, MutexAccounted
  <2> QED  BY <2>2, <2>3
<1>20. ASSUME NEW t \in Threads, Notify(t) PROVE Owned'
  <2>1. /\ pc' \in [Threads -> Places]
        /\ pc[t] = "notify" /\ pc'[t] = "unlock"
        /\ \A s \in Threads \ {t} : pc'[s] = pc[s] \/ (pc[s] = "asleep" /\ pc'[s] = "awake")
    BY <1>20, WakeMoves DEF Notify, Places
  <2>2. TypeOK'
    BY <1>20, <2>1 DEF Notify, semVars, TypeOK, KindsOfWait
  <2>3. MutexAccounted'
    BY <1>20, <2>1 DEF Notify, semVars, TypeOK, MutexAccounted
  <2> QED  BY <2>2, <2>3
<1>21. ASSUME NEW t \in Threads, Unlock(t) PROVE Owned'
  <2>1. pc' \in [Threads -> Places]
    BY <1>21 DEF Unlock, semVars, Goto, TypeOK, Places, ClientPlaces, WaitPlaces
  <2>2. TypeOK'
    BY <1>21, <2>1 DEF Unlock, semVars, Goto, TypeOK, KindsOfWait
  <2>3. MutexAccounted'
    BY <1>21, <2>1 DEF Unlock, semVars, Goto, TypeOK, MutexAccounted
  <2> QED  BY <2>2, <2>3
<1>22. ASSUME NEW t \in Threads, Begin(t) PROVE Owned'
  <2>1. pc' \in [Threads -> Places]
    BY <1>22 DEF Begin, semVars, Goto, TypeOK, Places, ClientPlaces, WaitPlaces
  <2>2. TypeOK'
    BY <1>22, <2>1 DEF Begin, semVars, Goto, TypeOK, KindsOfWait
  <2>3. MutexAccounted'
    BY <1>22, <2>1 DEF Begin, semVars, Goto, TypeOK, MutexAccounted
  <2> QED  BY <2>2, <2>3
<1>23. ASSUME NEW t \in Threads, EnterUnwound(t) PROVE Owned'
  <2>1. pc' \in [Threads -> Places]
    BY <1>23 DEF EnterUnwound, semVars, Goto, Done, TypeOK, Places, ClientPlaces, WaitPlaces
  <2>2. TypeOK'
    BY <1>23, <2>1 DEF EnterUnwound, semVars, Goto, Done, TypeOK, KindsOfWait
  <2>3. MutexAccounted'
    BY <1>23, <2>1 DEF EnterUnwound, semVars, Goto, Done, TypeOK, MutexAccounted
  <2> QED  BY <2>2, <2>3
<1>24. ASSUME NEW t \in Threads, NoneRemaining(t) PROVE Owned'
  <2>1. pc' \in [Threads -> Places]
    BY <1>24 DEF NoneRemaining, semVars, Goto, TypeOK, Places, ClientPlaces, WaitPlaces
  <2>2. TypeOK'
    BY <1>24, <2>1 DEF NoneRemaining, semVars, Goto, TypeOK, KindsOfWait
  <2>3. MutexAccounted'
    BY <1>24, <2>1 DEF NoneRemaining, semVars, Goto, TypeOK, MutexAccounted
  <2> QED  BY <2>2, <2>3
<1>25. ASSUME NEW t \in Threads, Signal(t) PROVE Owned'
  <2>1. pc' \in [Threads -> Places]
    BY <1>25 DEF Signal, MinOf, Goto, TypeOK, Places, ClientPlaces, WaitPlaces
  <2>2. TypeOK'
    BY <1>25, <2>1 DEF Signal, MinOf, Goto, TypeOK, KindsOfWait
  <2>3. MutexAccounted'
    BY <1>25, <2>1 DEF Signal, MinOf, Goto, TypeOK, MutexAccounted
  <2> QED  BY <2>2, <2>3
<1>26. ASSUME NEW t \in Threads, Try(t) PROVE Owned'
  <2>1. pc' \in [Threads -> Places]
    BY <1>26 DEF Try, semVars, cvVars, TypeOK, Places, ClientPlaces, WaitPlaces
  <2>2. TypeOK'
    BY <1>26, <2>1 DEF Try, semVars, cvVars, TypeOK, KindsOfWait
  <2>3. MutexAccounted'
    BY <1>26, <2>1 DEF Try, semVars, cvVars, TypeOK, MutexAccounted
  <2> QED  BY <2>2, <2>3
<1>27. CASE UNCHANGED vars
  BY <1>27 DEF vars, TypeOK, MutexAccounted
<1> QED
  BY <1>1, <1>2, <1>3, <1>4, <1>5, <1>6, <1>7, <1>8, <1>9, <1>10, <1>11, <1>12, <1>13, <1>14, <1>15, <1>16, <1>17, <1>18, <1>19, <1>20, <1>21, <1>22, <1>23, <1>24, <1>25, <1>26, <1>27
  DEF Next, Step, Environment, CvStep, CvEnvironment

\* They hold in every reachable state.
THEOREM OwnedAlways == Safe => []Owned
BY InitOwned, NextOwned, PTL DEF Safe

\* The count and the token keep their types whatever waits and unwinds: the count
\* never goes below zero, while the wait count may go round.
THEOREM TypeCorrect == Safe => []TypeOK
BY OwnedAlways, PTL DEF Owned

\* A thread has the mutex exactly where %DECREMENT-SEMAPHORE and
\* %CONDITION-WAIT believe so.
THEOREM MutexIsAccounted == Safe => []MutexAccounted
BY OwnedAlways, PTL DEF Owned

------------------------------------------------------------------------------
(* The semaphore of the docstrings.                                            *)

\* Initially nobody waits.
LEMMA InitAbstract == Init => Abstract!Init
BY DEF Init, CvInit, Abstract!Init, waitingNow, WaitPlaces

\* What changes no unit and lets nobody in or out is no step of the semaphore.
LEMMA Stutters ==
  ASSUME UNCHANGED <<count, need>>,
         \A s \in Threads :
           pc'[s] \in WaitPlaces \cup {"enter", "in", "back"}
           <=> pc[s] \in WaitPlaces \cup {"enter", "in", "back"}
  PROVE  UNCHANGED Abstract!vars
BY DEF Abstract!vars, waitingNow

\* A thread leaves the wait without its units.
LEMMA GivesUp ==
  ASSUME UNCHANGED <<count, need>>, NEW t \in Threads,
         pc[t] \in WaitPlaces \cup {"enter", "in", "back"},
         pc'[t] \notin WaitPlaces \cup {"enter", "in", "back"},
         \A s \in Threads \ {t} :
           pc'[s] \in WaitPlaces \cup {"enter", "in", "back"}
           <=> pc[s] \in WaitPlaces \cup {"enter", "in", "back"}
  PROVE  Abstract!GiveUp(t)
BY DEF Abstract!GiveUp, waitingNow

\* Every step of the code is a step of the abstract semaphore or a stutter.
LEMMA NextAbstract == Owned /\ [Next]_vars => [Abstract!Next]_(Abstract!vars)
<1> SUFFICES ASSUME Owned, [Next]_vars PROVE [Abstract!Next]_(Abstract!vars)
  OBVIOUS
<1> USE DEF Owned
<1>1. ASSUME NEW t \in Threads, FutexWait(t), UNCHANGED semVars PROVE UNCHANGED Abstract!vars
  BY <1>1, Stutters DEF FutexWait, semVars, Goto, TypeOK, WaitPlaces
<1>2. ASSUME NEW t \in Threads, StillTime(t), UNCHANGED semVars PROVE UNCHANGED Abstract!vars
  BY <1>2, Stutters DEF StillTime, semVars, Goto, TypeOK, WaitPlaces
<1>3. ASSUME NEW t \in Threads, ReturnNil(t), UNCHANGED semVars PROVE Abstract!GiveUp(t)
  BY <1>3, GivesUp DEF ReturnNil, semVars, Goto, TypeOK, WaitPlaces
<1>4. ASSUME NEW t \in Threads, TryBeforeSignal(t), UNCHANGED semVars PROVE UNCHANGED Abstract!vars
  BY <1>4, Stutters DEF TryBeforeSignal, semVars, Goto, TypeOK, WaitPlaces
<1>5. ASSUME NEW t \in Threads, DeadlineDeferred(t), UNCHANGED semVars PROVE UNCHANGED Abstract!vars
  <2>1. /\ \/ pc[t] = "signalin" /\ pc'[t] = "back"
           \/ pc[t] = "signal" /\ pc'[t] = "relock"
        /\ \A s \in Threads \ {t} : pc'[s] = pc[s] \/ (pc[s] = "asleep" /\ pc'[s] = "awake")
    BY <1>5, WakeMoves DEF DeadlineDeferred, Goto, TypeOK, Places, ClientPlaces, WaitPlaces
  <2> QED
    BY <1>5, <2>1, Stutters DEF semVars, WaitPlaces
<1>6. ASSUME NEW t \in Threads, Relock(t), UNCHANGED semVars PROVE UNCHANGED Abstract!vars
  BY <1>6, Stutters DEF Relock, semVars, Goto, TypeOK, WaitPlaces
<1>7. ASSUME NEW t \in Threads, UnwindWake(t), UNCHANGED semVars PROVE Abstract!GiveUp(t)
  <2>1. /\ pc[t] = "unwind" /\ pc'[t] = "thrown"
        /\ \A s \in Threads \ {t} : pc'[s] = pc[s] \/ (pc[s] = "asleep" /\ pc'[s] = "awake")
    BY <1>7, WakeMoves DEF UnwindWake, Places, ClientPlaces
  <2> QED
    BY <1>7, <2>1, GivesUp DEF semVars, WaitPlaces
<1>8. ASSUME NEW t \in Threads, TimeOut(t), UNCHANGED semVars PROVE UNCHANGED Abstract!vars
  BY <1>8, Stutters DEF TimeOut, semVars, Goto, TypeOK, WaitPlaces
<1>9. ASSUME NEW t \in Threads, Interrupted(t), UNCHANGED semVars PROVE UNCHANGED Abstract!vars
  BY <1>9, Stutters DEF Interrupted, semVars, Goto, TypeOK, WaitPlaces
<1>10. ASSUME NEW t \in Threads, Unwind(t), UNCHANGED semVars PROVE UNCHANGED Abstract!vars
  BY <1>10, Stutters DEF Unwind, semVars, Goto, TypeOK, WaitPlaces
<1>11. ASSUME NEW t \in Threads, NoTimeLeft(t), UNCHANGED semVars PROVE UNCHANGED Abstract!vars
  BY <1>11, Stutters DEF NoTimeLeft, semVars, Goto, TypeOK, WaitPlaces
<1>12. ASSUME NEW t \in Threads, RelockTimeOut(t), UNCHANGED semVars PROVE Abstract!GiveUp(t)
  BY <1>12, GivesUp DEF RelockTimeOut, semVars, Goto, TypeOK, WaitPlaces
<1>13. ASSUME NEW t \in Threads, Enter(t) PROVE UNCHANGED Abstract!vars
  BY <1>13, Stutters DEF Enter, semVars, Goto, TypeOK, WaitPlaces
<1>14. ASSUME NEW t \in Threads, QuickCheck(t) PROVE Abstract!Take(t)
  BY <1>14 DEF QuickCheck, Succeed, Goto, Done, TypeOK, Abstract!Take, waitingNow, WaitPlaces
<1>15. ASSUME NEW t \in Threads, DeadlineExpired(t) PROVE Abstract!GiveUp(t) \/ UNCHANGED Abstract!vars
  <2>1. CASE pc' = pc
    BY <1>15, <2>1, Stutters DEF DeadlineExpired, semVars
  <2>2. CASE Goto(t, "uncounted")
    BY <1>15, <2>2, GivesUp DEF DeadlineExpired, Goto, TypeOK, WaitPlaces, semVars
  <2> QED
    BY <1>15, <2>1, <2>2 DEF DeadlineExpired
<1>16. ASSUME NEW t \in Threads, Block(t) PROVE UNCHANGED Abstract!vars
  BY <1>16, Stutters DEF Block, StartWait, Count, Goto, TypeOK, WaitPlaces
<1>17. ASSUME NEW t \in Threads, WaitAgain(t) PROVE UNCHANGED Abstract!vars
  BY <1>17, Stutters DEF WaitAgain, semVars, StartWait, Goto, TypeOK, WaitPlaces
<1>18. ASSUME NEW t \in Threads, Take(t) PROVE Abstract!Take(t)
  BY <1>18 DEF Take, Succeed, Uncount, Goto, Done, TypeOK, Abstract!Take, waitingNow, WaitPlaces
<1>19. ASSUME NEW t \in Threads, Leave(t) PROVE UNCHANGED Abstract!vars
  BY <1>19, Stutters DEF Leave, Uncount, Goto, Done, TypeOK, WaitPlaces
<1>20. ASSUME NEW t \in Threads, Notify(t) PROVE UNCHANGED Abstract!vars
  <2>1. /\ pc[t] = "notify" /\ pc'[t] = "unlock"
        /\ \A s \in Threads \ {t} : pc'[s] = pc[s] \/ (pc[s] = "asleep" /\ pc'[s] = "awake")
    BY <1>20, WakeMoves DEF Notify, Places
  <2> QED
    BY <1>20, <2>1, Stutters DEF Notify, semVars, WaitPlaces
<1>21. ASSUME NEW t \in Threads, Unlock(t) PROVE UNCHANGED Abstract!vars
  BY <1>21, Stutters DEF Unlock, semVars, Goto, TypeOK, WaitPlaces
<1>22. ASSUME NEW t \in Threads, Begin(t) PROVE Abstract!Begin(t)
  BY <1>22 DEF Begin, semVars, Goto, TypeOK, Abstract!Begin, waitingNow, WaitPlaces
<1>23. ASSUME NEW t \in Threads, EnterUnwound(t) PROVE Abstract!GiveUp(t)
  BY <1>23, GivesUp DEF EnterUnwound, semVars, Goto, Done, TypeOK, WaitPlaces
<1>24. ASSUME NEW t \in Threads, NoneRemaining(t) PROVE Abstract!GiveUp(t)
  BY <1>24, GivesUp DEF NoneRemaining, semVars, Goto, TypeOK, WaitPlaces
<1>25. ASSUME NEW t \in Threads, Signal(t) PROVE Abstract!Signal
  BY <1>25 DEF Signal, MinOf, Goto, TypeOK, Abstract!Signal, waitingNow, WaitPlaces
<1>26. ASSUME NEW t \in Threads, Try(t) PROVE Abstract!Try
  BY <1>26 DEF Try, semVars, cvVars, TypeOK, Abstract!Try, waitingNow, WaitPlaces
<1>27. CASE UNCHANGED vars
  BY <1>27 DEF vars, Abstract!vars, waitingNow
<1> QED
  BY <1>1, <1>2, <1>3, <1>4, <1>5, <1>6, <1>7, <1>8, <1>9, <1>10, <1>11, <1>12, <1>13, <1>14, <1>15, <1>16, <1>17, <1>18, <1>19, <1>20, <1>21, <1>22, <1>23, <1>24, <1>25, <1>26, <1>27
  DEF Next, Step, Environment, CvStep, CvEnvironment, Abstract!Next

\* WAIT-ON-SEMAPHORE, TRY-SEMAPHORE and SIGNAL-SEMAPHORE are safe with every kind
\* of wait and every amount: no unit is taken twice or lost, and a wait that
\* takes its units takes all of them at once.
THEOREM RefinesAbstractSemaphore == Safe => ImplementsSafely
<1>1. Safe => Abstract!Init /\ [][Abstract!Next]_(Abstract!vars)
  BY InitAbstract, NextAbstract, OwnedAlways, PTL DEF Safe
<1> QED
  BY <1>1 DEF ImplementsSafely, Abstract!Safe

------------------------------------------------------------------------------
(* The wait count, where no wait unwinds before it is counted.                  *)

\* A signaller before its UNLOCK is not disturbed while nothing but sleepers
\* change.
LEMMA NotifierStays ==
  ASSUME Owned, NotifierWakes, Owned',
         \A s \in Threads : pc'[s] \in {"notify", "unlock"} =>
           /\ pc[s] \in {"notify", "unlock"}
           /\ wakes'[s] = wakes[s] /\ count' = count
           /\ Sleepers' \subseteq Sleepers
  PROVE  NotifierWakes'
<1> SUFFICES ASSUME NEW s \in Threads, pc'[s] \in {"notify", "unlock"}
             PROVE  wakes'[s] >= MinOf(count', Cardinality(Sleepers'))
  BY DEF NotifierWakes, MinOf, Sleepers
<1>1. /\ Cardinality(Sleepers') <= Cardinality(Sleepers)
      /\ Cardinality(Sleepers) \in Nat /\ Cardinality(Sleepers') \in Nat
  BY Smaller, Finite DEF Sleepers
<1>2. wakes[s] \in Nat /\ count \in Nat
  BY SemaphoreAssumption DEF Owned, TypeOK
<1> QED
  BY <1>1, <1>2 DEF NotifierWakes, MinOf

\* A step that lets nobody into the wait count or out of it, that sends nobody
\* to sleep and is no signal.
LEMMA Undisturbed ==
  ASSUME Owned, Owned', Counts,
         waitcount' = waitcount,
         \A s \in Threads :
           /\ pc'[s] \in CountedPlaces <=> pc[s] \in CountedPlaces
           /\ pc'[s] \in {"cwait", "asleep"} => pc[s] \in {"cwait", "asleep"}
           /\ pc'[s] \in {"notify", "unlock"} =>
                /\ pc[s] \in {"notify", "unlock"}
                /\ wakes'[s] = wakes[s] /\ count' = count
  PROVE  Counts'
<1>1. Counted' = Counted
  BY DEF Counted
<1>2. CountsWaiters'
  BY <1>1 DEF Counts, CountsWaiters
<1>3. Sleepers' \subseteq Sleepers
  BY DEF Sleepers
<1>4. NotifierWakes'
  BY <1>3, NotifierStays DEF Counts
<1> QED
  BY <1>2, <1>4 DEF Counts

\* A thread counts itself: there is room in the word.
LEMMA CountedIn ==
  ASSUME CountsWaiters, NEW t \in Threads, t \notin Counted, Count,
         Counted' = Counted \cup {t}
  PROVE  CountsWaiters'
<1>1. Cardinality(Counted \cup {t}) = Cardinality(Counted) + 1
  BY Finite, FS_AddElement DEF Counted
<1>2. Counted \cup {t} \in SUBSET Threads
  BY DEF Counted
<1>3. /\ Cardinality(Counted) + 1 <= Cardinality(Threads)
      /\ Cardinality(Counted) \in Nat /\ Cardinality(Threads) \in Nat
  BY <1>1, <1>2, Finite DEF Counted
<1>4. waitcount # Word - 1
  BY <1>3, SemaphoreAssumption DEF CountsWaiters
<1> QED
  BY <1>1, <1>4 DEF CountsWaiters, Count

\* A thread that is counted takes itself out.
LEMMA CountedOut ==
  ASSUME CountsWaiters, NEW t \in Threads, t \in Counted, Uncount,
         Counted' = Counted \ {t}
  PROVE  CountsWaiters'
<1>1. Cardinality(Counted \ {t}) = Cardinality(Counted) - 1
  BY Finite, FS_RemoveElement DEF Counted
<1>2. waitcount # 0
  BY Finite, FS_EmptySet DEF CountsWaiters, Counted
<1> QED
  BY <1>1, <1>2 DEF CountsWaiters, Uncount

\* Nobody waits, and nothing is counted.
LEMMA InitCounts == Init => Counts
<1> SUFFICES ASSUME Init PROVE Counts
  OBVIOUS
<1>1. Counted = {}
  BY DEF Init, CvInit, Counted, CountedPlaces, WaitPlaces
<1> QED
  BY <1>1, FS_EmptySet DEF Init, CvInit, Counts, CountsWaiters, NotifierWakes

\* Each step keeps the wait count and what a signaller will do.
LEMMA NextCounts ==
  ASSUME IInv, Owned', AllCounted, AllCounted', [Next]_vars
  PROVE  Counts'
<1> USE CondVarAssumption DEF IInv, Owned
<1>1. ASSUME NEW t \in Threads, FutexWait(t), UNCHANGED semVars PROVE Counts'
  BY <1>1, Undisturbed
  DEF FutexWait, semVars, Goto, CountedPlaces, WaitPlaces, TypeOK
<1>2. ASSUME NEW t \in Threads, StillTime(t), UNCHANGED semVars PROVE Counts'
  BY <1>2, Undisturbed
  DEF StillTime, semVars, Goto, CountedPlaces, WaitPlaces, TypeOK
<1>3. ASSUME NEW t \in Threads, ReturnNil(t), UNCHANGED semVars PROVE Counts'
  BY <1>3, Undisturbed
  DEF ReturnNil, semVars, Goto, CountedPlaces, WaitPlaces, TypeOK
<1>4. ASSUME NEW t \in Threads, TryBeforeSignal(t), UNCHANGED semVars PROVE Counts'
  BY <1>4, Undisturbed
  DEF TryBeforeSignal, semVars, Goto, CountedPlaces, WaitPlaces, TypeOK
<1>5. ASSUME NEW t \in Threads, DeadlineDeferred(t), UNCHANGED semVars PROVE Counts'
  <2>1. /\ \/ pc[t] = "signalin" /\ pc'[t] = "back"
           \/ pc[t] = "signal" /\ pc'[t] = "relock"
        /\ \A s \in Threads \ {t} : pc'[s] = pc[s] \/ (pc[s] = "asleep" /\ pc'[s] = "awake")
    BY <1>5, WakeMoves DEF DeadlineDeferred, Goto, TypeOK, Places, ClientPlaces, WaitPlaces
  <2> QED
    BY <1>5, <2>1, Undisturbed DEF DeadlineDeferred, semVars, CountedPlaces, WaitPlaces, TypeOK
<1>6. ASSUME NEW t \in Threads, Relock(t), UNCHANGED semVars PROVE Counts'
  BY <1>6, Undisturbed
  DEF Relock, semVars, Goto, CountedPlaces, WaitPlaces, TypeOK
<1>7. ASSUME NEW t \in Threads, UnwindWake(t), UNCHANGED semVars PROVE Counts'
  <2>1. /\ pc[t] = "unwind" /\ pc'[t] = "thrown"
        /\ \A s \in Threads \ {t} : pc'[s] = pc[s] \/ (pc[s] = "asleep" /\ pc'[s] = "awake")
    BY <1>7, WakeMoves DEF UnwindWake, Places, ClientPlaces
  <2> QED
    BY <1>7, <2>1, Undisturbed DEF UnwindWake, semVars, CountedPlaces, WaitPlaces, TypeOK
<1>8. ASSUME NEW t \in Threads, TimeOut(t), UNCHANGED semVars PROVE Counts'
  BY <1>8, Undisturbed
  DEF TimeOut, semVars, Goto, CountedPlaces, WaitPlaces, TypeOK
<1>9. ASSUME NEW t \in Threads, Interrupted(t), UNCHANGED semVars PROVE Counts'
  BY <1>9, Undisturbed
  DEF Interrupted, semVars, Goto, CountedPlaces, WaitPlaces, TypeOK
<1>10. ASSUME NEW t \in Threads, Unwind(t), UNCHANGED semVars PROVE Counts'
  BY <1>10, Undisturbed
  DEF Unwind, semVars, Goto, CountedPlaces, WaitPlaces, TypeOK
<1>11. ASSUME NEW t \in Threads, NoTimeLeft(t), UNCHANGED semVars PROVE Counts'
  BY <1>11, Undisturbed
  DEF NoTimeLeft, semVars, Goto, CountedPlaces, WaitPlaces, TypeOK
<1>12. ASSUME NEW t \in Threads, RelockTimeOut(t), UNCHANGED semVars PROVE Counts'
  BY <1>12, Undisturbed
  DEF RelockTimeOut, semVars, Goto, CountedPlaces, WaitPlaces, TypeOK
<1>13. ASSUME NEW t \in Threads, Enter(t) PROVE Counts'
  BY <1>13, Undisturbed
  DEF Enter, semVars, Goto, CountedPlaces, WaitPlaces, TypeOK, MutexAccounted
<1>14. ASSUME NEW t \in Threads, QuickCheck(t) PROVE Counts'
  BY <1>14, Undisturbed
  DEF QuickCheck, Succeed, Goto, Done, CountedPlaces, WaitPlaces, TypeOK, MutexAccounted
<1>15. ASSUME NEW t \in Threads, DeadlineExpired(t) PROVE Counts'
  BY <1>15, Undisturbed DEF DeadlineExpired, Goto, semVars, AllCounted, TypeOK
<1>16. ASSUME NEW t \in Threads, Block(t) PROVE Counts'
  <2>1. t \notin Counted /\ Counted' = Counted \cup {t}
    BY <1>16 DEF Block, StartWait, Goto, TypeOK, Counted, CountedPlaces, WaitPlaces
  <2>2. CountsWaiters'
    BY <1>16, <2>1, CountedIn DEF Block, Counts
  <2>3. NotifierWakes'
    BY <1>16, NotifierStays DEF Block, StartWait, Goto, Counts, TypeOK, MutexAccounted, Sleepers
  <2> QED  BY <2>2, <2>3 DEF Counts
<1>17. ASSUME NEW t \in Threads, WaitAgain(t) PROVE Counts'
  <2>1. Counted' = Counted
    BY <1>17 DEF WaitAgain, semVars, StartWait, Goto, TypeOK, Counted, CountedPlaces, WaitPlaces
  <2>2. CountsWaiters'
    BY <1>17, <2>1 DEF WaitAgain, semVars, Counts, CountsWaiters
  <2>3. NotifierWakes'
    BY <1>17, NotifierStays DEF WaitAgain, semVars, StartWait, Goto, Counts, TypeOK, MutexAccounted, Sleepers
  <2> QED  BY <2>2, <2>3 DEF Counts
<1>18. ASSUME NEW t \in Threads, Take(t) PROVE Counts'
  <2>1. t \in Counted /\ Counted' = Counted \ {t}
    BY <1>18 DEF Take, Succeed, Goto, Done, TypeOK, Counted, CountedPlaces, WaitPlaces
  <2>2. CountsWaiters'
    BY <1>18, <2>1, CountedOut DEF Take, Counts
  <2>3. NotifierWakes'
    BY <1>18, NotifierStays DEF Take, Succeed, Goto, Done, Counts, TypeOK, MutexAccounted, Sleepers
  <2> QED  BY <2>2, <2>3 DEF Counts
<1>19. ASSUME NEW t \in Threads, Leave(t) PROVE Counts'
  <2>1. t \in Counted /\ Counted' = Counted \ {t}
    BY <1>19 DEF Leave, Goto, Done, TypeOK, Counted, CountedPlaces, WaitPlaces, AllCounted
  <2>2. CountsWaiters'
    BY <1>19, <2>1, CountedOut DEF Leave, Counts
  <2>3. NotifierWakes'
    BY <1>19, NotifierStays DEF Leave, Goto, Done, Counts, TypeOK, MutexAccounted, Sleepers
  <2> QED  BY <2>2, <2>3 DEF Counts
<1>20. ASSUME NEW t \in Threads, Notify(t) PROVE Counts'
  <2>1. /\ pc[t] = "notify" /\ pc'[t] = "unlock"
        /\ \A s \in Threads \ {t} : pc'[s] = pc[s] \/ (pc[s] = "asleep" /\ pc'[s] = "awake")
    BY <1>20, WakeMoves DEF Notify, Places
  <2> QED
    BY <1>20, <2>1, Undisturbed DEF Notify, semVars, CountedPlaces, WaitPlaces, TypeOK
<1>21. ASSUME NEW t \in Threads, Unlock(t) PROVE Counts'
  BY <1>21, Undisturbed
  DEF Unlock, semVars, Goto, CountedPlaces, WaitPlaces, TypeOK
<1>22. ASSUME NEW t \in Threads, Begin(t) PROVE Counts'
  BY <1>22, Undisturbed
  DEF Begin, semVars, Goto, CountedPlaces, WaitPlaces, TypeOK
<1>23. ASSUME NEW t \in Threads, EnterUnwound(t) PROVE Counts'
  BY <1>23, Undisturbed
  DEF EnterUnwound, semVars, Goto, Done, CountedPlaces, WaitPlaces, TypeOK
<1>24. ASSUME NEW t \in Threads, NoneRemaining(t) PROVE Counts'
  BY <1>24, Undisturbed
  DEF NoneRemaining, semVars, Goto, CountedPlaces, WaitPlaces, TypeOK
<1>25. ASSUME NEW t \in Threads, Signal(t) PROVE Counts'
  <2>1. Counted' = Counted /\ Sleepers' \subseteq Counted
    BY <1>25 DEF Signal, Goto, TypeOK, Counted, Sleepers, CountedPlaces, WaitPlaces
  <2>2. CountsWaiters'
    BY <1>25, <2>1 DEF Signal, Counts, CountsWaiters
  <2>3. NotifierWakes'
    <3> SUFFICES ASSUME NEW s \in Threads, pc'[s] \in {"notify", "unlock"}
                 PROVE  wakes'[s] >= MinOf(count', Cardinality(Sleepers'))
      BY DEF NotifierWakes
    <3>1. s = t /\ wakes'[t] = MinOf(waitcount, count')
      BY <1>25 DEF Signal, Goto, TypeOK, MutexAccounted
    <3>2. Cardinality(Sleepers') <= waitcount /\ Cardinality(Sleepers') \in Nat
      BY <2>1, Smaller, Finite DEF Counts, CountsWaiters, Counted
    <3>3. count' \in Nat /\ waitcount \in Nat
      BY SemaphoreAssumption DEF TypeOK
    <3> QED
      BY <3>1, <3>2, <3>3 DEF MinOf
  <2> QED  BY <2>2, <2>3 DEF Counts
<1>26. ASSUME NEW t \in Threads, Try(t) PROVE Counts'
  BY <1>26, Undisturbed
  DEF Try, semVars, cvVars, CountedPlaces, WaitPlaces, TypeOK, MutexAccounted
<1>27. CASE UNCHANGED vars
  BY <1>27, Undisturbed DEF vars
<1> QED
  BY <1>1, <1>2, <1>3, <1>4, <1>5, <1>6, <1>7, <1>8, <1>9, <1>10, <1>11, <1>12, <1>13, <1>14, <1>15, <1>16, <1>17, <1>18, <1>19, <1>20, <1>21, <1>22, <1>23, <1>24, <1>25, <1>26, <1>27
  DEF Next, Step, Environment, CvStep, CvEnvironment

\* Where no wait unwinds before it is counted, the wait count is right.
THEOREM Inductive == Safe /\ []AllCounted => []IInv
<1>1. Init => IInv
  BY InitOwned, InitCounts DEF IInv
<1>2. IInv /\ AllCounted /\ AllCounted' /\ [Next]_vars => IInv'
  BY NextOwned, NextCounts DEF IInv
<1> QED
  BY <1>1, <1>2, PTL DEF Safe

\* Those asleep are among those that sleep or are about to.
LEMMA SignalReaches == IInv => SignalReachesSleepers
<1> SUFFICES ASSUME IInv, NEW t \in Threads, pc[t] \in {"notify", "unlock"}
             PROVE  wakes[t] >= MinOf(count, Cardinality(Asleep))
  BY DEF SignalReachesSleepers
<1>1. Asleep \subseteq Sleepers
  BY DEF Asleep, Sleepers
<1>2. /\ Cardinality(Asleep) <= Cardinality(Sleepers)
      /\ Cardinality(Asleep) \in Nat /\ Cardinality(Sleepers) \in Nat
  BY <1>1, Smaller, Finite DEF Sleepers
<1>3. wakes[t] \in Nat /\ count \in Nat
  BY SemaphoreAssumption DEF IInv, Owned, TypeOK
<1> QED
  BY <1>2, <1>3 DEF IInv, Counts, NotifierWakes, MinOf

\* Where no wait unwinds before it is counted, SIGNAL-SEMAPHORE wakes as many
\* sleepers as the count could serve, or all, through timeouts, deadlines and
\* unwinding out of waits, for all amounts.
THEOREM SignalsReach == Safe /\ []AllCounted => []SignalReachesSleepers
BY SignalReaches, Inductive, PTL

------------------------------------------------------------------------------
(* No lost wakeup, where there is none: waits for one unit each, of which none  *)
(* may end with NIL outside the mutex, and which are counted before they        *)
(* unwind.  MCSemaphore_amounts.cfg, MCSemaphore_timeout.cfg and                *)
(* MCSemaphore_expired.cfg show that none of the conditions can be dropped.     *)

Single ==
  /\ Amounts = {1}
  /\ "timeout" \notin Kinds

\* What Single means for the calls under way.
SingleWaits == \A t \in Threads : need[t] = 1 /\ kind[t] # "timeout"

\* Who will sleep because it was the last to store its token stored it when
\* there was nothing to take.
AboutToSleep == \A t \in Threads : pc[t] = "cwait" /\ token = t => count = 0

Taken == SingleWaits /\ AboutToSleep /\ EveryUnitHasATaker

\* More threads on their way, fewer sleepers and a smaller count do not hurt.
LEMMA TakersStay ==
  ASSUME TypeOK, TypeOK', EveryUnitHasATaker,
         Asleep' # {} => Asleep # {},
         \A t \in Threads : pc[t] = "notify" => pc'[t] = "notify",
         count' <= count, InFlight \subseteq InFlight'
  PROVE  EveryUnitHasATaker'
<1>1. Cardinality(InFlight) <= Cardinality(InFlight')
  BY Smaller DEF InFlight
<1>2. /\ Cardinality(InFlight) \in Nat /\ Cardinality(InFlight') \in Nat
      /\ count \in Nat /\ count' \in Nat
  BY Finite, SemaphoreAssumption DEF InFlight, TypeOK
<1> QED
  BY <1>1, <1>2 DEF EveryUnitHasATaker

\* Each step keeps the takers.
LEMMA NextTaken ==
  ASSUME Single, IInv, Owned', AllCounted', Taken, [Next]_vars
  PROVE  Taken'
<1> USE CondVarAssumption DEF IInv, Owned, Counts, Taken
<1>1. ASSUME NEW t \in Threads, StillTime(t), UNCHANGED semVars PROVE Taken'
  <2>1. SingleWaits'
    BY <1>1 DEF StillTime, Goto, semVars, SingleWaits, TypeOK, Single
  <2>2. AboutToSleep'
    BY <1>1 DEF StillTime, Goto, semVars, AboutToSleep, TypeOK
  <2>3. EveryUnitHasATaker'
    BY <1>1, TakersStay DEF StillTime, Goto, semVars, Asleep, InFlight, SingleWaits, TypeOK
  <2> QED  BY <2>1, <2>2, <2>3
<1>2. ASSUME NEW t \in Threads, TryBeforeSignal(t), UNCHANGED semVars PROVE Taken'
  <2>1. SingleWaits'
    BY <1>2 DEF TryBeforeSignal, Goto, semVars, SingleWaits, TypeOK, Single
  <2>2. AboutToSleep'
    BY <1>2 DEF TryBeforeSignal, Goto, semVars, AboutToSleep, TypeOK
  <2>3. EveryUnitHasATaker'
    BY <1>2, TakersStay DEF TryBeforeSignal, Goto, semVars, Asleep, InFlight, SingleWaits, TypeOK
  <2> QED  BY <2>1, <2>2, <2>3
<1>3. ASSUME NEW t \in Threads, Relock(t), UNCHANGED semVars PROVE Taken'
  <2>1. SingleWaits'
    BY <1>3 DEF Relock, Goto, semVars, SingleWaits, TypeOK, Single
  <2>2. AboutToSleep'
    BY <1>3 DEF Relock, Goto, semVars, AboutToSleep, TypeOK
  <2>3. EveryUnitHasATaker'
    BY <1>3, TakersStay DEF Relock, Goto, semVars, Asleep, InFlight, SingleWaits, TypeOK
  <2> QED  BY <2>1, <2>2, <2>3
<1>4. ASSUME NEW t \in Threads, TimeOut(t), UNCHANGED semVars PROVE Taken'
  <2>1. SingleWaits'
    BY <1>4 DEF TimeOut, Goto, semVars, SingleWaits, TypeOK, Single
  <2>2. AboutToSleep'
    BY <1>4 DEF TimeOut, Goto, semVars, AboutToSleep, TypeOK
  <2>3. EveryUnitHasATaker'
    BY <1>4, TakersStay DEF TimeOut, Goto, semVars, Asleep, InFlight, SingleWaits, TypeOK
  <2> QED  BY <2>1, <2>2, <2>3
<1>5. ASSUME NEW t \in Threads, Interrupted(t), UNCHANGED semVars PROVE Taken'
  <2>1. SingleWaits'
    BY <1>5 DEF Interrupted, Goto, semVars, SingleWaits, TypeOK, Single
  <2>2. AboutToSleep'
    BY <1>5 DEF Interrupted, Goto, semVars, AboutToSleep, TypeOK
  <2>3. EveryUnitHasATaker'
    BY <1>5, TakersStay DEF Interrupted, Goto, semVars, Asleep, InFlight, SingleWaits, TypeOK
  <2> QED  BY <2>1, <2>2, <2>3
<1>6. ASSUME NEW t \in Threads, Unwind(t), UNCHANGED semVars PROVE Taken'
  <2>1. SingleWaits'
    BY <1>6 DEF Unwind, Goto, semVars, SingleWaits, TypeOK, Single
  <2>2. AboutToSleep'
    BY <1>6 DEF Unwind, Goto, semVars, AboutToSleep, TypeOK
  <2>3. EveryUnitHasATaker'
    BY <1>6, TakersStay DEF Unwind, Goto, semVars, Asleep, InFlight, SingleWaits, TypeOK
  <2> QED  BY <2>1, <2>2, <2>3
<1>7. ASSUME NEW t \in Threads, NoTimeLeft(t), UNCHANGED semVars PROVE Taken'
  <2>1. SingleWaits'
    BY <1>7 DEF NoTimeLeft, Goto, semVars, SingleWaits, TypeOK, Single
  <2>2. AboutToSleep'
    BY <1>7 DEF NoTimeLeft, Goto, semVars, AboutToSleep, TypeOK
  <2>3. EveryUnitHasATaker'
    BY <1>7, TakersStay DEF NoTimeLeft, Goto, semVars, Asleep, InFlight, SingleWaits, TypeOK
  <2> QED  BY <2>1, <2>2, <2>3
<1>8. ASSUME NEW t \in Threads, ReturnNil(t), UNCHANGED semVars PROVE Taken'
  <2>1. SingleWaits'
    BY <1>8 DEF ReturnNil, Goto, semVars, SingleWaits, TypeOK, Single
  <2>2. AboutToSleep'
    BY <1>8 DEF ReturnNil, Goto, semVars, AboutToSleep, TypeOK
  <2>3. EveryUnitHasATaker'
    BY <1>8, TakersStay DEF ReturnNil, Goto, semVars, Asleep, InFlight, SingleWaits, TypeOK
  <2> QED  BY <2>1, <2>2, <2>3
<1>9. ASSUME NEW t \in Threads, RelockTimeOut(t), UNCHANGED semVars PROVE Taken'
  <2>1. SingleWaits'
    BY <1>9 DEF RelockTimeOut, Goto, semVars, SingleWaits, TypeOK, Single
  <2>2. AboutToSleep'
    BY <1>9 DEF RelockTimeOut, Goto, semVars, AboutToSleep, TypeOK
  <2>3. EveryUnitHasATaker'
    BY <1>9, TakersStay DEF RelockTimeOut, Goto, semVars, Asleep, InFlight, SingleWaits, TypeOK
  <2> QED  BY <2>1, <2>2, <2>3
<1>10. ASSUME NEW t \in Threads, Enter(t) PROVE Taken'
  <2>1. SingleWaits'
    BY <1>10 DEF Enter, Goto, semVars, SingleWaits, TypeOK, Single
  <2>2. AboutToSleep'
    BY <1>10 DEF Enter, Goto, semVars, AboutToSleep, TypeOK
  <2>3. EveryUnitHasATaker'
    BY <1>10, TakersStay DEF Enter, Goto, semVars, Asleep, InFlight, SingleWaits, TypeOK
  <2> QED  BY <2>1, <2>2, <2>3
<1>11. ASSUME NEW t \in Threads, Leave(t) PROVE Taken'
  <2>1. SingleWaits'
    BY <1>11 DEF Leave, Goto, Done, semVars, SingleWaits, TypeOK, Single
  <2>2. AboutToSleep'
    BY <1>11 DEF Leave, Goto, Done, semVars, AboutToSleep, TypeOK
  <2>3. EveryUnitHasATaker'
    BY <1>11, TakersStay DEF Leave, Goto, Done, semVars, Asleep, InFlight, SingleWaits, TypeOK, Uncount
  <2> QED  BY <2>1, <2>2, <2>3
<1>12. ASSUME NEW t \in Threads, Unlock(t) PROVE Taken'
  <2>1. SingleWaits'
    BY <1>12 DEF Unlock, Goto, semVars, SingleWaits, TypeOK, Single
  <2>2. AboutToSleep'
    BY <1>12 DEF Unlock, Goto, semVars, AboutToSleep, TypeOK
  <2>3. EveryUnitHasATaker'
    BY <1>12, TakersStay DEF Unlock, Goto, semVars, Asleep, InFlight, SingleWaits, TypeOK
  <2> QED  BY <2>1, <2>2, <2>3
<1>13. ASSUME NEW t \in Threads, Begin(t) PROVE Taken'
  <2>1. SingleWaits'
    BY <1>13 DEF Begin, Goto, semVars, SingleWaits, TypeOK, Single
  <2>2. AboutToSleep'
    BY <1>13 DEF Begin, Goto, semVars, AboutToSleep, TypeOK
  <2>3. EveryUnitHasATaker'
    BY <1>13, TakersStay DEF Begin, Goto, semVars, Asleep, InFlight, SingleWaits, TypeOK
  <2> QED  BY <2>1, <2>2, <2>3
<1>14. ASSUME NEW t \in Threads, EnterUnwound(t) PROVE Taken'
  <2>1. SingleWaits'
    BY <1>14 DEF EnterUnwound, Goto, Done, semVars, SingleWaits, TypeOK, Single
  <2>2. AboutToSleep'
    BY <1>14 DEF EnterUnwound, Goto, Done, semVars, AboutToSleep, TypeOK
  <2>3. EveryUnitHasATaker'
    BY <1>14, TakersStay DEF EnterUnwound, Goto, Done, semVars, Asleep, InFlight, SingleWaits, TypeOK
  <2> QED  BY <2>1, <2>2, <2>3
<1>15. ASSUME NEW t \in Threads, NoneRemaining(t) PROVE Taken'
  <2>1. SingleWaits'
    BY <1>15 DEF NoneRemaining, Goto, semVars, SingleWaits, TypeOK, Single
  <2>2. AboutToSleep'
    BY <1>15 DEF NoneRemaining, Goto, semVars, AboutToSleep, TypeOK
  <2>3. EveryUnitHasATaker'
    BY <1>15, TakersStay DEF NoneRemaining, Goto, semVars, Asleep, InFlight, SingleWaits, TypeOK
  <2> QED  BY <2>1, <2>2, <2>3
<1>16. ASSUME NEW t \in Threads, Try(t) PROVE Taken'
  <2>1. SingleWaits'
    BY <1>16 DEF Try, cvVars, SingleWaits
  <2>2. AboutToSleep'
    BY <1>16 DEF Try, cvVars, AboutToSleep, TypeOK, Single
  <2>3. EveryUnitHasATaker'
    BY <1>16, TakersStay DEF Try, cvVars, Asleep, InFlight, TypeOK, Single
  <2> QED  BY <2>1, <2>2, <2>3
<1>17. ASSUME NEW t \in Threads, FutexWait(t), UNCHANGED semVars PROVE Taken'
  <2>1. SingleWaits'
    BY <1>17 DEF FutexWait, Goto, semVars, SingleWaits, TypeOK, Single
  <2>2. AboutToSleep'
    BY <1>17 DEF FutexWait, Goto, semVars, AboutToSleep, TypeOK
  <2>3. EveryUnitHasATaker'
    <3>1. CASE token = t
      <4>1. count' = 0
        BY <1>17, <3>1 DEF FutexWait, semVars, AboutToSleep
      <4>2. Cardinality(InFlight') \in Nat
        BY Finite DEF InFlight
      <4> QED
        BY <4>1, <4>2 DEF EveryUnitHasATaker
    <3>2. CASE token # t
      BY <1>17, <3>2, TakersStay DEF FutexWait, Goto, semVars, Asleep, InFlight, TypeOK
    <3> QED
      BY <3>1, <3>2
  <2> QED  BY <2>1, <2>2, <2>3
<1>18. ASSUME NEW t \in Threads, DeadlineDeferred(t), UNCHANGED semVars PROVE Taken'
  <2>0. /\ pc[t] \in {"signal", "signalin"} /\ pc'[t] \in {"back", "relock"}
        /\ \A s \in Threads \ {t} : pc'[s] = pc[s] \/ (pc[s] = "asleep" /\ pc'[s] = "awake")
    BY <1>18, WakeMoves DEF DeadlineDeferred, Goto, TypeOK, Places, ClientPlaces
  <2>1. SingleWaits'
    BY <1>18 DEF DeadlineDeferred, semVars, SingleWaits
  <2>2. AboutToSleep'
    BY <1>18, <2>0 DEF DeadlineDeferred, semVars, AboutToSleep
  <2>3. EveryUnitHasATaker'
    BY <1>18, <2>0, TakersStay DEF DeadlineDeferred, semVars, Asleep, InFlight, TypeOK
  <2> QED  BY <2>1, <2>2, <2>3
<1>19. ASSUME NEW t \in Threads, Block(t) PROVE Taken'
  <2>1. SingleWaits'
    BY <1>19 DEF Block, StartWait, SingleWaits
  <2>2. AboutToSleep'
    BY <1>19 DEF Block, StartWait, AboutToSleep, SingleWaits, TypeOK
  <2>3. EveryUnitHasATaker'
    <3>1. count' = 0
      BY <1>19 DEF Block, StartWait, SingleWaits, TypeOK
    <3>2. Cardinality(InFlight') \in Nat
      BY Finite DEF InFlight
    <3> QED
      BY <3>1, <3>2 DEF EveryUnitHasATaker
  <2> QED  BY <2>1, <2>2, <2>3
<1>20. ASSUME NEW t \in Threads, Take(t) PROVE Taken'
  <2>1. SingleWaits'
    BY <1>20 DEF Take, Succeed, Goto, Done, SingleWaits, TypeOK, Single
  <2>2. AboutToSleep'
    BY <1>20 DEF Take, Succeed, Goto, Done, SingleWaits, AboutToSleep, TypeOK
  <2>3. EveryUnitHasATaker'
    <3>1. InFlight \ {t} \subseteq InFlight'
      BY <1>20 DEF Take, Succeed, Done, Goto, InFlight, TypeOK
    <3>2. count' = count - 1
      BY <1>20 DEF Take, Succeed, SingleWaits
    <3>3. Cardinality(InFlight \ {t}) <= Cardinality(InFlight')
      BY <3>1, Smaller DEF InFlight
    <3>4. Cardinality(InFlight) - 1 <= Cardinality(InFlight \ {t})
      BY Finite, FS_RemoveElement DEF InFlight
    <3>5. /\ Cardinality(InFlight) \in Nat /\ Cardinality(InFlight \ {t}) \in Nat
          /\ Cardinality(InFlight') \in Nat /\ count \in Nat
      BY Finite, SemaphoreAssumption DEF InFlight, TypeOK
    <3>6. Asleep' \subseteq Asleep /\ \A s \in Threads : pc[s] = "notify" => pc'[s] = "notify"
      BY <1>20 DEF Take, Succeed, Done, Goto, Asleep, TypeOK
    <3> QED
      BY <3>2, <3>3, <3>4, <3>5, <3>6 DEF EveryUnitHasATaker
  <2> QED  BY <2>1, <2>2, <2>3
<1>21. ASSUME NEW t \in Threads, UnwindWake(t), UNCHANGED semVars PROVE Taken'
  <2>0. /\ pc[t] = "unwind" /\ pc'[t] = "thrown"
        /\ \A s \in Threads \ {t} : pc'[s] = pc[s] \/ (pc[s] = "asleep" /\ pc'[s] = "awake")
    BY <1>21, WakeMoves DEF UnwindWake, Places, ClientPlaces
  <2>1. SingleWaits'
    BY <1>21 DEF UnwindWake, semVars, SingleWaits
  <2>2. AboutToSleep'
    BY <1>21, <2>0 DEF UnwindWake, semVars, AboutToSleep
  <2>3. EveryUnitHasATaker'
    <3>1. CASE Asleep = {}
      BY <2>0, <3>1 DEF Asleep, EveryUnitHasATaker
    <3>2. ASSUME Asleep # {} PROVE EveryUnitHasATaker'
      <4>1. PICK woken \in SUBSET Asleep :
              /\ Cardinality(woken) = MinOf(1, Cardinality(Asleep))
              /\ \A s \in woken : pc'[s] = "awake"
        BY <1>21 DEF UnwindWake, FutexWake, Asleep
      <4>2. Cardinality(Asleep) \in Nat \ {0} /\ IsFiniteSet(woken) /\ Cardinality(woken) \in Nat
        BY <3>2, <4>1, Finite, FS_EmptySet DEF Asleep
      <4>3. woken # {}
        BY <4>1, <4>2, FS_EmptySet DEF MinOf
      <4>4. PICK w \in woken : TRUE
        BY <4>3
      <4>5. (InFlight \ {t}) \cup {w} \subseteq InFlight'
        BY <1>21, <2>0, <4>1, <4>4 DEF UnwindWake, InFlight, Asleep
      <4>6. w \notin InFlight
        BY <4>1, <4>4 DEF InFlight, Asleep
      <4>7. Cardinality((InFlight \ {t}) \cup {w}) >= Cardinality(InFlight)
        <5>1. Cardinality(InFlight \ {t}) >= Cardinality(InFlight) - 1
          BY Finite, FS_RemoveElement DEF InFlight
        <5>2. Cardinality((InFlight \ {t}) \cup {w}) = Cardinality(InFlight \ {t}) + 1
          BY <4>6, Finite, FS_AddElement, FS_RemoveElement DEF InFlight
        <5> QED
          BY <5>1, <5>2, Finite DEF InFlight
      <4>8. Cardinality((InFlight \ {t}) \cup {w}) <= Cardinality(InFlight')
        BY <4>5, Smaller DEF InFlight
      <4>9. /\ Cardinality(InFlight) \in Nat /\ Cardinality(InFlight') \in Nat
            /\ Cardinality((InFlight \ {t}) \cup {w}) \in Nat
            /\ count \in Nat
        <5>1. (InFlight \ {t}) \cup {w} \in SUBSET Threads
          BY <4>1, <4>4 DEF InFlight, Asleep
        <5> QED
          BY <5>1, Finite, SemaphoreAssumption DEF InFlight, TypeOK
      <4>10. \A s \in Threads : pc[s] = "notify" => pc'[s] = "notify"
        BY <2>0
      <4> QED
        BY <1>21, <3>2, <4>7, <4>8, <4>9, <4>10 DEF semVars, EveryUnitHasATaker
    <3> QED
      BY <3>1, <3>2
  <2> QED  BY <2>1, <2>2, <2>3
<1>22. ASSUME NEW t \in Threads, Notify(t) PROVE Taken'
  <2>0. /\ pc[t] = "notify" /\ pc'[t] = "unlock"
        /\ \A s \in Threads \ {t} : pc'[s] = pc[s] \/ (pc[s] = "asleep" /\ pc'[s] = "awake")
    BY <1>22, WakeMoves DEF Notify, Places
  <2>1. SingleWaits'
    BY <1>22 DEF Notify, semVars, SingleWaits
  <2>2. AboutToSleep'
    BY <1>22, <2>0 DEF Notify, semVars, AboutToSleep
  <2>3. EveryUnitHasATaker'
    <3>1. PICK woken \in SUBSET Asleep :
            /\ Cardinality(woken) = MinOf(wakes[t], Cardinality(Asleep))
            /\ pc' = [s \in Threads |-> IF s = t THEN "unlock"
                                        ELSE IF s \in woken THEN "awake" ELSE pc[s]]
      BY <1>22 DEF Notify, FutexWake
    <3>2. SignalReachesSleepers
      BY SignalReaches
    <3>3. wakes[t] >= MinOf(count, Cardinality(Asleep))
      BY <2>0, <3>2 DEF SignalReachesSleepers
    <3>4. /\ wakes[t] \in Nat /\ count \in Nat /\ count' = count
          /\ Cardinality(Asleep) \in Nat /\ IsFiniteSet(Asleep)
      BY <1>22, Finite, SemaphoreAssumption DEF Notify, semVars, Asleep, TypeOK
    <3>5. CASE wakes[t] >= Cardinality(Asleep)
      <4>1. Cardinality(woken) = Cardinality(Asleep)
        BY <3>1, <3>4, <3>5 DEF MinOf
      <4>2. woken = Asleep
        BY <3>4, <4>1, FS_Subset
      <4> QED
        BY <3>1, <4>2 DEF Asleep, EveryUnitHasATaker
    <3>6. CASE wakes[t] < Cardinality(Asleep)
      <4>1. Cardinality(woken) >= count'
        BY <3>1, <3>3, <3>4, <3>6 DEF MinOf
      <4>2. woken \subseteq InFlight'
        BY <2>0, <3>1 DEF InFlight, Asleep
      <4>3. /\ Cardinality(woken) <= Cardinality(InFlight')
            /\ Cardinality(woken) \in Nat /\ Cardinality(InFlight') \in Nat
        BY <4>2, Smaller, Finite DEF InFlight
      <4> QED
        BY <3>4, <4>1, <4>3 DEF EveryUnitHasATaker
    <3> QED
      BY <3>4, <3>5, <3>6
  <2> QED  BY <2>1, <2>2, <2>3
<1>23. ASSUME NEW t \in Threads, Signal(t) PROVE Taken'
  <2>0. waitcount = 0 => \A s \in Threads : pc[s] \notin {"cwait", "asleep"}
    <3>1. waitcount = 0 => Counted = {}
      BY Finite, FS_EmptySet DEF CountsWaiters, Counted
    <3> QED
      BY <3>1 DEF Counted, CountedPlaces, WaitPlaces
  <2>1. SingleWaits'
    BY <1>23 DEF Signal, SingleWaits
  <2>2. AboutToSleep'
    <3>1. CASE waitcount = 0
      BY <1>23, <2>0, <3>1 DEF Signal, Goto, AboutToSleep, TypeOK
    <3>2. CASE waitcount # 0
      <4>1. token' = NoThread
        BY <1>23, <3>2, Finite DEF Signal, TypeOK
      <4> QED
        BY <4>1 DEF AboutToSleep
    <3> QED
      BY <3>1, <3>2
  <2>3. EveryUnitHasATaker'
    <3>1. CASE waitcount = 0
      BY <1>23, <2>0, <3>1 DEF Signal, Goto, Asleep, EveryUnitHasATaker, TypeOK
    <3>2. CASE waitcount # 0
      <4>1. pc'[t] = "notify"
        BY <1>23, <3>2, Finite DEF Signal, Goto, TypeOK
      <4> QED
        BY <4>1 DEF EveryUnitHasATaker
    <3> QED
      BY <3>1, <3>2
  <2> QED  BY <2>1, <2>2, <2>3
<1>24. ASSUME NEW t \in Threads, QuickCheck(t) PROVE Taken'
  <2>1. SingleWaits'
    BY <1>24 DEF QuickCheck, Succeed, Goto, Done, SingleWaits, TypeOK, Single
  <2>2. AboutToSleep'
    BY <1>24 DEF QuickCheck, Succeed, Goto, Done, SingleWaits, AboutToSleep, TypeOK
  <2>3. EveryUnitHasATaker'
    <3>1. InFlight \ {t} \subseteq InFlight'
      BY <1>24 DEF QuickCheck, Succeed, Done, Goto, InFlight, TypeOK
    <3>2. count' = count - 1
      BY <1>24 DEF QuickCheck, Succeed, SingleWaits
    <3>3. Cardinality(InFlight \ {t}) <= Cardinality(InFlight')
      BY <3>1, Smaller DEF InFlight
    <3>4. Cardinality(InFlight) - 1 <= Cardinality(InFlight \ {t})
      BY Finite, FS_RemoveElement DEF InFlight
    <3>5. /\ Cardinality(InFlight) \in Nat /\ Cardinality(InFlight \ {t}) \in Nat
          /\ Cardinality(InFlight') \in Nat /\ count \in Nat
      BY Finite, SemaphoreAssumption DEF InFlight, TypeOK
    <3>6. Asleep' \subseteq Asleep /\ \A s \in Threads : pc[s] = "notify" => pc'[s] = "notify"
      BY <1>24 DEF QuickCheck, Succeed, Done, Goto, Asleep, TypeOK
    <3> QED
      BY <3>2, <3>3, <3>4, <3>5, <3>6 DEF EveryUnitHasATaker
  <2> QED  BY <2>1, <2>2, <2>3
<1>25. ASSUME NEW t \in Threads, WaitAgain(t) PROVE Taken'
  <2>1. SingleWaits'
    BY <1>25 DEF WaitAgain, StartWait, semVars, SingleWaits
  <2>2. AboutToSleep'
    BY <1>25 DEF WaitAgain, StartWait, semVars, AboutToSleep, SingleWaits, TypeOK
  <2>3. EveryUnitHasATaker'
    <3>1. count' = 0
      BY <1>25 DEF WaitAgain, StartWait, semVars, SingleWaits, TypeOK
    <3>2. Cardinality(InFlight') \in Nat
      BY Finite DEF InFlight
    <3> QED
      BY <3>1, <3>2 DEF EveryUnitHasATaker
  <2> QED  BY <2>1, <2>2, <2>3
<1>26. ASSUME NEW t \in Threads, DeadlineExpired(t) PROVE Taken'
  <2>1. SingleWaits'
    BY <1>26 DEF DeadlineExpired, semVars, SingleWaits, TypeOK
  <2>2. AboutToSleep'
    BY <1>26 DEF DeadlineExpired, Goto, semVars, AboutToSleep, TypeOK
  <2>3. EveryUnitHasATaker'
    <3>1. pc' = pc
      BY <1>26 DEF DeadlineExpired, Goto, AllCounted, TypeOK
    <3> QED
      BY <1>26, <3>1, TakersStay DEF DeadlineExpired, semVars, Asleep, InFlight, TypeOK
  <2> QED  BY <2>1, <2>2, <2>3
<1>27. CASE UNCHANGED vars
  <2>1. Asleep' = Asleep /\ InFlight' = InFlight
    BY <1>27 DEF vars, Asleep, InFlight
  <2> QED
    BY <1>27, <2>1 DEF vars, SingleWaits, AboutToSleep, EveryUnitHasATaker
<1> QED
  BY <1>1, <1>2, <1>3, <1>4, <1>5, <1>6, <1>7, <1>8, <1>9, <1>10, <1>11, <1>12, <1>13, <1>14, <1>15, <1>16, <1>17, <1>18, <1>19, <1>20, <1>21, <1>22, <1>23, <1>24, <1>25, <1>26, <1>27
  DEF Next, Step, Environment, CvStep, CvEnvironment

\* With waits for one unit, without timeouts, where no wait unwinds before it is
\* counted: every unit of the count has a thread on its way to it, or nobody
\* sleeps.
THEOREM UnitsAreTaken ==
  ASSUME Single PROVE Safe /\ []AllCounted => []EveryUnitHasATaker
<1>1. Init => Taken
  <2> SUFFICES ASSUME Init PROVE Taken
    OBVIOUS
  <2>1. Asleep = {}
    BY DEF Init, CvInit, Asleep
  <2> QED
    BY <2>1 DEF Init, CvInit, Taken, SingleWaits, AboutToSleep, EveryUnitHasATaker
<1>2. IInv /\ IInv' /\ AllCounted' /\ Taken /\ [Next]_vars => Taken'
  BY NextTaken DEF IInv
<1>3. Taken => EveryUnitHasATaker
  BY DEF Taken
<1> QED
  BY <1>1, <1>2, <1>3, Inductive, PTL DEF Safe

\* So no wait sleeps on while the semaphore could be decremented for it.
THEOREM NobodyStranded ==
  ASSUME Single PROVE Safe /\ []AllCounted => []NoStrandedWaiter
<1>1. IInv /\ EveryUnitHasATaker => NoStrandedWaiter
  <2> SUFFICES ASSUME IInv, EveryUnitHasATaker, NEW t \in Asleep, count >= need[t]
               PROVE  InFlight # {}
    BY DEF NoStrandedWaiter
  <2>1. need[t] \in Nat \ {0} /\ count \in Nat
    BY NeedIsNat, SemaphoreAssumption DEF IInv, Owned, TypeOK, Asleep
  <2>2. \/ \E s \in Threads : pc[s] = "notify"
        \/ Cardinality(InFlight) >= count
    BY DEF EveryUnitHasATaker
  <2> QED
    BY <2>1, <2>2, FS_EmptySet DEF InFlight
<1> QED
  BY <1>1, Inductive, UnitsAreTaken, PTL

==============================================================================
