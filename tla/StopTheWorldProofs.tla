--------------------------- MODULE StopTheWorldProofs ---------------------------
(* Proofs about StopTheWorld for any set of threads.                           *)
(*                                                                             *)
(* The invariant follows the stop signal: who is linked cannot change while a  *)
(* thread has all_threads_lock, and whoever is not on the list of those still  *)
(* waited for has a state word that says it is stopped or dead.                *)
EXTENDS StopTheWorld, TLAPS

\* Where a thread has all_threads_lock.
Locking == {"signal", "await", "sleep", "collect", "start"}

\* Places of a thread that is not in all_threads.
Unlinked == {"foreign", "enter", "clear"}

ListLocked == \A t \in Threads : pc[t] \in Locking <=> listLock = t

LinkedRight == \A t \in Threads :
  /\ pc[t] \in Unlinked => t \notin linked
  /\ pc[t] \notin Unlinked \cup {"lost"} => t \in linked

StateRight == \A t \in Threads :
  /\ pc[t] \in {"enter", "lisp", "leave", "exit", "stopping"} \cup Inhibited
     => state[t] = "RUNNING"
  /\ pc[t] \in {"stopped", "asleep"} => state[t] # "DEAD"
  /\ pc[t] \in {"dead", "clear"} => state[t] = "DEAD"

\* How far the collector's loops over all_threads have come.
Acknowledged == \A t \in Threads :
  /\ pc[t] \in Locking => todo \subseteq linked \ {t}
  /\ pc[t] \in {"await", "sleep"} =>
       \A s \in linked \ (todo \cup {t}) : state[s] # "RUNNING"
  /\ pc[t] = "collect" =>
       todo = linked \ {t} /\ \A s \in todo : state[s] # "RUNNING"
  /\ pc[t] = "start" => \A s \in todo : state[s] # "RUNNING"

\* Who is not a Lisp thread is sent no stop signal.
NotSignalled == \A t \in Threads : pc[t] \in Outside => ~sig[t]

IInv == TypeOK /\ ListLocked /\ LinkedRight /\ StateRight /\ Acknowledged
        /\ NotSignalled /\ NeverLoses

\* Initially only Main is a thread, and nobody stops the world.
LEMMA InitInductive == Init => IInv
<1>1. Init => TypeOK
  BY StopTheWorldAssumption DEF Init, TypeOK, Places, Semaphores, Outside, Inhibited, Collector, Handler, Exiting
<1>2. Init => ListLocked /\ LinkedRight /\ StateRight /\ Acknowledged /\ NotSignalled /\ NeverLoses
  BY StopTheWorldAssumption DEF Init, ListLocked, Locking, LinkedRight, Unlinked, StateRight, Inhibited,
     Collector, Acknowledged, NotSignalled, Outside, NeverLoses
<1> QED  BY <1>1, <1>2 DEF IInv

\* The operations on a semaphore give a semaphore; a token is taken if there is
\* one.
LEMMA Tokens ==
  ASSUME NEW s \in Semaphores
  PROVE  /\ Wake(s) \in Semaphores
         /\ Wait(s) \in Semaphores
         /\ s.sem > 0 => Take(s) \in Semaphores
  BY DEF Semaphores, Wake, Wait, Take

\* A change of a thread's state word keeps the type.
LEMMA SetStateType ==
  ASSUME TypeOK, NEW s \in Threads, NEW new \in {"RUNNING", "STOPPED", "DEAD"},
         SetState(s, new)
  PROVE  /\ state' \in [Threads -> {"RUNNING", "STOPPED", "DEAD"}]
         /\ notRunning' \in [Threads -> Semaphores]
         /\ notStopped' \in [Threads -> Semaphores]
  BY Tokens DEF SetState, TypeOK

\* Each step keeps the invariant.
LEMMA NextInductive == IInv /\ [Next]_vars => IInv'
<1> SUFFICES ASSUME IInv, [Next]_vars PROVE IInv'
  OBVIOUS
<1> USE StopTheWorldAssumption DEF IInv
<1>1. ASSUME NEW t \in Threads, Begin(t) PROVE IInv'
  <2>1. TypeOK'
    BY <1>1 DEF Begin, Goto, TypeOK, Places, Semaphores, Outside, Inhibited, Collector, Handler, Exiting
  <2>2. ListLocked'
    BY <1>1 DEF Begin, Goto, TypeOK, ListLocked, Locking, NeverLoses
  <2>3. LinkedRight'
    BY <1>1 DEF Begin, Goto, TypeOK, LinkedRight, Unlinked, NeverLoses
  <2>4. StateRight'
    BY <1>1 DEF Begin, Goto, TypeOK, StateRight, Inhibited, Collector, NeverLoses
  <2>5. Acknowledged'
    BY <1>1 DEF Begin, Goto, TypeOK, ListLocked, Locking, LinkedRight, Unlinked, StateRight, Acknowledged
  <2>6. NotSignalled'
    BY <1>1 DEF Begin, Goto, TypeOK, NotSignalled, Outside, LinkedRight, Unlinked, Acknowledged, Locking
  <2>7. NeverLoses'
    BY <1>1 DEF Begin, Goto, TypeOK, StateRight, NotSignalled, Outside, Inhibited, Collector, Acknowledged, NeverLoses
  <2> QED  BY <2>1, <2>2, <2>3, <2>4, <2>5, <2>6, <2>7 DEF IInv
<1>2. ASSUME NEW t \in Threads, Exit(t) PROVE IInv'
  <2>1. TypeOK'
    BY <1>2 DEF Exit, Goto, TypeOK, Places, Semaphores, Outside, Inhibited, Collector, Handler, Exiting
  <2>2. ListLocked'
    BY <1>2 DEF Exit, Goto, TypeOK, ListLocked, Locking, NeverLoses
  <2>3. LinkedRight'
    BY <1>2 DEF Exit, Goto, TypeOK, LinkedRight, Unlinked, NeverLoses
  <2>4. StateRight'
    BY <1>2 DEF Exit, Goto, TypeOK, StateRight, Inhibited, Collector, NeverLoses
  <2>5. Acknowledged'
    BY <1>2 DEF Exit, Goto, TypeOK, ListLocked, Locking, LinkedRight, Unlinked, StateRight, Acknowledged
  <2>6. NotSignalled'
    BY <1>2 DEF Exit, Goto, TypeOK, NotSignalled, Outside, LinkedRight, Unlinked, Acknowledged, Locking
  <2>7. NeverLoses'
    BY <1>2 DEF Exit, Goto, TypeOK, StateRight, NotSignalled, Outside, Inhibited, Collector, Acknowledged, NeverLoses
  <2> QED  BY <2>1, <2>2, <2>3, <2>4, <2>5, <2>6, <2>7 DEF IInv
<1>3. ASSUME NEW t \in Threads, Inhibit(t) PROVE IInv'
  <2>1. TypeOK'
    BY <1>3 DEF Inhibit, Goto, TypeOK, Places, Semaphores, Outside, Inhibited, Collector, Handler, Exiting
  <2>2. ListLocked'
    BY <1>3 DEF Inhibit, Goto, TypeOK, ListLocked, Locking, NeverLoses
  <2>3. LinkedRight'
    BY <1>3 DEF Inhibit, Goto, TypeOK, LinkedRight, Unlinked, NeverLoses
  <2>4. StateRight'
    BY <1>3 DEF Inhibit, Goto, TypeOK, StateRight, Inhibited, Collector, NeverLoses
  <2>5. Acknowledged'
    BY <1>3 DEF Inhibit, Goto, TypeOK, ListLocked, Locking, LinkedRight, Unlinked, StateRight, Acknowledged
  <2>6. NotSignalled'
    BY <1>3 DEF Inhibit, Goto, TypeOK, NotSignalled, Outside, LinkedRight, Unlinked, Acknowledged, Locking
  <2>7. NeverLoses'
    BY <1>3 DEF Inhibit, Goto, TypeOK, StateRight, NotSignalled, Outside, Inhibited, Collector, Acknowledged, NeverLoses
  <2> QED  BY <2>1, <2>2, <2>3, <2>4, <2>5, <2>6, <2>7 DEF IInv
<1>4. ASSUME NEW t \in Threads, Deliver(t) PROVE IInv'
  <2>1. TypeOK'
    BY <1>4 DEF Deliver, Goto, TypeOK, Places, Semaphores, Outside, Inhibited, Collector, Handler, Exiting
  <2>2. ListLocked'
    BY <1>4 DEF Deliver, Goto, TypeOK, ListLocked, Locking, Outside, Handler, Exiting, Inhibited, Collector
  <2>3. LinkedRight'
    BY <1>4 DEF Deliver, Goto, TypeOK, LinkedRight, Unlinked, NeverLoses
  <2>4. StateRight'
    BY <1>4 DEF Deliver, Goto, TypeOK, StateRight, Inhibited, Collector, NeverLoses
  <2>5. Acknowledged'
    BY <1>4 DEF Deliver, Goto, TypeOK, ListLocked, Locking, LinkedRight, Unlinked, StateRight, Acknowledged
  <2>6. NotSignalled'
    BY <1>4 DEF Deliver, Goto, TypeOK, NotSignalled, Outside, LinkedRight, Unlinked, Acknowledged, Locking
  <2>7. NeverLoses'
    BY <1>4 DEF Deliver, Goto, TypeOK, StateRight, NotSignalled, Outside, Inhibited, Collector, Acknowledged, NeverLoses
  <2> QED  BY <2>1, <2>2, <2>3, <2>4, <2>5, <2>6, <2>7 DEF IInv
<1>5. ASSUME NEW t \in Threads, StopNow(t) PROVE IInv'
  <2>1. TypeOK'
    BY <1>5 DEF StopNow, Goto, TypeOK, Places, Semaphores, Outside, Inhibited, Collector, Handler, Exiting, SetState, Wake
  <2>2. ListLocked'
    BY <1>5 DEF StopNow, Goto, TypeOK, ListLocked, Locking, NeverLoses, SetState
  <2>3. LinkedRight'
    BY <1>5 DEF StopNow, Goto, TypeOK, LinkedRight, Unlinked, NeverLoses, SetState
  <2>4. StateRight'
    BY <1>5 DEF StopNow, Goto, TypeOK, StateRight, Inhibited, Collector, NeverLoses, SetState
  <2>5. Acknowledged'
    BY <1>5 DEF StopNow, Goto, TypeOK, ListLocked, Locking, LinkedRight, Unlinked, StateRight, Acknowledged, SetState
  <2>6. NotSignalled'
    BY <1>5 DEF StopNow, Goto, TypeOK, NotSignalled, Outside, LinkedRight, Unlinked, Acknowledged, Locking, SetState
  <2>7. NeverLoses'
    BY <1>5 DEF StopNow, Goto, TypeOK, StateRight, NotSignalled, Outside, Inhibited, Collector, Acknowledged, NeverLoses, SetState
  <2> QED  BY <2>1, <2>2, <2>3, <2>4, <2>5, <2>6, <2>7 DEF IInv
<1>6. ASSUME NEW t \in Threads, LookStopped(t) PROVE IInv'
  <2>1. TypeOK'
    <3>1. notStopped' \in [Threads -> Semaphores]
      BY <1>6, Tokens DEF LookStopped, TypeOK
    <3> QED  BY <1>6, <3>1 DEF LookStopped, Goto, TypeOK, Places, Handler
  <2>2. ListLocked'
    BY <1>6 DEF LookStopped, Goto, TypeOK, ListLocked, Locking, NeverLoses
  <2>3. LinkedRight'
    BY <1>6 DEF LookStopped, Goto, TypeOK, LinkedRight, Unlinked, NeverLoses
  <2>4. StateRight'
    BY <1>6 DEF LookStopped, Goto, TypeOK, StateRight, Inhibited, Collector, NeverLoses
  <2>5. Acknowledged'
    BY <1>6 DEF LookStopped, Goto, TypeOK, ListLocked, Locking, LinkedRight, Unlinked, StateRight, Acknowledged
  <2>6. NotSignalled'
    BY <1>6 DEF LookStopped, Goto, TypeOK, NotSignalled, Outside, LinkedRight, Unlinked, Acknowledged, Locking
  <2>7. NeverLoses'
    BY <1>6 DEF LookStopped, Goto, TypeOK, StateRight, NotSignalled, Outside, Inhibited, Collector, Acknowledged, NeverLoses
  <2> QED  BY <2>1, <2>2, <2>3, <2>4, <2>5, <2>6, <2>7 DEF IInv
<1>7. ASSUME NEW t \in Threads, WakeStopped(t) PROVE IInv'
  <2>1. TypeOK'
    BY <1>7 DEF WakeStopped, Goto, TypeOK, Places, Semaphores, Outside, Inhibited, Collector, Handler, Exiting, Take
  <2>2. ListLocked'
    BY <1>7 DEF WakeStopped, Goto, TypeOK, ListLocked, Locking, NeverLoses
  <2>3. LinkedRight'
    BY <1>7 DEF WakeStopped, Goto, TypeOK, LinkedRight, Unlinked, NeverLoses
  <2>4. StateRight'
    BY <1>7 DEF WakeStopped, Goto, TypeOK, StateRight, Inhibited, Collector, NeverLoses
  <2>5. Acknowledged'
    BY <1>7 DEF WakeStopped, Goto, TypeOK, ListLocked, Locking, LinkedRight, Unlinked, StateRight, Acknowledged
  <2>6. NotSignalled'
    BY <1>7 DEF WakeStopped, Goto, TypeOK, NotSignalled, Outside, LinkedRight, Unlinked, Acknowledged, Locking
  <2>7. NeverLoses'
    BY <1>7 DEF WakeStopped, Goto, TypeOK, StateRight, NotSignalled, Outside, Inhibited, Collector, Acknowledged, NeverLoses
  <2> QED  BY <2>1, <2>2, <2>3, <2>4, <2>5, <2>6, <2>7 DEF IInv
<1>8. ASSUME NEW t \in Threads, Die(t) PROVE IInv'
  <2>1. TypeOK'
    BY <1>8 DEF Die, Goto, TypeOK, Places, Semaphores, Outside, Inhibited, Collector, Handler, Exiting, SetState, Wake
  <2>2. ListLocked'
    BY <1>8 DEF Die, Goto, TypeOK, ListLocked, Locking, NeverLoses, SetState
  <2>3. LinkedRight'
    BY <1>8 DEF Die, Goto, TypeOK, LinkedRight, Unlinked, NeverLoses, SetState
  <2>4. StateRight'
    BY <1>8 DEF Die, Goto, TypeOK, StateRight, Inhibited, Collector, NeverLoses, SetState
  <2>5. Acknowledged'
    BY <1>8 DEF Die, Goto, TypeOK, ListLocked, Locking, LinkedRight, Unlinked, StateRight, Acknowledged, SetState
  <2>6. NotSignalled'
    BY <1>8 DEF Die, Goto, TypeOK, NotSignalled, Outside, LinkedRight, Unlinked, Acknowledged, Locking, SetState
  <2>7. NeverLoses'
    BY <1>8 DEF Die, Goto, TypeOK, StateRight, NotSignalled, Outside, Inhibited, Collector, Acknowledged, NeverLoses, SetState
  <2> QED  BY <2>1, <2>2, <2>3, <2>4, <2>5, <2>6, <2>7 DEF IInv
<1>9. ASSUME NEW t \in Threads, Detach(t) PROVE IInv'
  <2>1. TypeOK'
    BY <1>9 DEF Detach, Goto, TypeOK, Places, Semaphores, Outside, Inhibited, Collector, Handler, Exiting
  <2>2. ListLocked'
    BY <1>9 DEF Detach, Goto, TypeOK, ListLocked, Locking, NeverLoses
  <2>3. LinkedRight'
    BY <1>9 DEF Detach, Goto, TypeOK, LinkedRight, Unlinked, NeverLoses
  <2>4. StateRight'
    BY <1>9 DEF Detach, Goto, TypeOK, StateRight, Inhibited, Collector, NeverLoses
  <2>5. Acknowledged'
    BY <1>9 DEF Detach, Goto, TypeOK, ListLocked, Locking, LinkedRight, Unlinked, StateRight, Acknowledged
  <2>6. NotSignalled'
    BY <1>9 DEF Detach, Goto, TypeOK, NotSignalled, Outside, LinkedRight, Unlinked, Acknowledged, Locking
  <2>7. NeverLoses'
    BY <1>9 DEF Detach, Goto, TypeOK, StateRight, NotSignalled, Outside, Inhibited, Collector, Acknowledged, NeverLoses
  <2> QED  BY <2>1, <2>2, <2>3, <2>4, <2>5, <2>6, <2>7 DEF IInv
<1>10. ASSUME NEW t \in Threads, Leave(t) PROVE IInv'
  <2>1. TypeOK'
    BY <1>10 DEF Leave, Goto, TypeOK, Places, Semaphores, Outside, Inhibited, Collector, Handler, Exiting
  <2>2. ListLocked'
    BY <1>10 DEF Leave, Goto, TypeOK, ListLocked, Locking, NeverLoses
  <2>3. LinkedRight'
    BY <1>10 DEF Leave, Goto, TypeOK, LinkedRight, Unlinked, NeverLoses
  <2>4. StateRight'
    BY <1>10 DEF Leave, Goto, TypeOK, StateRight, Inhibited, Collector, NeverLoses
  <2>5. Acknowledged'
    BY <1>10 DEF Leave, Goto, TypeOK, ListLocked, Locking, LinkedRight, Unlinked, StateRight, Acknowledged
  <2>6. NotSignalled'
    BY <1>10 DEF Leave, Goto, TypeOK, NotSignalled, Outside, LinkedRight, Unlinked, Acknowledged, Locking
  <2>7. NeverLoses'
    BY <1>10 DEF Leave, Goto, TypeOK, StateRight, NotSignalled, Outside, Inhibited, Collector, Acknowledged, NeverLoses
  <2> QED  BY <2>1, <2>2, <2>3, <2>4, <2>5, <2>6, <2>7 DEF IInv
<1>11. ASSUME NEW t \in Threads, TryLock(t) PROVE IInv'
  <2>1. TypeOK'
    BY <1>11 DEF TryLock, Goto, TypeOK, Places, Semaphores, Outside, Inhibited, Collector, Handler, Exiting
  <2>2. ListLocked'
    BY <1>11 DEF TryLock, Goto, TypeOK, ListLocked, Locking, NeverLoses
  <2>3. LinkedRight'
    BY <1>11 DEF TryLock, Goto, TypeOK, LinkedRight, Unlinked, NeverLoses
  <2>4. StateRight'
    BY <1>11 DEF TryLock, Goto, TypeOK, StateRight, Inhibited, Collector, NeverLoses
  <2>5. Acknowledged'
    BY <1>11 DEF TryLock, Goto, TypeOK, ListLocked, Locking, LinkedRight, Unlinked, StateRight, Acknowledged
  <2>6. NotSignalled'
    BY <1>11 DEF TryLock, Goto, TypeOK, NotSignalled, Outside, LinkedRight, Unlinked, Acknowledged, Locking
  <2>7. NeverLoses'
    BY <1>11 DEF TryLock, Goto, TypeOK, StateRight, NotSignalled, Outside, Inhibited, Collector, Acknowledged, NeverLoses
  <2> QED  BY <2>1, <2>2, <2>3, <2>4, <2>5, <2>6, <2>7 DEF IInv
<1>12. ASSUME NEW t \in Threads, Signal(t) PROVE IInv'
  <2>1. TypeOK'
    BY <1>12 DEF Signal, Goto, TypeOK, Places, Semaphores, Outside, Inhibited, Collector, Handler, Exiting
  <2>2. ListLocked'
    BY <1>12 DEF Signal, Goto, TypeOK, ListLocked, Locking, NeverLoses
  <2>3. LinkedRight'
    BY <1>12 DEF Signal, Goto, TypeOK, LinkedRight, Unlinked, NeverLoses
  <2>4. StateRight'
    BY <1>12 DEF Signal, Goto, TypeOK, StateRight, Inhibited, Collector, NeverLoses
  <2>5. Acknowledged'
    BY <1>12 DEF Signal, Goto, TypeOK, ListLocked, Locking, LinkedRight, Unlinked, StateRight, Acknowledged
  <2>6. NotSignalled'
    BY <1>12 DEF Signal, Goto, TypeOK, NotSignalled, Outside, LinkedRight, Unlinked, Acknowledged, Locking
  <2>7. NeverLoses'
    BY <1>12 DEF Signal, Goto, TypeOK, StateRight, NotSignalled, Outside, Inhibited, Collector, Acknowledged, NeverLoses
  <2> QED  BY <2>1, <2>2, <2>3, <2>4, <2>5, <2>6, <2>7 DEF IInv
<1>13. ASSUME NEW t \in Threads, Await(t) PROVE IInv'
  <2>1. TypeOK'
    BY <1>13 DEF Await, Goto, TypeOK, Places, Semaphores, Outside, Inhibited, Collector, Handler, Exiting, Wait
  <2>2. ListLocked'
    BY <1>13 DEF Await, Goto, TypeOK, ListLocked, Locking, NeverLoses
  <2>3. LinkedRight'
    BY <1>13 DEF Await, Goto, TypeOK, LinkedRight, Unlinked, NeverLoses
  <2>4. StateRight'
    BY <1>13 DEF Await, Goto, TypeOK, StateRight, Inhibited, Collector, NeverLoses
  <2>5. Acknowledged'
    BY <1>13 DEF Await, Goto, TypeOK, ListLocked, Locking, LinkedRight, Unlinked, StateRight, Acknowledged
  <2>6. NotSignalled'
    BY <1>13 DEF Await, Goto, TypeOK, NotSignalled, Outside, LinkedRight, Unlinked, Acknowledged, Locking
  <2>7. NeverLoses'
    BY <1>13 DEF Await, Goto, TypeOK, StateRight, NotSignalled, Outside, Inhibited, Collector, Acknowledged, NeverLoses
  <2> QED  BY <2>1, <2>2, <2>3, <2>4, <2>5, <2>6, <2>7 DEF IInv
<1>14. ASSUME NEW t \in Threads, Awake(t) PROVE IInv'
  <2>1. TypeOK'
    <3>1. notRunning' \in [Threads -> Semaphores]
      BY <1>14, Tokens DEF Awake, TypeOK
    <3> QED  BY <1>14, <3>1 DEF Awake, Goto, TypeOK, Places, Inhibited, Collector
  <2>2. ListLocked'
    BY <1>14 DEF Awake, Goto, TypeOK, ListLocked, Locking, NeverLoses
  <2>3. LinkedRight'
    BY <1>14 DEF Awake, Goto, TypeOK, LinkedRight, Unlinked, NeverLoses
  <2>4. StateRight'
    BY <1>14 DEF Awake, Goto, TypeOK, StateRight, Inhibited, Collector, NeverLoses
  <2>5. Acknowledged'
    BY <1>14 DEF Awake, Goto, TypeOK, ListLocked, Locking, LinkedRight, Unlinked, StateRight, Acknowledged
  <2>6. NotSignalled'
    BY <1>14 DEF Awake, Goto, TypeOK, NotSignalled, Outside, LinkedRight, Unlinked, Acknowledged, Locking
  <2>7. NeverLoses'
    BY <1>14 DEF Awake, Goto, TypeOK, StateRight, NotSignalled, Outside, Inhibited, Collector, Acknowledged, NeverLoses
  <2> QED  BY <2>1, <2>2, <2>3, <2>4, <2>5, <2>6, <2>7 DEF IInv
<1>15. ASSUME NEW t \in Threads, Collect(t) PROVE IInv'
  <2>1. TypeOK'
    BY <1>15 DEF Collect, Goto, TypeOK, Places, Semaphores, Outside, Inhibited, Collector, Handler, Exiting
  <2>2. ListLocked'
    BY <1>15 DEF Collect, Goto, TypeOK, ListLocked, Locking, NeverLoses
  <2>3. LinkedRight'
    BY <1>15 DEF Collect, Goto, TypeOK, LinkedRight, Unlinked, NeverLoses
  <2>4. StateRight'
    BY <1>15 DEF Collect, Goto, TypeOK, StateRight, Inhibited, Collector, NeverLoses
  <2>5. Acknowledged'
    BY <1>15 DEF Collect, Goto, TypeOK, ListLocked, Locking, LinkedRight, Unlinked, StateRight, Acknowledged
  <2>6. NotSignalled'
    BY <1>15 DEF Collect, Goto, TypeOK, NotSignalled, Outside, LinkedRight, Unlinked, Acknowledged, Locking
  <2>7. NeverLoses'
    BY <1>15 DEF Collect, Goto, TypeOK, StateRight, NotSignalled, Outside, Inhibited, Collector, Acknowledged, NeverLoses
  <2> QED  BY <2>1, <2>2, <2>3, <2>4, <2>5, <2>6, <2>7 DEF IInv
<1>16. ASSUME NEW t \in Threads, StartWorld(t) PROVE IInv'
  <2>1. TypeOK'
    <3>1. pc' \in [Threads -> Places] /\ listLock' \in Threads \cup {NoThread} /\ todo' \subseteq Threads
      BY <1>16 DEF StartWorld, Goto, TypeOK, Places, Inhibited, Collector
    <3>2. /\ state' \in [Threads -> {"RUNNING", "STOPPED", "DEAD"}]
          /\ notRunning' \in [Threads -> Semaphores]
          /\ notStopped' \in [Threads -> Semaphores]
      <4>1. CASE UNCHANGED <<state, notRunning, notStopped>>
        BY <4>1 DEF TypeOK
      <4>2. ASSUME NEW s \in todo, SetState(s, "RUNNING")
            PROVE  /\ state' \in [Threads -> {"RUNNING", "STOPPED", "DEAD"}]
                   /\ notRunning' \in [Threads -> Semaphores]
                   /\ notStopped' \in [Threads -> Semaphores]
        BY <4>2, SetStateType DEF TypeOK
      <4> QED  BY <1>16, <4>1, <4>2 DEF StartWorld
    <3> QED  BY <1>16, <3>1, <3>2 DEF StartWorld, TypeOK
  <2>2. ListLocked'
    BY <1>16 DEF StartWorld, Goto, TypeOK, ListLocked, Locking, Acknowledged
  <2>3. LinkedRight'
    BY <1>16 DEF StartWorld, Goto, TypeOK, LinkedRight, Unlinked, NeverLoses, SetState
  <2>4. StateRight'
    BY <1>16 DEF StartWorld, Goto, TypeOK, StateRight, Inhibited, Collector, NeverLoses, SetState
  <2>5. Acknowledged'
    BY <1>16 DEF StartWorld, Goto, TypeOK, ListLocked, Locking, LinkedRight, Unlinked, StateRight, Acknowledged, SetState
  <2>6. NotSignalled'
    BY <1>16 DEF StartWorld, Goto, TypeOK, NotSignalled, Outside, LinkedRight, Unlinked, Acknowledged, Locking, SetState
  <2>7. NeverLoses'
    BY <1>16 DEF StartWorld, Goto, TypeOK, StateRight, NotSignalled, Outside, Inhibited, Collector, Acknowledged, NeverLoses, SetState
  <2> QED  BY <2>1, <2>2, <2>3, <2>4, <2>5, <2>6, <2>7 DEF IInv
<1>17. ASSUME NEW t \in Threads, ReleaseGCLock(t) PROVE IInv'
  <2>1. TypeOK'
    BY <1>17 DEF ReleaseGCLock, Goto, TypeOK, Places, Semaphores, Outside, Inhibited, Collector, Handler, Exiting
  <2>2. ListLocked'
    BY <1>17 DEF ReleaseGCLock, Goto, TypeOK, ListLocked, Locking, NeverLoses
  <2>3. LinkedRight'
    BY <1>17 DEF ReleaseGCLock, Goto, TypeOK, LinkedRight, Unlinked, NeverLoses
  <2>4. StateRight'
    BY <1>17 DEF ReleaseGCLock, Goto, TypeOK, StateRight, Inhibited, Collector, NeverLoses
  <2>5. Acknowledged'
    BY <1>17 DEF ReleaseGCLock, Goto, TypeOK, ListLocked, Locking, LinkedRight, Unlinked, StateRight, Acknowledged
  <2>6. NotSignalled'
    BY <1>17 DEF ReleaseGCLock, Goto, TypeOK, NotSignalled, Outside, LinkedRight, Unlinked, Acknowledged, Locking
  <2>7. NeverLoses'
    BY <1>17 DEF ReleaseGCLock, Goto, TypeOK, StateRight, NotSignalled, Outside, Inhibited, Collector, Acknowledged, NeverLoses
  <2> QED  BY <2>1, <2>2, <2>3, <2>4, <2>5, <2>6, <2>7 DEF IInv
<1>18. ASSUME NEW t \in Threads, Enter(t) PROVE IInv'
  <2>1. TypeOK'
    BY <1>18 DEF Enter, Goto, TypeOK, Places, Semaphores, Outside, Inhibited, Collector, Handler, Exiting
  <2>2. ListLocked'
    BY <1>18 DEF Enter, Goto, TypeOK, ListLocked, Locking, NeverLoses
  <2>3. LinkedRight'
    BY <1>18 DEF Enter, Goto, TypeOK, LinkedRight, Unlinked, NeverLoses
  <2>4. StateRight'
    BY <1>18 DEF Enter, Goto, TypeOK, StateRight, Inhibited, Collector, NeverLoses
  <2>5. Acknowledged'
    BY <1>18 DEF Enter, Goto, TypeOK, ListLocked, Locking, LinkedRight, Unlinked, StateRight, Acknowledged
  <2>6. NotSignalled'
    BY <1>18 DEF Enter, Goto, TypeOK, NotSignalled, Outside, LinkedRight, Unlinked, Acknowledged, Locking
  <2>7. NeverLoses'
    BY <1>18 DEF Enter, Goto, TypeOK, StateRight, NotSignalled, Outside, Inhibited, Collector, Acknowledged, NeverLoses
  <2> QED  BY <2>1, <2>2, <2>3, <2>4, <2>5, <2>6, <2>7 DEF IInv
<1>19. ASSUME NEW t \in Threads, Unlink(t) PROVE IInv'
  <2>1. TypeOK'
    BY <1>19 DEF Unlink, Goto, TypeOK, Places, Semaphores, Outside, Inhibited, Collector, Handler, Exiting
  <2>2. ListLocked'
    BY <1>19 DEF Unlink, Goto, TypeOK, ListLocked, Locking, NeverLoses
  <2>3. LinkedRight'
    BY <1>19 DEF Unlink, Goto, TypeOK, LinkedRight, Unlinked, NeverLoses
  <2>4. StateRight'
    BY <1>19 DEF Unlink, Goto, TypeOK, StateRight, Inhibited, Collector, NeverLoses
  <2>5. Acknowledged'
    BY <1>19 DEF Unlink, Goto, TypeOK, ListLocked, Locking, LinkedRight, Unlinked, StateRight, Acknowledged
  <2>6. NotSignalled'
    BY <1>19 DEF Unlink, Goto, TypeOK, NotSignalled, Outside, LinkedRight, Unlinked, Acknowledged, Locking
  <2>7. NeverLoses'
    BY <1>19 DEF Unlink, Goto, TypeOK, StateRight, NotSignalled, Outside, Inhibited, Collector, Acknowledged, NeverLoses
  <2> QED  BY <2>1, <2>2, <2>3, <2>4, <2>5, <2>6, <2>7 DEF IInv
<1>20. ASSUME NEW t \in Threads, LockList(t) PROVE IInv'
  <2>1. TypeOK'
    BY <1>20 DEF LockList, Goto, TypeOK, Places, Semaphores, Outside, Inhibited, Collector, Handler, Exiting
  <2>2. ListLocked'
    BY <1>20 DEF LockList, Goto, TypeOK, ListLocked, Locking, NeverLoses
  <2>3. LinkedRight'
    BY <1>20 DEF LockList, Goto, TypeOK, LinkedRight, Unlinked, NeverLoses
  <2>4. StateRight'
    BY <1>20 DEF LockList, Goto, TypeOK, StateRight, Inhibited, Collector, NeverLoses
  <2>5. Acknowledged'
    BY <1>20 DEF LockList, Goto, TypeOK, ListLocked, Locking, LinkedRight, Unlinked, StateRight, Acknowledged
  <2>6. NotSignalled'
    BY <1>20 DEF LockList, Goto, TypeOK, NotSignalled, Outside, LinkedRight, Unlinked, Acknowledged, Locking
  <2>7. NeverLoses'
    BY <1>20 DEF LockList, Goto, TypeOK, StateRight, NotSignalled, Outside, Inhibited, Collector, Acknowledged, NeverLoses
  <2> QED  BY <2>1, <2>2, <2>3, <2>4, <2>5, <2>6, <2>7 DEF IInv
<1>21. CASE UNCHANGED vars
  BY <1>21 DEF vars, TypeOK, ListLocked, LinkedRight, StateRight, Acknowledged, NotSignalled, NeverLoses
<1> QED
  BY <1>1, <1>2, <1>3, <1>4, <1>5, <1>6, <1>7, <1>8, <1>9, <1>10, <1>11, <1>12, <1>13, <1>14, <1>15, <1>16, <1>17, <1>18, <1>19, <1>20, <1>21 DEF Next, Step, Locked

\* The program never leaves the invariant.
THEOREM Invariant == Spec => []IInv
  BY InitInductive, NextInductive, PTL DEF Spec

\* Every variable stays in its type.
THEOREM TypeCorrect == Spec => []TypeOK
<1>1. IInv => TypeOK
  BY DEF IInv
<1> QED  BY <1>1, Invariant, PTL

\* While a thread collects garbage no other thread touches the heap, whichever
\* threads come, go or defer the stop signal meanwhile.
THEOREM StopsTheWorld == Spec => []WorldIsStopped
<1>1. IInv => WorldIsStopped
  <2> SUFFICES ASSUME IInv, NEW t \in Threads, pc[t] = "collect",
                      NEW s \in Threads \ {t}, Mutating(s)
               PROVE  FALSE
    BY DEF WorldIsStopped
  <2>1. s \in linked /\ state[s] = "RUNNING"
    BY DEF IInv, Mutating, LinkedRight, Unlinked, StateRight, Inhibited, Collector
  <2>2. \A r \in linked \ {t} : state[r] # "RUNNING"
    BY DEF IInv, Acknowledged
  <2> QED  BY <2>1, <2>2
<1> QED  BY <1>1, Invariant, PTL

\* No thread reaches one of the lose() calls of the handler or the collector.
THEOREM Survives == Spec => []NeverLoses
<1>1. IInv => NeverLoses
  BY DEF IInv
<1> QED  BY <1>1, Invariant, PTL

------------------------------------------------------------------------------
(* The tokens.  There is one exactly for the thread that is waited for: the     *)
(* collector waits for one at a time, and a stopped thread only for itself.     *)

NoToken == [sem |-> 0, waitcount |-> 0]
Counted == [sem |-> 0, waitcount |-> 1]
Posted  == [sem |-> 1, waitcount |-> 0]

\* Where a thread has in_gc_lock, and whom it waits for.
GCLocked == \A t \in Threads :
  /\ pc[t] \in {"take", "unlock"} \cup Locking => gcLock = t
  /\ pc[t] = "sleep" => whom \in todo

\* Who waits until s is not running?
AwaitedBy(t, s) == pc[t] = "sleep" /\ whom = s

RunningTokens == \A s \in Threads :
  /\ \A t \in Threads : AwaitedBy(t, s) =>
       notRunning[s] = IF state[s] = "RUNNING" THEN Counted ELSE Posted
  /\ (\A t \in Threads : ~AwaitedBy(t, s)) => notRunning[s] = NoToken

StoppedTokens == \A t \in Threads :
  notStopped[t] = IF pc[t] # "asleep" THEN NoToken
                  ELSE IF state[t] = "STOPPED" THEN Counted ELSE Posted

TokensRight == GCLocked /\ RunningTokens /\ StoppedTokens

\* What the operations on a semaphore do to the three values.
LEMMA TokenSteps ==
  /\ Wait(NoToken) = Counted
  /\ Wake(NoToken) = NoToken
  /\ Wake(Counted) = Posted
  /\ Take(Posted) = NoToken
  /\ ~(NoToken.sem > 0) /\ ~(Counted.sem > 0)
BY DEF NoToken, Counted, Posted, Wait, Wake, Take

\* A step that changes no semaphore, no state word, and nobody's sleep.
LEMMA TokensStay ==
  ASSUME TypeOK, RunningTokens, StoppedTokens,
         UNCHANGED <<state, notRunning, notStopped>>,
         \A t \in Threads : /\ pc'[t] = "sleep" <=> pc[t] = "sleep"
                            /\ pc[t] = "sleep" => whom' = whom
                            /\ pc'[t] = "asleep" <=> pc[t] = "asleep"
  PROVE  RunningTokens' /\ StoppedTokens'
<1>1. \A t, s \in Threads : AwaitedBy(t, s)' <=> AwaitedBy(t, s)
  BY DEF AwaitedBy
<1>2. RunningTokens'
  BY <1>1 DEF RunningTokens
<1>3. StoppedTokens'
  BY DEF StoppedTokens
<1> QED  BY <1>2, <1>3

\* Nobody waits for a thread that is not in all_threads, or that is not among
\* those that the collector has still to see.
LEMMA NotAwaited ==
  ASSUME IInv, GCLocked, NEW s \in Threads, s \notin linked \/ s \notin todo
  PROVE  \A t \in Threads : ~AwaitedBy(t, s)
BY DEF IInv, GCLocked, AwaitedBy, Acknowledged, Locking

\* Nobody waits while another place of the collector is taken.
LEMMA OneWaiter ==
  ASSUME IInv, NEW t \in Threads, pc[t] \in Locking
  PROVE  \A u \in Threads \ {t} : pc[u] # "sleep"
BY DEF IInv, ListLocked, Locking

\* Each step keeps the tokens right.
LEMMA TokensNext == IInv /\ IInv' /\ TokensRight /\ [Next]_vars => TokensRight'
<1> SUFFICES ASSUME IInv, IInv', TokensRight, [Next]_vars PROVE TokensRight'
  OBVIOUS
<1> USE StopTheWorldAssumption DEF IInv, TokensRight
<1>1. ASSUME NEW t \in Threads, Exit(t) PROVE TokensRight'
  <2>1. GCLocked'
    BY <1>1 DEF Exit, Goto, TypeOK, GCLocked, Locking, ListLocked, Acknowledged
  <2>2. RunningTokens' /\ StoppedTokens'
    BY <1>1, TokensStay DEF Exit, Goto, TypeOK, Inhibited, Collector, Handler, Exiting, Outside, ListLocked, Locking
  <2> QED  BY <2>1, <2>2
<1>2. ASSUME NEW t \in Threads, Inhibit(t) PROVE TokensRight'
  <2>1. GCLocked'
    BY <1>2 DEF Inhibit, Goto, TypeOK, GCLocked, Locking, ListLocked, Acknowledged
  <2>2. RunningTokens' /\ StoppedTokens'
    BY <1>2, TokensStay DEF Inhibit, Goto, TypeOK, Inhibited, Collector, Handler, Exiting, Outside, ListLocked, Locking
  <2> QED  BY <2>1, <2>2
<1>3. ASSUME NEW t \in Threads, Deliver(t) PROVE TokensRight'
  <2>1. GCLocked'
    BY <1>3 DEF Deliver, Goto, TypeOK, GCLocked, Locking, ListLocked, Acknowledged
  <2>2. RunningTokens' /\ StoppedTokens'
    BY <1>3, TokensStay DEF Deliver, Goto, TypeOK, Inhibited, Collector, Handler, Exiting, Outside, ListLocked, Locking
  <2> QED  BY <2>1, <2>2
<1>4. ASSUME NEW t \in Threads, Detach(t) PROVE TokensRight'
  <2>1. GCLocked'
    BY <1>4 DEF Detach, Goto, TypeOK, GCLocked, Locking, ListLocked, Acknowledged
  <2>2. RunningTokens' /\ StoppedTokens'
    BY <1>4, TokensStay DEF Detach, Goto, TypeOK, Inhibited, Collector, Handler, Exiting, Outside, ListLocked, Locking
  <2> QED  BY <2>1, <2>2
<1>5. ASSUME NEW t \in Threads, Leave(t) PROVE TokensRight'
  <2>1. GCLocked'
    BY <1>5 DEF Leave, Goto, TypeOK, GCLocked, Locking, ListLocked, Acknowledged
  <2>2. RunningTokens' /\ StoppedTokens'
    BY <1>5, TokensStay DEF Leave, Goto, TypeOK, Inhibited, Collector, Handler, Exiting, Outside, ListLocked, Locking
  <2> QED  BY <2>1, <2>2
<1>6. ASSUME NEW t \in Threads, TryLock(t) PROVE TokensRight'
  <2>1. GCLocked'
    BY <1>6 DEF TryLock, Goto, TypeOK, GCLocked, Locking, ListLocked, Acknowledged
  <2>2. RunningTokens' /\ StoppedTokens'
    BY <1>6, TokensStay DEF TryLock, Goto, TypeOK, Inhibited, Collector, Handler, Exiting, Outside, ListLocked, Locking
  <2> QED  BY <2>1, <2>2
<1>7. ASSUME NEW t \in Threads, Signal(t) PROVE TokensRight'
  <2>1. GCLocked'
    BY <1>7 DEF Signal, Goto, TypeOK, GCLocked, Locking, ListLocked, Acknowledged
  <2>2. RunningTokens' /\ StoppedTokens'
    BY <1>7, TokensStay DEF Signal, Goto, TypeOK, Inhibited, Collector, Handler, Exiting, Outside, ListLocked, Locking
  <2> QED  BY <2>1, <2>2
<1>8. ASSUME NEW t \in Threads, Collect(t) PROVE TokensRight'
  <2>1. GCLocked'
    BY <1>8 DEF Collect, Goto, TypeOK, GCLocked, Locking, ListLocked, Acknowledged
  <2>2. RunningTokens' /\ StoppedTokens'
    BY <1>8, TokensStay DEF Collect, Goto, TypeOK, Inhibited, Collector, Handler, Exiting, Outside, ListLocked, Locking
  <2> QED  BY <2>1, <2>2
<1>9. ASSUME NEW t \in Threads, ReleaseGCLock(t) PROVE TokensRight'
  <2>1. GCLocked'
    BY <1>9 DEF ReleaseGCLock, Goto, TypeOK, GCLocked, Locking, ListLocked, Acknowledged
  <2>2. RunningTokens' /\ StoppedTokens'
    BY <1>9, TokensStay DEF ReleaseGCLock, Goto, TypeOK, Inhibited, Collector, Handler, Exiting, Outside, ListLocked, Locking
  <2> QED  BY <2>1, <2>2
<1>10. ASSUME NEW t \in Threads, Enter(t) PROVE TokensRight'
  <2>1. GCLocked'
    BY <1>10 DEF Enter, Goto, TypeOK, GCLocked, Locking, ListLocked, Acknowledged
  <2>2. RunningTokens' /\ StoppedTokens'
    BY <1>10, TokensStay DEF Enter, Goto, TypeOK, Inhibited, Collector, Handler, Exiting, Outside, ListLocked, Locking
  <2> QED  BY <2>1, <2>2
<1>11. ASSUME NEW t \in Threads, Unlink(t) PROVE TokensRight'
  <2>1. GCLocked'
    BY <1>11 DEF Unlink, Goto, TypeOK, GCLocked, Locking, ListLocked, Acknowledged
  <2>2. RunningTokens' /\ StoppedTokens'
    BY <1>11, TokensStay DEF Unlink, Goto, TypeOK, Inhibited, Collector, Handler, Exiting, Outside, ListLocked, Locking
  <2> QED  BY <2>1, <2>2
<1>12. ASSUME NEW t \in Threads, LockList(t) PROVE TokensRight'
  <2>1. GCLocked'
    BY <1>12 DEF LockList, Goto, TypeOK, GCLocked, Locking, ListLocked, Acknowledged
  <2>2. RunningTokens' /\ StoppedTokens'
    BY <1>12, TokensStay DEF LockList, Goto, TypeOK, Inhibited, Collector, Handler, Exiting, Outside, ListLocked, Locking
  <2> QED  BY <2>1, <2>2
<1>13. ASSUME NEW t \in Threads, Begin(t) PROVE TokensRight'
  <2>1. GCLocked'
    BY <1>13 DEF Begin, Goto, TypeOK, GCLocked, Locking, ListLocked, Acknowledged
  <2>2. RunningTokens'
    <3>1. \A u \in Threads : ~AwaitedBy(u, t)
      BY <1>13, NotAwaited DEF Begin, LinkedRight, Unlinked
    <3>2. \A u, s \in Threads : AwaitedBy(u, s)' <=> AwaitedBy(u, s)
      BY <1>13 DEF Begin, Goto, TypeOK, AwaitedBy
    <3> QED
      BY <1>13, <3>1, <3>2 DEF Begin, TypeOK, RunningTokens, NoToken
  <2>3. StoppedTokens'
    BY <1>13 DEF Begin, Goto, TypeOK, StoppedTokens, NoToken
  <2> QED  BY <2>1, <2>2, <2>3
<1>14. ASSUME NEW t \in Threads, Die(t) PROVE TokensRight'
  <2>1. GCLocked'
    BY <1>14 DEF Die, SetState, Goto, TypeOK, GCLocked, Locking, ListLocked, Acknowledged
  <2>2. RunningTokens'
    <3>1. \A u, s \in Threads : AwaitedBy(u, s)' <=> AwaitedBy(u, s)
      BY <1>14 DEF Die, Goto, TypeOK, AwaitedBy, NeverLoses
    <3>2. state[t] = "RUNNING" /\ state' = [state EXCEPT ![t] = "DEAD"]
          /\ notRunning' = [notRunning EXCEPT ![t] = Wake(notRunning[t])]
      BY <1>14 DEF Die, SetState, StateRight
    <3> QED
      BY <3>1, <3>2, TokenSteps DEF TypeOK, RunningTokens
  <2>3. StoppedTokens'
    <3>1. state[t] = "RUNNING" /\ state' = [state EXCEPT ![t] = "DEAD"]
          /\ notStopped' = [notStopped EXCEPT ![t] = Wake(notStopped[t])]
      BY <1>14 DEF Die, SetState, StateRight
    <3> QED
      BY <1>14, <3>1, TokenSteps DEF Die, Goto, TypeOK, StoppedTokens
  <2> QED  BY <2>1, <2>2, <2>3
<1>15. ASSUME NEW t \in Threads, StopNow(t) PROVE TokensRight'
  <2>1. GCLocked'
    BY <1>15 DEF StopNow, SetState, Goto, TypeOK, GCLocked, Locking, ListLocked, Acknowledged
  <2>2. RunningTokens'
    <3>1. \A u, s \in Threads : AwaitedBy(u, s)' <=> AwaitedBy(u, s)
      BY <1>15 DEF StopNow, Goto, TypeOK, AwaitedBy, NeverLoses
    <3>2. state[t] = "RUNNING" /\ state' = [state EXCEPT ![t] = "STOPPED"]
          /\ notRunning' = [notRunning EXCEPT ![t] = Wake(notRunning[t])]
      BY <1>15 DEF StopNow, SetState, StateRight
    <3> QED
      BY <3>1, <3>2, TokenSteps DEF TypeOK, RunningTokens
  <2>3. StoppedTokens'
    BY <1>15 DEF StopNow, SetState, Goto, TypeOK, StoppedTokens
  <2> QED  BY <2>1, <2>2, <2>3
<1>16. ASSUME NEW t \in Threads, LookStopped(t) PROVE TokensRight'
  <2>1. GCLocked'
    BY <1>16 DEF LookStopped, Goto, TypeOK, GCLocked, Locking, ListLocked, Acknowledged
  <2>2. RunningTokens'
    <3>1. \A u, s \in Threads : AwaitedBy(u, s)' <=> AwaitedBy(u, s)
      BY <1>16 DEF LookStopped, Goto, TypeOK, AwaitedBy, NeverLoses
    <3> QED
      BY <1>16, <3>1 DEF LookStopped, RunningTokens
  <2>3. StoppedTokens'
    BY <1>16, TokenSteps DEF LookStopped, Goto, TypeOK, StoppedTokens
  <2> QED  BY <2>1, <2>2, <2>3
<1>17. ASSUME NEW t \in Threads, WakeStopped(t) PROVE TokensRight'
  <2>1. GCLocked'
    BY <1>17 DEF WakeStopped, Goto, TypeOK, GCLocked, Locking, ListLocked, Acknowledged
  <2>2. RunningTokens'
    <3>1. \A u, s \in Threads : AwaitedBy(u, s)' <=> AwaitedBy(u, s)
      BY <1>17 DEF WakeStopped, Goto, TypeOK, AwaitedBy, NeverLoses
    <3> QED
      BY <1>17, <3>1 DEF WakeStopped, RunningTokens
  <2>3. StoppedTokens'
    BY <1>17, TokenSteps DEF WakeStopped, Goto, TypeOK, StoppedTokens
  <2> QED  BY <2>1, <2>2, <2>3
<1>18. ASSUME NEW t \in Threads, Await(t) PROVE TokensRight'
  <2>1. GCLocked'
    BY <1>18 DEF Await, Goto, TypeOK, GCLocked, Locking, ListLocked, Acknowledged
  <2>2. RunningTokens'
    <3>1. \A u \in Threads : pc[u] # "sleep"
      BY <1>18, OneWaiter DEF Await, Locking
    <3>2. \A s \in Threads : notRunning[s] = NoToken
      BY <3>1 DEF RunningTokens, AwaitedBy
    <3>3. CASE pc'[t] = "sleep"
      <4>1. PICK s \in todo : /\ state[s] = "RUNNING" /\ whom' = s
                              /\ notRunning' = [notRunning EXCEPT ![s] = Wait(notRunning[s])]
                              /\ pc' = [pc EXCEPT ![t] = "sleep"]
        BY <1>18, <3>3 DEF Await, Goto, TypeOK
      <4>2. \A u, v \in Threads : AwaitedBy(u, v)' <=> u = t /\ v = s
        BY <3>1, <4>1 DEF AwaitedBy, TypeOK
      <4>3. state' = state
        BY <1>18 DEF Await
      <4> QED
        BY <3>2, <4>1, <4>2, <4>3, TokenSteps DEF TypeOK, RunningTokens
    <3>4. CASE pc'[t] # "sleep"
      <4>1. \A u \in Threads : pc'[u] # "sleep"
        BY <1>18, <3>1, <3>4 DEF Await, Goto, TypeOK
      <4>2. notRunning' = notRunning
        BY <1>18, <3>4 DEF Await, Goto, TypeOK
      <4> QED
        BY <3>2, <4>1, <4>2 DEF RunningTokens, AwaitedBy
    <3> QED
      BY <3>3, <3>4
  <2>3. StoppedTokens'
    BY <1>18 DEF Await, Goto, TypeOK, StoppedTokens
  <2> QED  BY <2>1, <2>2, <2>3
<1>19. ASSUME NEW t \in Threads, Awake(t) PROVE TokensRight'
  <2>1. GCLocked'
    BY <1>19 DEF Awake, Goto, TypeOK, GCLocked, Locking, ListLocked, Acknowledged
  <2>2. RunningTokens'
    <3>1. whom \in Threads /\ AwaitedBy(t, whom)
      BY <1>19 DEF Awake, GCLocked, AwaitedBy, TypeOK
    <3>2. \A u \in Threads \ {t} : pc[u] # "sleep"
      BY <1>19, OneWaiter DEF Awake, Locking
    <3>3. notRunning[whom] = Posted
      BY <1>19, <3>1, TokenSteps DEF Awake, RunningTokens
    <3>4. \A s \in Threads \ {whom} : notRunning[s] = NoToken
      BY <3>2, <1>19 DEF RunningTokens, AwaitedBy, Awake
    <3>5. \A u, s \in Threads : ~AwaitedBy(u, s)'
      BY <1>19, <3>2 DEF Awake, Goto, AwaitedBy, TypeOK
    <3> QED
      BY <1>19, <3>1, <3>3, <3>4, <3>5, TokenSteps DEF Awake, RunningTokens, TypeOK
  <2>3. StoppedTokens'
    BY <1>19 DEF Awake, Goto, TypeOK, StoppedTokens
  <2> QED  BY <2>1, <2>2, <2>3
<1>20. ASSUME NEW t \in Threads, StartWorld(t) PROVE TokensRight'
  <2>1. GCLocked'
    BY <1>20 DEF StartWorld, SetState, Goto, TypeOK, GCLocked, Locking, ListLocked, Acknowledged
  <2>2. RunningTokens'
    <3>1. \A u \in Threads : pc[u] # "sleep" /\ pc'[u] # "sleep"
      BY <1>20, OneWaiter DEF StartWorld, Goto, Locking, TypeOK
    <3>2. notRunning' = notRunning
      BY <1>20 DEF StartWorld, SetState
    <3> QED
      BY <3>1, <3>2 DEF RunningTokens, AwaitedBy
  <2>3. StoppedTokens'
    <3>1. \A u \in Threads : pc'[u] = "asleep" <=> pc[u] = "asleep"
      BY <1>20 DEF StartWorld, Goto, TypeOK
    <3>2. CASE UNCHANGED <<state, notStopped>>
      BY <3>1, <3>2 DEF StoppedTokens
    <3>3. CASE \E s \in Threads : /\ state[s] = "STOPPED"
                                  /\ state' = [state EXCEPT ![s] = "RUNNING"]
                                  /\ notStopped' = [notStopped EXCEPT ![s] = Wake(notStopped[s])]
      BY <3>1, <3>3, TokenSteps DEF StoppedTokens, TypeOK
    <3> QED
      BY <1>20, <3>2, <3>3 DEF StartWorld, SetState, TypeOK
  <2> QED  BY <2>1, <2>2, <2>3
<1>21. CASE UNCHANGED vars
  <2>1. RunningTokens' /\ StoppedTokens'
    BY <1>21, TokensStay DEF vars
  <2> QED
    BY <1>21, <2>1 DEF vars, GCLocked
<1> QED
  BY <1>1, <1>2, <1>3, <1>4, <1>5, <1>6, <1>7, <1>8, <1>9, <1>10, <1>11, <1>12, <1>13, <1>14, <1>15, <1>16, <1>17, <1>18, <1>19, <1>20, <1>21 DEF Next, Step, Locked

\* A wakeup that someone waits for comes, and no token is left over from one
\* collection for the next.
THEOREM TokensAreRight == Spec => []TokensMatch
<1>1. Init => TokensRight
  BY DEF Init, TokensRight, GCLocked, Locking, RunningTokens, StoppedTokens, AwaitedBy, NoToken
<1>2. IInv /\ TokensRight => TokensMatch
  <2> SUFFICES ASSUME IInv, TokensRight, NEW t \in Threads
               PROVE  /\ pc[t] = "sleep" =>
                           notRunning[whom] = IF state[whom] = "RUNNING" THEN Counted ELSE Posted
                      /\ pc[t] = "asleep" =>
                           notStopped[t] = IF state[t] = "STOPPED" THEN Counted ELSE Posted
                      /\ gcLock = NoThread => notRunning[t] = NoToken
    BY DEF TokensMatch, NoToken, Counted, Posted
  <2>1. pc[t] = "sleep" => whom \in Threads /\ AwaitedBy(t, whom)
    BY DEF IInv, TypeOK, TokensRight, GCLocked, AwaitedBy
  <2>2. gcLock = NoThread => \A u \in Threads : ~AwaitedBy(u, t)
    BY StopTheWorldAssumption DEF TokensRight, GCLocked, AwaitedBy, Locking
  <2> QED
    BY <2>1, <2>2 DEF TokensRight, RunningTokens, StoppedTokens
<1> QED
  BY <1>1, <1>2, Invariant, TokensNext, PTL DEF Spec

------------------------------------------------------------------------------
(* The refinement.                                                             *)

Mutators   == {t \in Threads : Mutating(t)}
Collecting == IF \E t \in Threads : pc[t] = "collect"
              THEN CHOOSE t \in Threads : pc[t] = "collect" ELSE NoThread

\* The thread that has all_threads_lock is the only one that can collect.
LEMMA OneCollector ==
  ASSUME IInv, NEW t \in Threads, pc[t] = "collect"
  PROVE  /\ Collecting = t
         /\ \A s \in Threads : pc[s] = "collect" => s = t
<1>1. \A s \in Threads : pc[s] = "collect" => s = t
  BY DEF IInv, ListLocked, Locking
<1>2. (CHOOSE s \in Threads : pc[s] = "collect") \in Threads
      /\ pc[CHOOSE s \in Threads : pc[s] = "collect"] = "collect"
  OBVIOUS
<1> QED  BY <1>1, <1>2 DEF Collecting

\* Without a thread at the collection the mapping has no collector.
LEMMA NoCollector ==
  ASSUME \A t \in Threads : pc[t] # "collect"
  PROVE  Collecting = NoThread
  BY DEF Collecting

CollectingRight ==
  /\ \A t \in Threads : pc[t] = "collect" => Collecting = t
  /\ (\A t \in Threads : pc[t] # "collect") => Collecting = NoThread

\* What the mapping has for the collector.
LEMMA CollectorIs == IInv => CollectingRight
  BY OneCollector, NoCollector DEF CollectingRight

\* The same after the step.
LEMMA CollectorIsNext == IInv' => CollectingRight'
  BY CollectorIs, PTL

\* A step in which nobody begins or ends a collection keeps the collector.
LEMMA CollectorStays ==
  ASSUME IInv, IInv', \A t \in Threads : pc'[t] = "collect" <=> pc[t] = "collect"
  PROVE  Collecting' = Collecting
  BY CollectorIs, CollectorIsNext DEF CollectingRight

\* While a thread touches the heap another one does not collect.
LEMMA NobodyCollects ==
  ASSUME IInv, NEW t \in Threads,
         pc[t] # "collect", t \in linked, state[t] = "RUNNING"
  PROVE  Collecting = NoThread
<1>1. \A s \in Threads : pc[s] # "collect"
  BY DEF IInv, Acknowledged
<1> QED  BY <1>1, NoCollector

\* In the beginning only Main touches the heap.
LEMMA InitRefines == Init => World!Init
<1> SUFFICES ASSUME Init PROVE World!Init
  OBVIOUS
<1>1. \A t \in Threads : Mutating(t) <=> t = Main
  BY StopTheWorldAssumption DEF Init, Mutating, Inhibited, Collector
<1>2. \A t \in Threads : pc[t] # "collect"
  BY DEF Init
<1>3. Collecting = NoThread
  BY <1>2, NoCollector
<1> QED  BY <1>1, <1>3, StopTheWorldAssumption DEF World!Init, Collecting

\* Every step is a step of AbstractWorld or changes nothing that it sees.
LEMMA StepRefines == IInv /\ IInv' /\ [Next]_vars => [World!Next]_World!vars
<1> SUFFICES ASSUME IInv, IInv', [Next]_vars
             PROVE  \/ UNCHANGED <<Mutators, Collecting>>
                    \/ \E t \in Threads :
                         \/ /\ Collecting = NoThread /\ t \notin Mutators
                            /\ Mutators' = Mutators \cup {t} /\ Collecting' = Collecting
                         \/ /\ t \in Mutators \ {Collecting}
                            /\ Mutators' = Mutators \ {t} /\ Collecting' = Collecting
                         \/ /\ Collecting = NoThread /\ Mutators = {t}
                            /\ Collecting' = t /\ Mutators' = Mutators
                         \/ /\ Collecting = t
                            /\ Collecting' = NoThread /\ Mutators' = Mutators
  BY DEF World!Next, World!Start, World!Stop, World!Collect, World!Finish, World!vars,
         Mutators, Collecting
<1> USE DEF IInv
<1>a. pc \in [Threads -> Places]
  BY DEF TypeOK
<1>1. CASE UNCHANGED vars
  <2>1. pc' = pc
    BY <1>1 DEF vars
  <2> QED  BY <2>1, CollectorStays DEF Mutators, Mutating
<1>2. ASSUME NEW t \in Threads,
             \/ Begin(t) \/ Exit(t) \/ Inhibit(t) \/ StopNow(t) \/ WakeStopped(t)
             \/ Unlink(t) \/ Detach(t) \/ TryLock(t) \/ Signal(t) \/ Awake(t)
             \/ ReleaseGCLock(t) \/ LockList(t) \/ StartWorld(t)
      PROVE  UNCHANGED <<Mutators, Collecting>>
  <2>1. \A u \in Threads : pc'[u] = pc[u] \/ {pc[u], pc'[u]} \subseteq {"lisp", "exit"} \cup (Inhibited \ {"collect"})
                            \/ {pc[u], pc'[u]} \cap ({"lisp", "leave", "exit"} \cup Inhibited) = {}
    BY <1>2, <1>a DEF Begin, Exit, Inhibit, StopNow, WakeStopped, Unlink, Detach, TryLock,
       Signal, Awake, ReleaseGCLock, LockList, StartWorld, Goto, Inhibited, Collector,
       NeverLoses
  <2>2. \A u \in Threads : Mutating(u)' <=> Mutating(u)
    BY <2>1 DEF Mutating
  <2>3. \A u \in Threads : pc'[u] = "collect" <=> pc[u] = "collect"
    BY <2>1 DEF Inhibited, Collector
  <2> QED  BY <2>2, <2>3, CollectorStays DEF Mutators
\* Threads that begin, or go on after a stop.
<1>3. ASSUME NEW t \in Threads, Enter(t) \/ LookStopped(t)
      PROVE  \/ UNCHANGED <<Mutators, Collecting>>
             \/ /\ Collecting = NoThread /\ t \notin Mutators
                /\ Mutators' = Mutators \cup {t} /\ Collecting' = Collecting
  <2>1. \A u \in Threads : pc'[u] = "collect" <=> pc[u] = "collect"
    BY <1>3, <1>a DEF Enter, LookStopped, Goto
  <2>2. Collecting' = Collecting
    BY <2>1, CollectorStays
  <2>3. pc[t] \notin {"lisp", "leave", "exit"} \cup Inhibited
    BY <1>3 DEF Enter, LookStopped, Inhibited, Collector
  <2>4. CASE pc' = [pc EXCEPT ![t] = "lisp"]
    <3>1. \A u \in Threads : pc[u] # "collect"
      BY <1>3, <2>4, <1>a, StopTheWorldAssumption
      DEF Enter, LookStopped, Goto, ListLocked, Locking, LinkedRight, Unlinked, Acknowledged
    <3>2. Mutators' = Mutators \cup {t}
      BY <2>4, <1>a DEF Mutators, Mutating
    <3> QED  BY <3>1, <3>2, <2>2, <2>3, NoCollector DEF Mutators, Mutating
  <2>5. CASE pc' = [pc EXCEPT ![t] = "asleep"]
    <3>1. Mutators' = Mutators
      BY <2>3, <2>5, <1>a DEF Mutators, Mutating, Inhibited, Collector
    <3> QED  BY <3>1, <2>2
  <2> QED  BY <1>3, <2>4, <2>5 DEF Enter, LookStopped, Goto, NeverLoses, TypeOK
\* Threads that end or stop.
<1>4. ASSUME NEW t \in Threads, Die(t) \/ Deliver(t) \/ Leave(t)
      PROVE  \/ UNCHANGED <<Mutators, Collecting>>
             \/ /\ t \in Mutators \ {Collecting}
                /\ Mutators' = Mutators \ {t} /\ Collecting' = Collecting
  <2>1. \A u \in Threads : pc'[u] = "collect" <=> pc[u] = "collect"
    BY <1>4, <1>a DEF Die, Deliver, Leave, Goto, Outside
  <2>2. Collecting' = Collecting
    BY <2>1, CollectorStays
  <2>3. CASE \A u \in Threads : Mutating(u)' <=> Mutating(u)
    BY <2>2, <2>3 DEF Mutators
  <2>4. CASE \E place \in {"stopping", "dead", "lost"} : pc' = [pc EXCEPT ![t] = place]
    <3>1. CASE Mutating(t)
      <4>1. t # Collecting
        <5>1. t \in linked /\ state[t] = "RUNNING" /\ pc[t] # "collect"
          BY <1>4, <2>1, <2>4, <3>1, <1>a
          DEF Mutating, LinkedRight, Unlinked, StateRight, Inhibited, Collector
        <5> QED  BY <5>1, NobodyCollects, StopTheWorldAssumption
      <4>2. Mutators' = Mutators \ {t}
        BY <2>4, <1>a DEF Mutators, Mutating, Inhibited, Collector
      <4> QED  BY <4>1, <4>2, <2>2, <3>1 DEF Mutators
    <3>2. CASE ~Mutating(t)
      <4>1. Mutators' = Mutators
        BY <2>4, <3>2, <1>a DEF Mutators, Mutating, Inhibited, Collector
      <4> QED  BY <4>1, <2>2
    <3> QED  BY <3>1, <3>2
  <2>5. CASE pc' = pc
    BY <2>2, <2>5 DEF Mutators, Mutating
  <2>6. CASE Leave(t) /\ \E place \in {"leave", "lisp"} : pc' = [pc EXCEPT ![t] = place]
    <3>1. \A u \in Threads : Mutating(u)' <=> Mutating(u)
      BY <2>6, <1>a DEF Leave, Mutating, Inhibited
    <3> QED  BY <3>1, <2>3
  <2> QED  BY <1>4, <2>4, <2>5, <2>6 DEF Die, Deliver, Leave, Goto
\* The collection.
<1>5. ASSUME NEW t \in Threads, Await(t)
      PROVE  \/ UNCHANGED <<Mutators, Collecting>>
             \/ /\ Collecting = NoThread /\ Mutators = {t}
                /\ Collecting' = t /\ Mutators' = Mutators
  <2>1. \A u \in Threads : Mutating(u)' <=> Mutating(u)
    BY <1>5, <1>a DEF Await, Goto, Mutating, Inhibited, Collector
  <2>2. Mutators' = Mutators
    BY <2>1 DEF Mutators
  <2>3. CASE pc'[t] # "collect"
    <3>1. \A u \in Threads : pc'[u] = "collect" <=> pc[u] = "collect"
      BY <1>5, <2>3, <1>a DEF Await, Goto
    <3> QED  BY <3>1, <2>2, CollectorStays
  <2>4. CASE pc'[t] = "collect"
    <3>1. \A u \in Threads : pc[u] # "collect"
      BY <1>5 DEF Await, ListLocked, Locking
    <3>2. Collecting' = t
      <4>1. CollectingRight'
        BY CollectorIsNext
      <4> QED  BY <4>1, <2>4 DEF CollectingRight
    <3>3. \A u \in Threads \ {t} : ~Mutating(u)
      <4>1. \A u \in linked \ {t} : state[u] # "RUNNING"
        BY <1>5, <2>4, <1>a DEF Await, Goto, Acknowledged, TypeOK
      <4> QED  BY <4>1 DEF Mutating, LinkedRight, Unlinked, StateRight, Inhibited, Collector
    <3>4. Mutating(t)
      BY <1>5 DEF Await, Mutating, Inhibited, Collector
    <3> QED  BY <3>1, <3>2, <3>3, <3>4, <2>2, NoCollector DEF Mutators
  <2> QED  BY <2>3, <2>4
<1>6. ASSUME NEW t \in Threads, Collect(t)
      PROVE  /\ Collecting = t
             /\ Collecting' = NoThread /\ Mutators' = Mutators
  <2>1. \A u \in Threads : Mutating(u)' <=> Mutating(u)
    BY <1>6, <1>a DEF Collect, Goto, Mutating, Inhibited, Collector
  <2>2. Collecting = t
    BY <1>6, OneCollector DEF Collect
  <2>3. \A u \in Threads : pc'[u] # "collect"
    BY <1>6, <1>a DEF Collect, Goto, ListLocked, Locking
  <2>4. Collecting' = NoThread
    <3>1. CollectingRight'
      BY CollectorIsNext
    <3> QED  BY <3>1, <2>3 DEF CollectingRight
  <2> QED  BY <2>1, <2>2, <2>4 DEF Mutators
<1> QED
  BY <1>1, <1>2, <1>3, <1>4, <1>5, <1>6 DEF Next, Step, Locked

\* Stopping the world, with threads that come, go and defer the signal, keeps to
\* AbstractWorld: threads touch the heap together, a collector alone.
THEOREM RefinesAbstractWorld == Spec => ImplementsWorld
  BY Invariant, InitRefines, StepRefines, PTL DEF Spec, ImplementsWorld, World!Spec
==============================================================================
