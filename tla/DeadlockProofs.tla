---------------------------- MODULE DeadlockProofs ----------------------------
(* Proofs about Deadlock, for any number of threads and mutexes, any limit    *)
(* and any number of acquisitions and interrupts.                             *)
EXTENDS Deadlock, FiniteSetTheorems, TLAPS

------------------------------------------------------------------------------
(* The inductive invariant.                                                   *)

\* Whoever is past the base of a chain has **DEADLOCK-LOCK**.
Critical == {"reowner", "remark", "condemned", "disclaimed", "endcheck"}

\* Where a thread is marked, unless a handler hides the mark.
Waiting == (Checking \ {"disclaimed"}) \cup {"acquire"}

WantRight == \A t \in Threads : pc[t] # "run" => want[t] \in Mutexes

\* Nobody acquires what it owns.
NotMine == \A t \in Threads :
  pc[t] \in Checking \cup {"tried", "acquire", "won", "reporting"} =>
    owner[want[t]] # t

\* The owner has the word; who has the word only is about to own or to give it back.
WordsRight == \A m \in Mutexes :
  /\ owner[m] # NoThread => holder[m] = owner[m]
  /\ \A t \in Threads :
       holder[m] = t /\ owner[m] # t => pc[t] \in {"won", "rel"} /\ want[t] = m

HeldRight == \A t \in Threads :
  /\ pc[t] \in {"won", "rel"} => holder[want[t]] = t /\ owner[want[t]] = NoThread
  /\ pc[t] = "unmark" => owner[want[t]] = t

\* A mark is about the acquisition under way; only an interrupt hides it.
MarksRight == \A t \in Threads :
  /\ waitingFor[t] # NoMark =>
       /\ waitingFor[t] = Mark(want[t], timed[t])
       /\ pc[t] \in Waiting \cup {"won", "unmark"}
       /\ saved[t] = NoMark
  /\ saved[t] # NoMark =>
       /\ saved[t] = Mark(want[t], timed[t])
       /\ pc[t] \in Waiting
       /\ t \in interrupted
  /\ pc[t] \in Waiting /\ t \notin interrupted => waitingFor[t] # NoMark
  /\ pc[t] \in Checking => ~timed[t]

LockRight == \A t \in Threads : pc[t] \in Critical => deadlockLock = t

Locks == /\ TypeOK /\ WantRight /\ NotMine /\ WordsRight /\ HeldRight
         /\ MarksRight /\ LockRight

\* Where a walk confirms, or has confirmed, the links of its chain.
Confirming == {"reowner", "remark", "condemned", "disclaimed"}

\* The frames of a walk, and where the walk is among them.
PathOK(t) ==
  /\ pc[t] \notin Checking \cup {"reporting"} => path[t] = <<>>
  /\ \A i \in 1..Len(path[t]) :
       /\ path[t][i].lock \in Mutexes \/ (pc[t] = "readmark" /\ i = Len(path[t]))
       /\ path[t][i].other # t
  /\ pc[t] = "readmark" => path[t] # <<>>
  /\ pc[t] \in Critical \cup {"base"} =>
       path[t] # <<>> /\ owner[path[t][Len(path[t])].lock] = t
  /\ pc[t] \in {"reowner", "remark"} => depth[t] \in 1..Len(path[t])
  /\ pc[t] \in {"condemned", "disclaimed"} => depth[t] = 0

\* t is inside an untimed acquisition of m, or was interrupted.
WaitsFor(t, m) ==
  t \in interrupted \/ (pc[t] \in Waiting /\ ~timed[t] /\ want[t] = m)

\* Once its frame is confirmed, the last thread of a chain waits for the walker.
LastWaits(t) ==
  pc[t] \in {"reowner", "remark", "condemned"} /\ depth[t] < Len(path[t]) =>
    LET last == path[t][Len(path[t])] IN WaitsFor(last.other, last.lock)

\* Nobody in a confirmed frame handles a report.
NoneReports(t) ==
  pc[t] \in Confirming =>
    \A i \in 1..Len(path[t]) : depth[t] < i => pc[path[t][i].other] # "reporting"

Walks == \A t \in Threads : PathOK(t) /\ LastWaits(t) /\ NoneReports(t)

IInv == Locks /\ Walks

------------------------------------------------------------------------------
(* Facts about marks and about steps.                                          *)

\* A mark is a mutex, with or without a timeout, and tells them apart.
LEMMA MarkFacts ==
  /\ NoMark \in Marks
  /\ ~MutexP(NoMark)
  /\ \A m \in Mutexes, b \in BOOLEAN :
       /\ Mark(m, b) \in Marks /\ Mark(m, b) # NoMark
       /\ MutexP(Mark(m, b)) <=> ~b
       /\ Mark(m, b).lock = m
       /\ \A n \in Mutexes, c \in BOOLEAN : Mark(m, b) = Mark(n, c) => m = n /\ b = c
  /\ \A k \in Marks : MutexP(k) => k.lock \in Mutexes /\ k = Mark(k.lock, FALSE)
<1>1. NoMark \in Marks /\ ~MutexP(NoMark)
  BY DEF Marks, NoMark, MutexP
<1>2. ASSUME NEW m \in Mutexes, NEW b \in BOOLEAN
      PROVE  /\ Mark(m, b) \in Marks /\ Mark(m, b) # NoMark
             /\ MutexP(Mark(m, b)) <=> ~b
             /\ Mark(m, b).lock = m
             /\ \A n \in Mutexes, c \in BOOLEAN : Mark(m, b) = Mark(n, c) => m = n /\ b = c
  <2>1. Mark(m, b).lock = m /\ Mark(m, b).timeout = b
    BY DEF Mark
  <2>2. Mark(m, b) # NoMark
    BY <2>1, DeadlockAssumption DEF NoMark
  <2>3. Mark(m, b) \in Marks
    BY DEF Mark, Marks
  <2>4. MutexP(Mark(m, b)) <=> ~b
    BY <2>1, <2>2 DEF MutexP
  <2>5. \A n \in Mutexes, c \in BOOLEAN : Mark(m, b) = Mark(n, c) => m = n /\ b = c
    BY <2>1 DEF Mark
  <2> QED  BY <2>1, <2>2, <2>3, <2>4, <2>5
<1>3. ASSUME NEW k \in Marks, MutexP(k) PROVE k.lock \in Mutexes /\ k = Mark(k.lock, FALSE)
  BY <1>3 DEF Marks, Mark, MutexP
<1> QED  BY <1>1, <1>2, <1>3

\* An operation that returns changes nobody else's locals.
LEMMA ReturnFacts ==
  ASSUME TypeOK, NEW t \in Threads, Return(t)
  PROVE  /\ pc'[t] = "run" /\ path'[t] = <<>>
         /\ \A u \in Threads \ {t} : /\ pc'[u] = pc[u] /\ want'[u] = want[u]
                                    /\ timed'[u] = timed[u] /\ path'[u] = path[u]
                                    /\ depth'[u] = depth[u]
BY DEF Return, Goto, TypeOK

\* An operation that returns leaves its locals well typed,
LEMMA ReturnTypes ==
  ASSUME TypeOK, NEW t \in Threads, Return(t)
  PROVE  /\ pc' \in [Threads -> Places]
         /\ want' \in [Threads -> Mutexes \cup {NoMutex}]
         /\ timed' \in [Threads -> BOOLEAN]
         /\ path' \in [Threads -> Seq(Frames)]
         /\ \A u \in Threads : Len(path'[u]) <= Limit
         /\ depth' \in [Threads -> 0..Limit]
<1>1. <<>> \in Seq(Frames) /\ Len(<<>>) = 0 /\ 0 \in 0..Limit
  BY DeadlockAssumption
<1>2. \A u \in Threads : path'[u] = IF u = t THEN <<>> ELSE path[u]
  BY DEF Return, TypeOK
<1>3. "run" \in Places
  BY DEF Places
<1> QED
  BY <1>1, <1>2, <1>3, DeadlockAssumption DEF Return, Goto, TypeOK

\* and so does one that finds no chain.
LEMMA NoChainTypes ==
  ASSUME TypeOK, NEW t \in Threads, NoChain(t)
  PROVE  /\ pc' \in [Threads -> Places]
         /\ path' \in [Threads -> Seq(Frames)]
         /\ \A u \in Threads : Len(path'[u]) <= Limit
         /\ depth' \in [Threads -> 0..Limit]
<1>1. <<>> \in Seq(Frames) /\ Len(<<>>) = 0 /\ 0 \in 0..Limit
  BY DeadlockAssumption
<1>2. \A u \in Threads : path'[u] = IF u = t THEN <<>> ELSE path[u]
  BY DEF NoChain, TypeOK
<1>3. "acquire" \in Places
  BY DEF Places
<1> QED
  BY <1>1, <1>2, <1>3, DeadlockAssumption DEF NoChain, Goto, TypeOK

\* A step of a walk touches neither the words nor the marks.
LEMMA WalkStep ==
  ASSUME Locks, NEW t \in Threads, pc[t] \in Checking, NEW p \in Waiting,
         pc[t] # "disclaimed", pc' = [pc EXCEPT ![t] = p],
         UNCHANGED <<holder, owner, waitingFor, want, timed, saved, interrupted>>
  PROVE  WantRight' /\ NotMine' /\ WordsRight' /\ HeldRight' /\ MarksRight'
<1> USE DEF Locks
<1>1. WantRight'
  BY DEF WantRight, TypeOK, Checking
<1>2. NotMine'
  BY DEF NotMine, TypeOK, Checking, Waiting
<1>3. WordsRight'
  BY DEF WordsRight, TypeOK, Checking, Waiting
<1>4. HeldRight'
  BY DEF HeldRight, TypeOK, Checking, Waiting
<1>5. MarksRight'
  BY DEF MarksRight, TypeOK, Checking, Waiting
<1> QED  BY <1>1, <1>2, <1>3, <1>4, <1>5

\* The lock that a walk has come to is a mutex.
LEMMA InnerLockType ==
  ASSUME TypeOK, WantRight, NEW t \in Threads, PathOK(t),
         pc[t] \in Checking, pc[t] # "readmark"
  PROVE  /\ InnerLock(t) \in Mutexes
         /\ \A i \in 1..(Len(path[t]) + 1) : LockAt(t, i) \in Mutexes
<1>1. Len(path[t]) \in Nat
  BY DEF TypeOK
<1>2. \A i \in 1..Len(path[t]) : path[t][i].lock \in Mutexes
  BY DEF PathOK
<1>3. want[t] \in Mutexes
  BY DEF WantRight, Checking
<1>4. \A i \in 1..(Len(path[t]) + 1) : LockAt(t, i) \in Mutexes
  BY <1>1, <1>2, <1>3 DEF LockAt
<1> QED
  BY <1>1, <1>4 DEF InnerLock

\* The threads on a walk's path.
LEMMA OthersOnPath ==
  ASSUME TypeOK, NEW t \in Threads, PathOK(t)
  PROVE  \A i \in 1..Len(path[t]) : path[t][i] \in Frames /\ path[t][i].other \in Threads \ {t}
<1>1. \A i \in 1..Len(path[t]) : path[t][i] \in Frames
  <2>1. path[t] \in Seq(Frames)
    BY DEF TypeOK
  <2> QED  BY <2>1
<1>2. \A i \in 1..Len(path[t]) : path[t][i].other # t
  BY DEF PathOK
<1> QED  BY <1>1, <1>2 DEF Frames

\* Each step keeps the words, the marks and the lock right.
LEMMA LocksNext == IInv /\ [Next]_vars => Locks'
<1> SUFFICES ASSUME IInv, [Next]_vars PROVE Locks'
  OBVIOUS
<1> USE DeadlockAssumption DEF IInv, Locks
<1>1. ASSUME NEW t \in Threads, NEW m \in Mutexes, TryMutex(t, m) PROVE Locks'
  <2>1. TypeOK'
    <3>1. PICK p \in Places : pc' = [pc EXCEPT ![t] = p]
      BY <1>1 DEF TryMutex, Goto, Places
    <3>2. attempts' \in 0..MaxAttempts
      BY <1>1, DeadlockAssumption DEF TryMutex, TypeOK
    <3>3. holder' \in [Mutexes -> Threads \cup {NoThread}]
      BY <1>1 DEF TryMutex, TypeOK
    <3> QED
      BY <1>1, <3>1, <3>2, <3>3 DEF TryMutex, marks, walks, TypeOK
  <2>2. WantRight'
    BY <1>1 DEF TryMutex, At, Running, Goto, words, marks, walks, bounds, WantRight, TypeOK
  <2>3. NotMine'
    BY <1>1 DEF TryMutex, At, Running, Goto, words, marks, walks, bounds, NotMine, TypeOK, Checking, WantRight, HeldRight
  <2>4. WordsRight'
    BY <1>1 DEF TryMutex, At, Running, Goto, words, marks, walks, bounds, WordsRight, TypeOK, WantRight, HeldRight
  <2>5. HeldRight'
    BY <1>1 DEF TryMutex, At, Running, Goto, words, marks, walks, bounds, HeldRight, TypeOK, WantRight, WordsRight, NotMine
  <2>6. MarksRight'
    BY <1>1 DEF TryMutex, At, Running, Goto, words, marks, walks, bounds, MarksRight, TypeOK, Checking, Waiting, WantRight
  <2>7. LockRight'
    BY <1>1 DEF TryMutex, At, Running, Goto, words, marks, walks, bounds, LockRight, TypeOK, Critical
  <2> QED  BY <2>1, <2>2, <2>3, <2>4, <2>5, <2>6, <2>7
<1>2. ASSUME NEW t \in Threads, SetWaitingFor(t) PROVE Locks'
  <2>1. TypeOK'
    <3>1. PICK b \in BOOLEAN :
            /\ timed' = [timed EXCEPT ![t] = b]
            /\ waitingFor' = [waitingFor EXCEPT ![t] = Mark(want[t], b)]
            /\ pc' = [pc EXCEPT ![t] = IF b THEN "acquire" ELSE "readowner"]
      BY <1>2 DEF SetWaitingFor, SetMark, Goto
    <3>2. Mark(want[t], b) \in Marks
      BY <1>2, MarkFacts DEF SetWaitingFor, At, WantRight
    <3> QED
      BY <1>2, <3>1, <3>2 DEF SetWaitingFor, words, walks, bounds, TypeOK, Places, Checking
  <2>2. WantRight'
    BY <1>2 DEF SetWaitingFor, At, Running, Goto, words, marks, walks, bounds, SetMark, WantRight, TypeOK
  <2>3. NotMine'
    BY <1>2 DEF SetWaitingFor, At, Running, Goto, words, marks, walks, bounds, SetMark, NotMine, TypeOK, Checking, WantRight, HeldRight
  <2>4. WordsRight'
    BY <1>2 DEF SetWaitingFor, At, Running, Goto, words, marks, walks, bounds, SetMark, WordsRight, TypeOK, WantRight, HeldRight
  <2>5. HeldRight'
    BY <1>2 DEF SetWaitingFor, At, Running, Goto, words, marks, walks, bounds, SetMark, HeldRight, TypeOK, WantRight, WordsRight, NotMine
  <2>6. MarksRight'
    <3>1. PICK b \in BOOLEAN :
            /\ timed' = [timed EXCEPT ![t] = b]
            /\ waitingFor' = [waitingFor EXCEPT ![t] = Mark(want[t], b)]
            /\ pc' = [pc EXCEPT ![t] = IF b THEN "acquire" ELSE "readowner"]
      BY <1>2 DEF SetWaitingFor, SetMark, Goto
    <3>2. Mark(want[t], b) # NoMark
      BY <1>2, MarkFacts DEF SetWaitingFor, At, WantRight
    <3> QED
      BY <1>2, <3>1, <3>2 DEF SetWaitingFor, At, Running, bounds, TypeOK, MarksRight, Checking, Waiting
  <2>7. LockRight'
    BY <1>2 DEF SetWaitingFor, At, Running, Goto, words, marks, walks, bounds, SetMark, LockRight, TypeOK, Critical
  <2> QED  BY <2>1, <2>2, <2>3, <2>4, <2>5, <2>6, <2>7
<1>3. ASSUME NEW t \in Threads, Acquire(t) PROVE Locks'
  <2>1. TypeOK'
    BY <1>3 DEF Acquire, At, Running, Goto, words, marks, walks, bounds, TypeOK, Places, Checking, Interruptible
  <2>2. WantRight'
    BY <1>3 DEF Acquire, At, Running, Goto, words, marks, walks, bounds, WantRight, TypeOK
  <2>3. NotMine'
    BY <1>3 DEF Acquire, At, Running, Goto, words, marks, walks, bounds, NotMine, TypeOK, Checking, WantRight, HeldRight
  <2>4. WordsRight'
    BY <1>3 DEF Acquire, At, Running, Goto, words, marks, walks, bounds, WordsRight, TypeOK, WantRight, HeldRight
  <2>5. HeldRight'
    BY <1>3 DEF Acquire, At, Running, Goto, words, marks, walks, bounds, HeldRight, TypeOK, WantRight, WordsRight, NotMine
  <2>6. MarksRight'
    BY <1>3 DEF Acquire, At, Running, Goto, words, marks, walks, bounds, MarksRight, TypeOK, Checking, Waiting, WantRight
  <2>7. LockRight'
    BY <1>3 DEF Acquire, At, Running, Goto, words, marks, walks, bounds, LockRight, TypeOK, Critical
  <2> QED  BY <2>1, <2>2, <2>3, <2>4, <2>5, <2>6, <2>7
<1>4. ASSUME NEW t \in Threads, SetOwner(t) PROVE Locks'
  <2>1. TypeOK'
    <3>1. CASE Return(t)
      BY <1>4, <3>1, ReturnTypes DEF SetOwner, words, marks, bounds, TypeOK
    <3>2. CASE ~Return(t)
      BY <1>4, <3>2 DEF SetOwner, Goto, words, marks, walks, bounds, TypeOK, Places
    <3> QED  BY <3>1, <3>2
  <2>2. WantRight'
    BY <1>4 DEF SetOwner, At, Running, Goto, words, marks, walks, bounds, Return, WantRight, TypeOK
  <2>3. NotMine'
    <3>1. \A u \in Threads \ {t} : pc'[u] = pc[u] /\ want'[u] = want[u]
      BY <1>4 DEF SetOwner, Goto, Return, TypeOK
    <3>2. pc'[t] \in {"run", "unmark"}
      BY <1>4 DEF SetOwner, Goto, Return, TypeOK
    <3>3. \A k \in Mutexes : owner'[k] \in {owner[k], t}
      BY <1>4 DEF SetOwner, TypeOK
    <3> QED
      BY <3>1, <3>2, <3>3 DEF NotMine, Checking, WantRight
  <2>4. WordsRight'
    BY <1>4 DEF SetOwner, At, Running, Goto, words, marks, walks, bounds, Return, WordsRight, TypeOK, WantRight, HeldRight
  <2>5. HeldRight'
    <3>1. \A u \in Threads \ {t} : pc'[u] = pc[u] /\ want'[u] = want[u]
      BY <1>4 DEF SetOwner, Goto, Return, TypeOK
    <3>2. pc'[t] = "run" \/ (pc'[t] = "unmark" /\ want'[t] = want[t])
      BY <1>4 DEF SetOwner, Goto, Return, TypeOK
    <3>3. /\ want[t] \in Mutexes /\ owner'[want[t]] = t /\ holder' = holder
          /\ holder[want[t]] = t /\ owner[want[t]] = NoThread
          /\ \A k \in Mutexes \ {want[t]} : owner'[k] = owner[k]
      BY <1>4 DEF SetOwner, At, words, TypeOK, WantRight, HeldRight
    <3> QED
      BY <3>1, <3>2, <3>3 DEF HeldRight, WantRight
  <2>6. MarksRight'
    <3>1. \A u \in Threads \ {t} : /\ pc'[u] = pc[u] /\ want'[u] = want[u]
                                   /\ timed'[u] = timed[u]
      BY <1>4, ReturnFacts DEF SetOwner, Goto, TypeOK
    <3>2. /\ waitingFor' = waitingFor /\ saved' = saved /\ interrupted' = interrupted
          /\ saved[t] = NoMark
      BY <1>4 DEF SetOwner, At, Running, marks, bounds
    <3>3. \/ waitingFor[t] = NoMark /\ pc'[t] = "run"
          \/ /\ waitingFor[t] # NoMark /\ pc'[t] = "unmark"
             /\ want'[t] = want[t] /\ timed'[t] = timed[t]
      BY <1>4, ReturnFacts DEF SetOwner, Goto, TypeOK
    <3> QED
      BY <3>1, <3>2, <3>3 DEF MarksRight, Checking, Waiting
  <2>7. LockRight'
    BY <1>4 DEF SetOwner, At, Running, Goto, words, marks, walks, bounds, Return, LockRight, TypeOK, Critical
  <2> QED  BY <2>1, <2>2, <2>3, <2>4, <2>5, <2>6, <2>7
<1>5. ASSUME NEW t \in Threads, ClearWaitingFor(t) PROVE Locks'
  <2>1. TypeOK'
    BY <1>5, ReturnTypes, MarkFacts DEF ClearWaitingFor, At, Running, Goto, words, marks, walks, bounds, SetMark, TypeOK
  <2>2. WantRight'
    BY <1>5 DEF ClearWaitingFor, At, Running, Goto, words, marks, walks, bounds, Return, SetMark, WantRight, TypeOK
  <2>3. NotMine'
    BY <1>5 DEF ClearWaitingFor, At, Running, Goto, words, marks, walks, bounds, Return, SetMark, NotMine, TypeOK, Checking, WantRight, HeldRight
  <2>4. WordsRight'
    BY <1>5 DEF ClearWaitingFor, At, Running, Goto, words, marks, walks, bounds, Return, SetMark, WordsRight, TypeOK, WantRight, HeldRight
  <2>5. HeldRight'
    BY <1>5 DEF ClearWaitingFor, At, Running, Goto, words, marks, walks, bounds, Return, SetMark, HeldRight, TypeOK, WantRight, WordsRight, NotMine
  <2>6. MarksRight'
    BY <1>5, MarkFacts, ReturnFacts DEF ClearWaitingFor, At, Running, Goto, words, marks, walks, bounds, SetMark, MarksRight, TypeOK, Checking, Waiting, WantRight
  <2>7. LockRight'
    BY <1>5 DEF ClearWaitingFor, At, Running, Goto, words, marks, walks, bounds, Return, SetMark, LockRight, TypeOK, Critical
  <2> QED  BY <2>1, <2>2, <2>3, <2>4, <2>5, <2>6, <2>7
<1>6. ASSUME NEW t \in Threads, TimeOut(t) PROVE Locks'
  <2>1. TypeOK'
    BY <1>6, ReturnTypes, MarkFacts DEF TimeOut, At, Running, Goto, words, marks, walks, bounds, SetMark, TypeOK
  <2>2. WantRight'
    BY <1>6 DEF TimeOut, At, Running, Goto, words, marks, walks, bounds, Return, SetMark, WantRight, TypeOK
  <2>3. NotMine'
    BY <1>6 DEF TimeOut, At, Running, Goto, words, marks, walks, bounds, Return, SetMark, NotMine, TypeOK, Checking, WantRight, HeldRight
  <2>4. WordsRight'
    BY <1>6 DEF TimeOut, At, Running, Goto, words, marks, walks, bounds, Return, SetMark, WordsRight, TypeOK, WantRight, HeldRight
  <2>5. HeldRight'
    BY <1>6 DEF TimeOut, At, Running, Goto, words, marks, walks, bounds, Return, SetMark, HeldRight, TypeOK, WantRight, WordsRight, NotMine
  <2>6. MarksRight'
    BY <1>6, MarkFacts, ReturnFacts DEF TimeOut, At, Running, Goto, words, marks, walks, bounds, SetMark, MarksRight, TypeOK, Checking, Waiting, WantRight
  <2>7. LockRight'
    BY <1>6 DEF TimeOut, At, Running, Goto, words, marks, walks, bounds, Return, SetMark, LockRight, TypeOK, Critical
  <2> QED  BY <2>1, <2>2, <2>3, <2>4, <2>5, <2>6, <2>7
<1>7. ASSUME NEW t \in Threads, NEW m \in Mutexes, ReleaseOwner(t, m) PROVE Locks'
  <2>1. TypeOK'
    BY <1>7 DEF ReleaseOwner, At, Running, Goto, words, marks, walks, bounds, TypeOK, Places, Checking, Interruptible
  <2>2. WantRight'
    BY <1>7 DEF ReleaseOwner, At, Running, Goto, words, marks, walks, bounds, WantRight, TypeOK
  <2>3. NotMine'
    BY <1>7 DEF ReleaseOwner, At, Running, Goto, words, marks, walks, bounds, NotMine, TypeOK, Checking, WantRight, HeldRight
  <2>4. WordsRight'
    BY <1>7 DEF ReleaseOwner, At, Running, Goto, words, marks, walks, bounds, WordsRight, TypeOK, WantRight, HeldRight
  <2>5. HeldRight'
    BY <1>7 DEF ReleaseOwner, At, Running, Goto, words, marks, walks, bounds, HeldRight, TypeOK, WantRight, WordsRight, NotMine
  <2>6. MarksRight'
    BY <1>7 DEF ReleaseOwner, At, Running, Goto, words, marks, walks, bounds, MarksRight, TypeOK, Checking, Waiting, WantRight
  <2>7. LockRight'
    BY <1>7 DEF ReleaseOwner, At, Running, Goto, words, marks, walks, bounds, LockRight, TypeOK, Critical
  <2> QED  BY <2>1, <2>2, <2>3, <2>4, <2>5, <2>6, <2>7
<1>8. ASSUME NEW t \in Threads, ReleaseWord(t) PROVE Locks'
  <2>1. TypeOK'
    BY <1>8, ReturnTypes, MarkFacts DEF ReleaseWord, At, Running, Goto, words, marks, walks, bounds, TypeOK
  <2>2. WantRight'
    BY <1>8 DEF ReleaseWord, At, Running, Goto, words, marks, walks, bounds, Return, WantRight, TypeOK
  <2>3. NotMine'
    BY <1>8 DEF ReleaseWord, At, Running, Goto, words, marks, walks, bounds, Return, NotMine, TypeOK, Checking, WantRight, HeldRight
  <2>4. WordsRight'
    BY <1>8 DEF ReleaseWord, At, Running, Goto, words, marks, walks, bounds, Return, WordsRight, TypeOK, WantRight, HeldRight
  <2>5. HeldRight'
    BY <1>8 DEF ReleaseWord, At, Running, Goto, words, marks, walks, bounds, Return, HeldRight, TypeOK, WantRight, WordsRight, NotMine
  <2>6. MarksRight'
    BY <1>8 DEF ReleaseWord, At, Running, Goto, words, marks, walks, bounds, Return, MarksRight, TypeOK, Checking, Waiting, WantRight
  <2>7. LockRight'
    BY <1>8 DEF ReleaseWord, At, Running, Goto, words, marks, walks, bounds, Return, LockRight, TypeOK, Critical
  <2> QED  BY <2>1, <2>2, <2>3, <2>4, <2>5, <2>6, <2>7
<1>9. ASSUME NEW t \in Threads, ReadOwner(t) PROVE Locks'
  <2>1. TypeOK'
    <3>1. CASE NoChain(t)
      BY <1>9, <3>1, NoChainTypes DEF ReadOwner, words, marks, bounds, TypeOK
    <3>2. CASE Goto(t, "base") /\ UNCHANGED walks
      BY <1>9, <3>2 DEF ReadOwner, Goto, words, marks, walks, bounds, TypeOK, Places, Checking
    <3>3. CASE ~NoChain(t) /\ ~(Goto(t, "base") /\ UNCHANGED walks)
      <4> DEFINE other == owner[InnerLock(t)]
                 new   == Append(path[t], [other |-> other, lock |-> NoMutex])
      <4>1. /\ Len(path[t]) # Limit /\ other # NoThread
            /\ path' = [path EXCEPT ![t] = new] /\ Goto(t, "readmark") /\ depth' = depth
        BY <1>9, <3>3 DEF ReadOwner
      <4>2. other \in Threads
        <5>1. InnerLock(t) \in Mutexes
          BY <1>9, InnerLockType DEF ReadOwner, At, Checking, Walks
        <5> QED  BY <4>1, <5>1 DEF TypeOK
      <4>3. new \in Seq(Frames) /\ Len(new) <= Limit
        <5>1. [other |-> other, lock |-> NoMutex] \in Frames
          BY <4>2 DEF Frames
        <5>2. path[t] \in Seq(Frames) /\ Len(path[t]) \in Nat /\ Len(path[t]) < Limit
          BY <4>1, DeadlockAssumption DEF TypeOK
        <5> QED  BY <5>1, <5>2, DeadlockAssumption
      <4> HIDE DEF new
      <4> QED
        BY <1>9, <4>1, <4>3 DEF ReadOwner, Goto, words, marks, bounds, TypeOK, Places, Checking
    <3> QED  BY <3>1, <3>2, <3>3
  <2>7. LockRight'
    BY <1>9 DEF ReadOwner, At, Running, Goto, words, marks, walks, bounds, NoChain, LockRight, TypeOK, Critical
  <2>8. PICK p \in Waiting : pc' = [pc EXCEPT ![t] = p]
    BY <1>9 DEF ReadOwner, Goto, NoChain, Waiting, Checking
  <2>9. WantRight' /\ NotMine' /\ WordsRight' /\ HeldRight' /\ MarksRight'
    BY <1>9, <2>8, WalkStep DEF ReadOwner, At, words, marks, bounds, Checking
  <2> QED  BY <2>1, <2>7, <2>9
<1>10. ASSUME NEW t \in Threads, ReadMark(t) PROVE Locks'
  <2>1. TypeOK'
    <3>1. CASE NoChain(t)
      BY <1>10, <3>1, NoChainTypes DEF ReadMark, words, marks, bounds, TypeOK
    <3>2. CASE ~NoChain(t)
      <4> DEFINE n    == Len(path[t])
                 mark == waitingFor[path[t][n].other]
                 new  == [path[t] EXCEPT ![n].lock = mark.lock]
      <4>1. /\ path' = [path EXCEPT ![t] = new] /\ Goto(t, "readowner") /\ depth' = depth
            /\ MutexP(mark)
        BY <1>10, <3>2 DEF ReadMark
      <4>2. n \in 1..Len(path[t]) /\ path[t][n] \in Frames
        BY <1>10 DEF ReadMark, At, TypeOK, Walks, PathOK
      <4>3. mark.lock \in Mutexes
        BY <4>1, <4>2, MarkFacts DEF TypeOK, Frames
      <4>4. new \in Seq(Frames) /\ Len(new) = n
        <5>1. new = [path[t] EXCEPT ![n] = [path[t][n] EXCEPT !.lock = mark.lock]]
          OBVIOUS
        <5>2. [path[t][n] EXCEPT !.lock = mark.lock] \in Frames
          BY <4>2, <4>3 DEF Frames
        <5>3. path[t] \in Seq(Frames)
          BY DEF TypeOK
        <5> QED  BY <4>2, <5>1, <5>2, <5>3
      <4> HIDE DEF new
      <4> QED
        BY <1>10, <4>1, <4>4 DEF ReadMark, Goto, words, marks, bounds, TypeOK, Places, Checking
    <3> QED  BY <3>1, <3>2
  <2>7. LockRight'
    BY <1>10 DEF ReadMark, At, Running, Goto, words, marks, walks, bounds, NoChain, LockRight, TypeOK, Critical
  <2>8. PICK p \in Waiting : pc' = [pc EXCEPT ![t] = p]
    BY <1>10 DEF ReadMark, Goto, NoChain, Waiting, Checking
  <2>9. WantRight' /\ NotMine' /\ WordsRight' /\ HeldRight' /\ MarksRight'
    BY <1>10, <2>8, WalkStep DEF ReadMark, At, words, marks, bounds, Checking
  <2> QED  BY <2>1, <2>7, <2>9
<1>11. ASSUME NEW t \in Threads, GrabDeadlockLock(t) PROVE Locks'
  <2>1. TypeOK'
    <3>1. Len(path[t]) \in 0..Limit
      BY DeadlockAssumption DEF TypeOK
    <3> QED
      BY <1>11, <3>1 DEF GrabDeadlockLock, Goto, words, marks, bounds, TypeOK, Places, Checking
  <2>7. LockRight'
    BY <1>11 DEF GrabDeadlockLock, At, Running, Goto, words, marks, walks, bounds, LockRight, TypeOK, Critical
  <2>8. PICK p \in Waiting : pc' = [pc EXCEPT ![t] = p]
    BY <1>11 DEF GrabDeadlockLock, Goto, Waiting, Checking
  <2>9. WantRight' /\ NotMine' /\ WordsRight' /\ HeldRight' /\ MarksRight'
    BY <1>11, <2>8, WalkStep DEF GrabDeadlockLock, At, words, marks, bounds, Checking
  <2> QED  BY <2>1, <2>7, <2>9
<1>12. ASSUME NEW t \in Threads, RecheckOwner(t) PROVE Locks'
  <2>1. TypeOK'
    BY <1>12 DEF RecheckOwner, At, Running, Goto, words, marks, walks, bounds, TypeOK, Places, Checking, Interruptible
  <2>7. LockRight'
    BY <1>12 DEF RecheckOwner, At, Running, Goto, words, marks, walks, bounds, LockRight, TypeOK, Critical
  <2>8. PICK p \in Waiting : pc' = [pc EXCEPT ![t] = p]
    BY <1>12 DEF RecheckOwner, Goto, Waiting, Checking
  <2>9. WantRight' /\ NotMine' /\ WordsRight' /\ HeldRight' /\ MarksRight'
    BY <1>12, <2>8, WalkStep DEF RecheckOwner, At, words, marks, bounds, Checking
  <2> QED  BY <2>1, <2>7, <2>9
<1>13. ASSUME NEW t \in Threads, RecheckMark(t) PROVE Locks'
  <2>1. TypeOK'
    <3>1. depth[t] \in 1..Limit
      BY <1>13, DeadlockAssumption DEF RecheckMark, At, TypeOK, Walks, PathOK
    <3>2. depth[t] - 1 \in 0..Limit
      BY <3>1, DeadlockAssumption
    <3>3. depth' = depth \/ depth' = [depth EXCEPT ![t] = depth[t] - 1]
      BY <1>13 DEF RecheckMark
    <3>4. PICK p \in Checking : pc' = [pc EXCEPT ![t] = p]
      BY <1>13 DEF RecheckMark, Goto, Checking
    <3> QED
      BY <1>13, <3>2, <3>3, <3>4 DEF RecheckMark, words, marks, bounds, TypeOK, Places
  <2>7. LockRight'
    BY <1>13 DEF RecheckMark, At, Running, Goto, words, marks, walks, bounds, LockRight, TypeOK, Critical
  <2>8. PICK p \in Waiting : pc' = [pc EXCEPT ![t] = p]
    BY <1>13 DEF RecheckMark, Goto, Waiting, Checking
  <2>9. WantRight' /\ NotMine' /\ WordsRight' /\ HeldRight' /\ MarksRight'
    BY <1>13, <2>8, WalkStep DEF RecheckMark, At, words, marks, bounds, Checking
  <2> QED  BY <2>1, <2>7, <2>9
<1>14. ASSUME NEW t \in Threads, Disclaim(t) PROVE Locks'
  <2>1. TypeOK'
    BY <1>14 DEF Disclaim, At, Running, Goto, words, marks, walks, bounds, SetMark, TypeOK, Places, Checking, Interruptible
  <2>2. WantRight'
    BY <1>14 DEF Disclaim, At, Running, Goto, words, marks, walks, bounds, SetMark, WantRight, TypeOK
  <2>3. NotMine'
    BY <1>14 DEF Disclaim, At, Running, Goto, words, marks, walks, bounds, SetMark, NotMine, TypeOK, Checking, WantRight, HeldRight
  <2>4. WordsRight'
    BY <1>14 DEF Disclaim, At, Running, Goto, words, marks, walks, bounds, SetMark, WordsRight, TypeOK, WantRight, HeldRight
  <2>5. HeldRight'
    BY <1>14 DEF Disclaim, At, Running, Goto, words, marks, walks, bounds, SetMark, HeldRight, TypeOK, WantRight, WordsRight, NotMine
  <2>6. MarksRight'
    BY <1>14, MarkFacts DEF Disclaim, At, Running, Goto, words, marks, walks, bounds, SetMark, MarksRight, TypeOK, Checking, Waiting, WantRight
  <2>7. LockRight'
    BY <1>14 DEF Disclaim, At, Running, Goto, words, marks, walks, bounds, SetMark, LockRight, TypeOK, Critical
  <2> QED  BY <2>1, <2>2, <2>3, <2>4, <2>5, <2>6, <2>7
<1>15. ASSUME NEW t \in Threads, SignalDeadlock(t) PROVE Locks'
  <2>1. TypeOK'
    BY <1>15 DEF SignalDeadlock, At, Running, Goto, words, marks, walks, bounds, TypeOK, Places, Checking, Interruptible
  <2>2. WantRight'
    BY <1>15 DEF SignalDeadlock, At, Running, Goto, words, marks, walks, bounds, WantRight, TypeOK
  <2>3. NotMine'
    BY <1>15 DEF SignalDeadlock, At, Running, Goto, words, marks, walks, bounds, NotMine, TypeOK, Checking, WantRight, HeldRight
  <2>4. WordsRight'
    BY <1>15 DEF SignalDeadlock, At, Running, Goto, words, marks, walks, bounds, WordsRight, TypeOK, WantRight, HeldRight
  <2>5. HeldRight'
    BY <1>15 DEF SignalDeadlock, At, Running, Goto, words, marks, walks, bounds, HeldRight, TypeOK, WantRight, WordsRight, NotMine
  <2>6. MarksRight'
    BY <1>15 DEF SignalDeadlock, At, Running, Goto, words, marks, walks, bounds, MarksRight, TypeOK, Checking, Waiting, WantRight
  <2>7. LockRight'
    BY <1>15 DEF SignalDeadlock, At, Running, Goto, words, marks, walks, bounds, LockRight, TypeOK, Critical
  <2> QED  BY <2>1, <2>2, <2>3, <2>4, <2>5, <2>6, <2>7
<1>16. ASSUME NEW t \in Threads, Handled(t) PROVE Locks'
  <2>1. TypeOK'
    BY <1>16, ReturnTypes, MarkFacts DEF Handled, At, Running, Goto, words, marks, walks, bounds, TypeOK
  <2>2. WantRight'
    BY <1>16 DEF Handled, At, Running, Goto, words, marks, walks, bounds, Return, WantRight, TypeOK
  <2>3. NotMine'
    BY <1>16 DEF Handled, At, Running, Goto, words, marks, walks, bounds, Return, NotMine, TypeOK, Checking, WantRight, HeldRight
  <2>4. WordsRight'
    BY <1>16 DEF Handled, At, Running, Goto, words, marks, walks, bounds, Return, WordsRight, TypeOK, WantRight, HeldRight
  <2>5. HeldRight'
    BY <1>16 DEF Handled, At, Running, Goto, words, marks, walks, bounds, Return, HeldRight, TypeOK, WantRight, WordsRight, NotMine
  <2>6. MarksRight'
    BY <1>16 DEF Handled, At, Running, Goto, words, marks, walks, bounds, Return, MarksRight, TypeOK, Checking, Waiting, WantRight
  <2>7. LockRight'
    BY <1>16 DEF Handled, At, Running, Goto, words, marks, walks, bounds, Return, LockRight, TypeOK, Critical
  <2> QED  BY <2>1, <2>2, <2>3, <2>4, <2>5, <2>6, <2>7
<1>17. ASSUME NEW t \in Threads, EndCheck(t) PROVE Locks'
  <2>1. TypeOK'
    BY <1>17, NoChainTypes DEF EndCheck, words, marks, bounds, TypeOK
  <2>7. LockRight'
    BY <1>17 DEF EndCheck, At, Running, Goto, words, marks, walks, bounds, NoChain, LockRight, TypeOK, Critical
  <2>8. PICK p \in Waiting : pc' = [pc EXCEPT ![t] = p]
    BY <1>17 DEF EndCheck, Goto, NoChain, Waiting, Checking
  <2>9. WantRight' /\ NotMine' /\ WordsRight' /\ HeldRight' /\ MarksRight'
    BY <1>17, <2>8, WalkStep DEF EndCheck, At, words, marks, bounds, Checking
  <2> QED  BY <2>1, <2>7, <2>9
<1>18. ASSUME NEW t \in Threads, EnterHandler(t) PROVE Locks'
  <2>1. TypeOK'
    BY <1>18 DEF EnterHandler, Running, Goto, words, marks, walks, bounds, Interruptible, SetMark, TypeOK, Places, Checking
  <2>2. WantRight'
    BY <1>18 DEF EnterHandler, Running, Goto, words, marks, walks, bounds, Interruptible, SetMark, WantRight, TypeOK
  <2>3. NotMine'
    BY <1>18 DEF EnterHandler, Running, Goto, words, marks, walks, bounds, Interruptible, SetMark, NotMine, TypeOK, Checking, WantRight, HeldRight
  <2>4. WordsRight'
    BY <1>18 DEF EnterHandler, Running, Goto, words, marks, walks, bounds, Interruptible, SetMark, WordsRight, TypeOK, WantRight, HeldRight
  <2>5. HeldRight'
    BY <1>18 DEF EnterHandler, Running, Goto, words, marks, walks, bounds, Interruptible, SetMark, HeldRight, TypeOK, WantRight, WordsRight, NotMine
  <2>6. MarksRight'
    BY <1>18, MarkFacts DEF EnterHandler, Running, Goto, words, marks, walks, bounds, Interruptible, SetMark, MarksRight, TypeOK, Checking, Waiting, WantRight
  <2>7. LockRight'
    BY <1>18 DEF EnterHandler, Running, Goto, words, marks, walks, bounds, Interruptible, SetMark, LockRight, TypeOK, Critical
  <2> QED  BY <2>1, <2>2, <2>3, <2>4, <2>5, <2>6, <2>7
<1>19. ASSUME NEW t \in Threads, LeaveHandler(t) PROVE Locks'
  <2>1. TypeOK'
    <3>1. NoMark \in Marks /\ saved[t] \in Marks
      BY MarkFacts DEF TypeOK
    <3>2. waitingFor' \in [Threads -> Marks]
      BY <1>19, <3>1 DEF LeaveHandler, SetMark, TypeOK
    <3>3. saved' \in [Threads -> Marks]
      BY <1>19, <3>1 DEF LeaveHandler, TypeOK
    <3> QED
      BY <1>19, <3>2, <3>3 DEF LeaveHandler, words, walks, bounds, TypeOK
  <2>2. WantRight'
    BY <1>19 DEF LeaveHandler, At, Running, Goto, words, marks, walks, bounds, SetMark, WantRight, TypeOK
  <2>3. NotMine'
    BY <1>19 DEF LeaveHandler, At, Running, Goto, words, marks, walks, bounds, SetMark, NotMine, TypeOK, Checking, WantRight, HeldRight
  <2>4. WordsRight'
    BY <1>19 DEF LeaveHandler, At, Running, Goto, words, marks, walks, bounds, SetMark, WordsRight, TypeOK, WantRight, HeldRight
  <2>5. HeldRight'
    BY <1>19 DEF LeaveHandler, At, Running, Goto, words, marks, walks, bounds, SetMark, HeldRight, TypeOK, WantRight, WordsRight, NotMine
  <2>6. MarksRight'
    BY <1>19, MarkFacts DEF LeaveHandler, At, Running, Goto, words, marks, walks, bounds, SetMark, MarksRight, TypeOK, Checking, Waiting, WantRight
  <2>7. LockRight'
    BY <1>19 DEF LeaveHandler, At, Running, Goto, words, marks, walks, bounds, SetMark, LockRight, TypeOK, Critical
  <2> QED  BY <2>1, <2>2, <2>3, <2>4, <2>5, <2>6, <2>7
<1>20. ASSUME NEW t \in Threads, Unwind(t) PROVE Locks'
  <2>1. TypeOK'
    BY <1>20, ReturnTypes, MarkFacts DEF Unwind, Running, Goto, words, marks, walks, bounds, Interruptible, SetMark, TypeOK
  <2>2. WantRight'
    BY <1>20 DEF Unwind, Running, Goto, words, marks, walks, bounds, Return, Interruptible, SetMark, WantRight, TypeOK
  <2>3. NotMine'
    BY <1>20 DEF Unwind, Running, Goto, words, marks, walks, bounds, Return, Interruptible, SetMark, NotMine, TypeOK, Checking, WantRight, HeldRight
  <2>4. WordsRight'
    <3>1. pc[t] \in Checking \cup {"acquire"} /\ holder' = holder /\ owner' = owner
      BY <1>20 DEF Unwind, Interruptible, words
    <3>2. \A u \in Threads \ {t} : pc'[u] = pc[u] /\ want'[u] = want[u]
      BY <1>20, ReturnFacts DEF Unwind
    <3> QED
      BY <3>1, <3>2 DEF WordsRight, Checking
  <2>5. HeldRight'
    BY <1>20 DEF Unwind, Running, Goto, words, marks, walks, bounds, Return, Interruptible, SetMark, HeldRight, TypeOK, WantRight, WordsRight, NotMine
  <2>6. MarksRight'
    <3>1. /\ \A u \in Threads \ {t} : waitingFor'[u] = waitingFor[u]
          /\ waitingFor'[t] = NoMark /\ saved' = saved /\ saved[t] = NoMark
          /\ interrupted' = interrupted \cup {t}
      BY <1>20 DEF Unwind, Interruptible, Running, SetMark, TypeOK
    <3> QED
      BY <1>20, <3>1, ReturnFacts DEF Unwind, MarksRight, Checking, Waiting
  <2>7. LockRight'
    BY <1>20 DEF Unwind, Running, Goto, words, marks, walks, bounds, Return, Interruptible, SetMark, LockRight, TypeOK, Critical
  <2> QED  BY <2>1, <2>2, <2>3, <2>4, <2>5, <2>6, <2>7
<1>21. CASE UNCHANGED vars
  BY <1>21 DEF vars, TypeOK, Places, Checking, Interruptible, WantRight, NotMine, HeldRight, WordsRight, MarksRight, Waiting, LockRight, Critical
<1> QED
  BY <1>1, <1>2, <1>3, <1>4, <1>5, <1>6, <1>7, <1>8, <1>9, <1>10, <1>11, <1>12, <1>13, <1>14, <1>15, <1>16, <1>17, <1>18, <1>19, <1>20, <1>21 DEF Next, Step, Environment

------------------------------------------------------------------------------
(* The walks.                                                                  *)

\* What a step of t leaves alone: another thread's locals and what it owns; and
\* while that thread has **DEADLOCK-LOCK**, t does not report, nor does it get a
\* mutex that the other owns.
LEMMA Others ==
  ASSUME IInv, NEW t \in Threads, Step(t) \/ Environment(t), NEW u \in Threads \ {t}
  PROVE  /\ pc'[u] = pc[u] /\ want'[u] = want[u] /\ timed'[u] = timed[u]
         /\ path'[u] = path[u] /\ depth'[u] = depth[u]
         /\ \A k \in Mutexes : owner[k] = u => owner'[k] = u
         /\ interrupted \subseteq interrupted'
         /\ deadlockLock = u /\ pc[t] # "reporting" => pc'[t] # "reporting"
         /\ \A k \in Mutexes : owner[k] = u /\ deadlockLock = u /\ WaitsFor(t, k) =>
              WaitsFor(t, k)'
<1> USE DeadlockAssumption DEF IInv, Locks
<1>1. CASE \E m \in Mutexes : TryMutex(t, m)
  <2>1. /\ pc'[u] = pc[u] /\ want'[u] = want[u] /\ timed'[u] = timed[u]
          /\ path'[u] = path[u] /\ depth'[u] = depth[u]
    BY <1>1 DEF TryMutex, At, Running, Goto, words, marks, walks, bounds, TypeOK
  <2>2. \A k \in Mutexes : owner[k] = u => owner'[k] = u
    BY <1>1 DEF TryMutex, At, words, TypeOK, HeldRight
  <2>3. interrupted \subseteq interrupted'
    BY <1>1 DEF TryMutex, bounds, Interruptible
  <2>4. deadlockLock = u /\ pc[t] # "reporting" => pc'[t] # "reporting"
    BY <1>1 DEF TryMutex, At, Running, Goto, words, marks, walks, bounds, TypeOK, LockRight, Critical
  <2>5. \A k \in Mutexes : owner[k] = u /\ deadlockLock = u /\ WaitsFor(t, k) => WaitsFor(t, k)'
    BY <1>1 DEF TryMutex, At, Running, Goto, words, marks, walks, bounds, TypeOK, LockRight, Critical, WordsRight, HeldRight, WaitsFor, Waiting, Checking
  <2> QED  BY <2>1, <2>2, <2>3, <2>4, <2>5
<1>2. CASE SetWaitingFor(t)
  <2>1. /\ pc'[u] = pc[u] /\ want'[u] = want[u] /\ timed'[u] = timed[u]
          /\ path'[u] = path[u] /\ depth'[u] = depth[u]
    BY <1>2 DEF SetWaitingFor, At, Running, Goto, words, marks, walks, bounds, SetMark, TypeOK
  <2>2. \A k \in Mutexes : owner[k] = u => owner'[k] = u
    BY <1>2 DEF SetWaitingFor, At, words, TypeOK, HeldRight
  <2>3. interrupted \subseteq interrupted'
    BY <1>2 DEF SetWaitingFor, bounds, Interruptible
  <2>4. deadlockLock = u /\ pc[t] # "reporting" => pc'[t] # "reporting"
    BY <1>2 DEF SetWaitingFor, At, Running, Goto, words, marks, walks, bounds, SetMark, TypeOK, LockRight, Critical
  <2>5. \A k \in Mutexes : owner[k] = u /\ deadlockLock = u /\ WaitsFor(t, k) => WaitsFor(t, k)'
    BY <1>2 DEF SetWaitingFor, At, Running, Goto, words, marks, walks, bounds, SetMark, TypeOK, LockRight, Critical, WordsRight, HeldRight, WaitsFor, Waiting, Checking
  <2> QED  BY <2>1, <2>2, <2>3, <2>4, <2>5
<1>3. CASE Acquire(t)
  <2>1. /\ pc'[u] = pc[u] /\ want'[u] = want[u] /\ timed'[u] = timed[u]
          /\ path'[u] = path[u] /\ depth'[u] = depth[u]
    BY <1>3 DEF Acquire, At, Running, Goto, words, marks, walks, bounds, TypeOK
  <2>2. \A k \in Mutexes : owner[k] = u => owner'[k] = u
    BY <1>3 DEF Acquire, At, words, TypeOK, HeldRight
  <2>3. interrupted \subseteq interrupted'
    BY <1>3 DEF Acquire, bounds, Interruptible
  <2>4. deadlockLock = u /\ pc[t] # "reporting" => pc'[t] # "reporting"
    BY <1>3 DEF Acquire, At, Running, Goto, words, marks, walks, bounds, TypeOK, LockRight, Critical
  <2>5. \A k \in Mutexes : owner[k] = u /\ deadlockLock = u /\ WaitsFor(t, k) => WaitsFor(t, k)'
    <3> SUFFICES ASSUME NEW k \in Mutexes, owner[k] = u, WaitsFor(t, k)
                 PROVE  WaitsFor(t, k)'
      OBVIOUS
    <3>1. holder[k] = u /\ holder[want[t]] = NoThread
      BY <1>3 DEF Acquire, WordsRight
    <3>2. t \in interrupted
      BY <3>1 DEF WaitsFor
    <3> QED  BY <2>3, <3>2 DEF WaitsFor
  <2> QED  BY <2>1, <2>2, <2>3, <2>4, <2>5
<1>4. CASE SetOwner(t)
  <2>1. /\ pc'[u] = pc[u] /\ want'[u] = want[u] /\ timed'[u] = timed[u]
          /\ path'[u] = path[u] /\ depth'[u] = depth[u]
    BY <1>4, ReturnFacts DEF SetOwner, At, Running, Goto, words, marks, walks, bounds, TypeOK
  <2>2. \A k \in Mutexes : owner[k] = u => owner'[k] = u
    BY <1>4 DEF SetOwner, At, words, TypeOK, HeldRight
  <2>3. interrupted \subseteq interrupted'
    BY <1>4 DEF SetOwner, bounds, Interruptible
  <2>4. deadlockLock = u /\ pc[t] # "reporting" => pc'[t] # "reporting"
    BY <1>4, ReturnFacts DEF SetOwner, At, Running, Goto, words, marks, walks, bounds, TypeOK, LockRight, Critical
  <2>5. \A k \in Mutexes : owner[k] = u /\ deadlockLock = u /\ WaitsFor(t, k) => WaitsFor(t, k)'
    BY <1>4, ReturnFacts DEF SetOwner, At, Running, Goto, words, marks, walks, bounds, TypeOK, LockRight, Critical, WordsRight, HeldRight, WaitsFor, Waiting, Checking
  <2> QED  BY <2>1, <2>2, <2>3, <2>4, <2>5
<1>5. CASE ClearWaitingFor(t)
  <2>1. /\ pc'[u] = pc[u] /\ want'[u] = want[u] /\ timed'[u] = timed[u]
          /\ path'[u] = path[u] /\ depth'[u] = depth[u]
    BY <1>5, ReturnFacts DEF ClearWaitingFor, At, Running, Goto, words, marks, walks, bounds, SetMark, TypeOK
  <2>2. \A k \in Mutexes : owner[k] = u => owner'[k] = u
    BY <1>5 DEF ClearWaitingFor, At, words, TypeOK, HeldRight
  <2>3. interrupted \subseteq interrupted'
    BY <1>5 DEF ClearWaitingFor, bounds, Interruptible
  <2>4. deadlockLock = u /\ pc[t] # "reporting" => pc'[t] # "reporting"
    BY <1>5, ReturnFacts DEF ClearWaitingFor, At, Running, Goto, words, marks, walks, bounds, SetMark, TypeOK, LockRight, Critical
  <2>5. \A k \in Mutexes : owner[k] = u /\ deadlockLock = u /\ WaitsFor(t, k) => WaitsFor(t, k)'
    BY <1>5, ReturnFacts DEF ClearWaitingFor, At, Running, Goto, words, marks, walks, bounds, SetMark, TypeOK, LockRight, Critical, WordsRight, HeldRight, WaitsFor, Waiting, Checking
  <2> QED  BY <2>1, <2>2, <2>3, <2>4, <2>5
<1>6. CASE TimeOut(t)
  <2>1. /\ pc'[u] = pc[u] /\ want'[u] = want[u] /\ timed'[u] = timed[u]
          /\ path'[u] = path[u] /\ depth'[u] = depth[u]
    BY <1>6, ReturnFacts DEF TimeOut, At, Running, Goto, words, marks, walks, bounds, SetMark, TypeOK
  <2>2. \A k \in Mutexes : owner[k] = u => owner'[k] = u
    BY <1>6 DEF TimeOut, At, words, TypeOK, HeldRight
  <2>3. interrupted \subseteq interrupted'
    BY <1>6 DEF TimeOut, bounds, Interruptible
  <2>4. deadlockLock = u /\ pc[t] # "reporting" => pc'[t] # "reporting"
    BY <1>6, ReturnFacts DEF TimeOut, At, Running, Goto, words, marks, walks, bounds, SetMark, TypeOK, LockRight, Critical
  <2>5. \A k \in Mutexes : owner[k] = u /\ deadlockLock = u /\ WaitsFor(t, k) => WaitsFor(t, k)'
    BY <1>6, ReturnFacts DEF TimeOut, At, Running, Goto, words, marks, walks, bounds, SetMark, TypeOK, LockRight, Critical, WordsRight, HeldRight, WaitsFor, Waiting, Checking
  <2> QED  BY <2>1, <2>2, <2>3, <2>4, <2>5
<1>7. CASE \E m \in Mutexes : ReleaseOwner(t, m)
  <2>1. /\ pc'[u] = pc[u] /\ want'[u] = want[u] /\ timed'[u] = timed[u]
          /\ path'[u] = path[u] /\ depth'[u] = depth[u]
    BY <1>7 DEF ReleaseOwner, At, Running, Goto, words, marks, walks, bounds, TypeOK
  <2>2. \A k \in Mutexes : owner[k] = u => owner'[k] = u
    BY <1>7 DEF ReleaseOwner, At, words, TypeOK, HeldRight
  <2>3. interrupted \subseteq interrupted'
    BY <1>7 DEF ReleaseOwner, bounds, Interruptible
  <2>4. deadlockLock = u /\ pc[t] # "reporting" => pc'[t] # "reporting"
    BY <1>7 DEF ReleaseOwner, At, Running, Goto, words, marks, walks, bounds, TypeOK, LockRight, Critical
  <2>5. \A k \in Mutexes : owner[k] = u /\ deadlockLock = u /\ WaitsFor(t, k) => WaitsFor(t, k)'
    BY <1>7 DEF ReleaseOwner, At, Running, Goto, words, marks, walks, bounds, TypeOK, LockRight, Critical, WordsRight, HeldRight, WaitsFor, Waiting, Checking
  <2> QED  BY <2>1, <2>2, <2>3, <2>4, <2>5
<1>8. CASE ReleaseWord(t)
  <2>1. /\ pc'[u] = pc[u] /\ want'[u] = want[u] /\ timed'[u] = timed[u]
          /\ path'[u] = path[u] /\ depth'[u] = depth[u]
    BY <1>8, ReturnFacts DEF ReleaseWord, At, Running, Goto, words, marks, walks, bounds, TypeOK
  <2>2. \A k \in Mutexes : owner[k] = u => owner'[k] = u
    BY <1>8 DEF ReleaseWord, At, words, TypeOK, HeldRight
  <2>3. interrupted \subseteq interrupted'
    BY <1>8 DEF ReleaseWord, bounds, Interruptible
  <2>4. deadlockLock = u /\ pc[t] # "reporting" => pc'[t] # "reporting"
    BY <1>8, ReturnFacts DEF ReleaseWord, At, Running, Goto, words, marks, walks, bounds, TypeOK, LockRight, Critical
  <2>5. \A k \in Mutexes : owner[k] = u /\ deadlockLock = u /\ WaitsFor(t, k) => WaitsFor(t, k)'
    BY <1>8, ReturnFacts DEF ReleaseWord, At, Running, Goto, words, marks, walks, bounds, TypeOK, LockRight, Critical, WordsRight, HeldRight, WaitsFor, Waiting, Checking
  <2> QED  BY <2>1, <2>2, <2>3, <2>4, <2>5
<1>9. CASE ReadOwner(t)
  <2>1. /\ pc'[u] = pc[u] /\ want'[u] = want[u] /\ timed'[u] = timed[u]
          /\ path'[u] = path[u] /\ depth'[u] = depth[u]
    BY <1>9 DEF ReadOwner, At, Running, Goto, words, marks, walks, bounds, NoChain, TypeOK
  <2>2. \A k \in Mutexes : owner[k] = u => owner'[k] = u
    BY <1>9 DEF ReadOwner, At, words, TypeOK, HeldRight
  <2>3. interrupted \subseteq interrupted'
    BY <1>9 DEF ReadOwner, bounds, Interruptible
  <2>4. deadlockLock = u /\ pc[t] # "reporting" => pc'[t] # "reporting"
    BY <1>9 DEF ReadOwner, At, Running, Goto, words, marks, walks, bounds, NoChain, TypeOK, LockRight, Critical
  <2>5. \A k \in Mutexes : owner[k] = u /\ deadlockLock = u /\ WaitsFor(t, k) => WaitsFor(t, k)'
    BY <1>9 DEF ReadOwner, At, Running, Goto, words, marks, walks, bounds, NoChain, TypeOK, LockRight, Critical, WordsRight, HeldRight, WaitsFor, Waiting, Checking
  <2> QED  BY <2>1, <2>2, <2>3, <2>4, <2>5
<1>10. CASE ReadMark(t)
  <2>1. /\ pc'[u] = pc[u] /\ want'[u] = want[u] /\ timed'[u] = timed[u]
          /\ path'[u] = path[u] /\ depth'[u] = depth[u]
    BY <1>10 DEF ReadMark, At, Running, Goto, words, marks, walks, bounds, NoChain, TypeOK
  <2>2. \A k \in Mutexes : owner[k] = u => owner'[k] = u
    BY <1>10 DEF ReadMark, At, words, TypeOK, HeldRight
  <2>3. interrupted \subseteq interrupted'
    BY <1>10 DEF ReadMark, bounds, Interruptible
  <2>4. deadlockLock = u /\ pc[t] # "reporting" => pc'[t] # "reporting"
    BY <1>10 DEF ReadMark, At, Running, Goto, words, marks, walks, bounds, NoChain, TypeOK, LockRight, Critical
  <2>5. \A k \in Mutexes : owner[k] = u /\ deadlockLock = u /\ WaitsFor(t, k) => WaitsFor(t, k)'
    BY <1>10 DEF ReadMark, At, Running, Goto, words, marks, walks, bounds, NoChain, TypeOK, LockRight, Critical, WordsRight, HeldRight, WaitsFor, Waiting, Checking
  <2> QED  BY <2>1, <2>2, <2>3, <2>4, <2>5
<1>11. CASE GrabDeadlockLock(t)
  <2>1. /\ pc'[u] = pc[u] /\ want'[u] = want[u] /\ timed'[u] = timed[u]
          /\ path'[u] = path[u] /\ depth'[u] = depth[u]
    BY <1>11 DEF GrabDeadlockLock, At, Running, Goto, words, marks, walks, bounds, TypeOK
  <2>2. \A k \in Mutexes : owner[k] = u => owner'[k] = u
    BY <1>11 DEF GrabDeadlockLock, At, words, TypeOK, HeldRight
  <2>3. interrupted \subseteq interrupted'
    BY <1>11 DEF GrabDeadlockLock, bounds, Interruptible
  <2>4. deadlockLock = u /\ pc[t] # "reporting" => pc'[t] # "reporting"
    BY <1>11 DEF GrabDeadlockLock, At, Running, Goto, words, marks, walks, bounds, TypeOK, LockRight, Critical
  <2>5. \A k \in Mutexes : owner[k] = u /\ deadlockLock = u /\ WaitsFor(t, k) => WaitsFor(t, k)'
    BY <1>11 DEF GrabDeadlockLock, At, Running, Goto, words, marks, walks, bounds, TypeOK, LockRight, Critical, WordsRight, HeldRight, WaitsFor, Waiting, Checking
  <2> QED  BY <2>1, <2>2, <2>3, <2>4, <2>5
<1>12. CASE RecheckOwner(t)
  <2>1. /\ pc'[u] = pc[u] /\ want'[u] = want[u] /\ timed'[u] = timed[u]
          /\ path'[u] = path[u] /\ depth'[u] = depth[u]
    BY <1>12 DEF RecheckOwner, At, Running, Goto, words, marks, walks, bounds, TypeOK
  <2>2. \A k \in Mutexes : owner[k] = u => owner'[k] = u
    BY <1>12 DEF RecheckOwner, At, words, TypeOK, HeldRight
  <2>3. interrupted \subseteq interrupted'
    BY <1>12 DEF RecheckOwner, bounds, Interruptible
  <2>4. deadlockLock = u /\ pc[t] # "reporting" => pc'[t] # "reporting"
    BY <1>12 DEF RecheckOwner, At, Running, Goto, words, marks, walks, bounds, TypeOK, LockRight, Critical
  <2>5. \A k \in Mutexes : owner[k] = u /\ deadlockLock = u /\ WaitsFor(t, k) => WaitsFor(t, k)'
    BY <1>12 DEF RecheckOwner, At, Running, Goto, words, marks, walks, bounds, TypeOK, LockRight, Critical, WordsRight, HeldRight, WaitsFor, Waiting, Checking
  <2> QED  BY <2>1, <2>2, <2>3, <2>4, <2>5
<1>13. CASE RecheckMark(t)
  <2>1. /\ pc'[u] = pc[u] /\ want'[u] = want[u] /\ timed'[u] = timed[u]
          /\ path'[u] = path[u] /\ depth'[u] = depth[u]
    BY <1>13 DEF RecheckMark, At, Running, Goto, words, marks, walks, bounds, TypeOK
  <2>2. \A k \in Mutexes : owner[k] = u => owner'[k] = u
    BY <1>13 DEF RecheckMark, At, words, TypeOK, HeldRight
  <2>3. interrupted \subseteq interrupted'
    BY <1>13 DEF RecheckMark, bounds, Interruptible
  <2>4. deadlockLock = u /\ pc[t] # "reporting" => pc'[t] # "reporting"
    BY <1>13 DEF RecheckMark, At, Running, Goto, words, marks, walks, bounds, TypeOK, LockRight, Critical
  <2>5. \A k \in Mutexes : owner[k] = u /\ deadlockLock = u /\ WaitsFor(t, k) => WaitsFor(t, k)'
    BY <1>13 DEF RecheckMark, At, Running, Goto, words, marks, walks, bounds, TypeOK, LockRight, Critical, WordsRight, HeldRight, WaitsFor, Waiting, Checking
  <2> QED  BY <2>1, <2>2, <2>3, <2>4, <2>5
<1>14. CASE Disclaim(t)
  <2>1. /\ pc'[u] = pc[u] /\ want'[u] = want[u] /\ timed'[u] = timed[u]
          /\ path'[u] = path[u] /\ depth'[u] = depth[u]
    BY <1>14 DEF Disclaim, At, Running, Goto, words, marks, walks, bounds, SetMark, TypeOK
  <2>2. \A k \in Mutexes : owner[k] = u => owner'[k] = u
    BY <1>14 DEF Disclaim, At, words, TypeOK, HeldRight
  <2>3. interrupted \subseteq interrupted'
    BY <1>14 DEF Disclaim, bounds, Interruptible
  <2>4. deadlockLock = u /\ pc[t] # "reporting" => pc'[t] # "reporting"
    BY <1>14 DEF Disclaim, At, Running, Goto, words, marks, walks, bounds, SetMark, TypeOK, LockRight, Critical
  <2>5. \A k \in Mutexes : owner[k] = u /\ deadlockLock = u /\ WaitsFor(t, k) => WaitsFor(t, k)'
    BY <1>14 DEF Disclaim, At, Running, Goto, words, marks, walks, bounds, SetMark, TypeOK, LockRight, Critical, WordsRight, HeldRight, WaitsFor, Waiting, Checking
  <2> QED  BY <2>1, <2>2, <2>3, <2>4, <2>5
<1>15. CASE SignalDeadlock(t)
  <2>1. /\ pc'[u] = pc[u] /\ want'[u] = want[u] /\ timed'[u] = timed[u]
          /\ path'[u] = path[u] /\ depth'[u] = depth[u]
    BY <1>15 DEF SignalDeadlock, At, Running, Goto, words, marks, walks, bounds, TypeOK
  <2>2. \A k \in Mutexes : owner[k] = u => owner'[k] = u
    BY <1>15 DEF SignalDeadlock, At, words, TypeOK, HeldRight
  <2>3. interrupted \subseteq interrupted'
    BY <1>15 DEF SignalDeadlock, bounds, Interruptible
  <2>4. deadlockLock = u /\ pc[t] # "reporting" => pc'[t] # "reporting"
    BY <1>15 DEF SignalDeadlock, At, Running, Goto, words, marks, walks, bounds, TypeOK, LockRight, Critical
  <2>5. \A k \in Mutexes : owner[k] = u /\ deadlockLock = u /\ WaitsFor(t, k) => WaitsFor(t, k)'
    BY <1>15 DEF SignalDeadlock, At, Running, Goto, words, marks, walks, bounds, TypeOK, LockRight, Critical, WordsRight, HeldRight, WaitsFor, Waiting, Checking
  <2> QED  BY <2>1, <2>2, <2>3, <2>4, <2>5
<1>16. CASE Handled(t)
  <2>1. /\ pc'[u] = pc[u] /\ want'[u] = want[u] /\ timed'[u] = timed[u]
          /\ path'[u] = path[u] /\ depth'[u] = depth[u]
    BY <1>16, ReturnFacts DEF Handled, At, Running, Goto, words, marks, walks, bounds, TypeOK
  <2>2. \A k \in Mutexes : owner[k] = u => owner'[k] = u
    BY <1>16 DEF Handled, At, words, TypeOK, HeldRight
  <2>3. interrupted \subseteq interrupted'
    BY <1>16 DEF Handled, bounds, Interruptible
  <2>4. deadlockLock = u /\ pc[t] # "reporting" => pc'[t] # "reporting"
    BY <1>16, ReturnFacts DEF Handled, At, Running, Goto, words, marks, walks, bounds, TypeOK, LockRight, Critical
  <2>5. \A k \in Mutexes : owner[k] = u /\ deadlockLock = u /\ WaitsFor(t, k) => WaitsFor(t, k)'
    BY <1>16, ReturnFacts DEF Handled, At, Running, Goto, words, marks, walks, bounds, TypeOK, LockRight, Critical, WordsRight, HeldRight, WaitsFor, Waiting, Checking
  <2> QED  BY <2>1, <2>2, <2>3, <2>4, <2>5
<1>17. CASE EndCheck(t)
  <2>1. /\ pc'[u] = pc[u] /\ want'[u] = want[u] /\ timed'[u] = timed[u]
          /\ path'[u] = path[u] /\ depth'[u] = depth[u]
    BY <1>17 DEF EndCheck, At, Running, Goto, words, marks, walks, bounds, NoChain, TypeOK
  <2>2. \A k \in Mutexes : owner[k] = u => owner'[k] = u
    BY <1>17 DEF EndCheck, At, words, TypeOK, HeldRight
  <2>3. interrupted \subseteq interrupted'
    BY <1>17 DEF EndCheck, bounds, Interruptible
  <2>4. deadlockLock = u /\ pc[t] # "reporting" => pc'[t] # "reporting"
    BY <1>17 DEF EndCheck, At, Running, Goto, words, marks, walks, bounds, NoChain, TypeOK, LockRight, Critical
  <2>5. \A k \in Mutexes : owner[k] = u /\ deadlockLock = u /\ WaitsFor(t, k) => WaitsFor(t, k)'
    BY <1>17 DEF EndCheck, At, Running, Goto, words, marks, walks, bounds, NoChain, TypeOK, LockRight, Critical, WordsRight, HeldRight, WaitsFor, Waiting, Checking
  <2> QED  BY <2>1, <2>2, <2>3, <2>4, <2>5
<1>18. CASE EnterHandler(t)
  <2>1. /\ pc'[u] = pc[u] /\ want'[u] = want[u] /\ timed'[u] = timed[u]
          /\ path'[u] = path[u] /\ depth'[u] = depth[u]
    BY <1>18 DEF EnterHandler, Running, Goto, words, marks, walks, bounds, Interruptible, SetMark, TypeOK
  <2>2. \A k \in Mutexes : owner[k] = u => owner'[k] = u
    BY <1>18 DEF EnterHandler, At, words, TypeOK, HeldRight
  <2>3. interrupted \subseteq interrupted'
    BY <1>18 DEF EnterHandler, bounds, Interruptible
  <2>4. deadlockLock = u /\ pc[t] # "reporting" => pc'[t] # "reporting"
    BY <1>18 DEF EnterHandler, Running, Goto, words, marks, walks, bounds, Interruptible, SetMark, TypeOK, LockRight, Critical
  <2>5. \A k \in Mutexes : owner[k] = u /\ deadlockLock = u /\ WaitsFor(t, k) => WaitsFor(t, k)'
    BY <1>18 DEF EnterHandler, Running, Goto, words, marks, walks, bounds, Interruptible, SetMark, TypeOK, LockRight, Critical, WordsRight, HeldRight, WaitsFor, Waiting, Checking
  <2> QED  BY <2>1, <2>2, <2>3, <2>4, <2>5
<1>19. CASE LeaveHandler(t)
  <2>1. /\ pc'[u] = pc[u] /\ want'[u] = want[u] /\ timed'[u] = timed[u]
          /\ path'[u] = path[u] /\ depth'[u] = depth[u]
    BY <1>19 DEF LeaveHandler, At, Running, Goto, words, marks, walks, bounds, SetMark, TypeOK
  <2>2. \A k \in Mutexes : owner[k] = u => owner'[k] = u
    BY <1>19 DEF LeaveHandler, At, words, TypeOK, HeldRight
  <2>3. interrupted \subseteq interrupted'
    BY <1>19 DEF LeaveHandler, bounds, Interruptible
  <2>4. deadlockLock = u /\ pc[t] # "reporting" => pc'[t] # "reporting"
    BY <1>19 DEF LeaveHandler, At, Running, Goto, words, marks, walks, bounds, SetMark, TypeOK, LockRight, Critical
  <2>5. \A k \in Mutexes : owner[k] = u /\ deadlockLock = u /\ WaitsFor(t, k) => WaitsFor(t, k)'
    BY <1>19 DEF LeaveHandler, At, Running, Goto, words, marks, walks, bounds, SetMark, TypeOK, LockRight, Critical, WordsRight, HeldRight, WaitsFor, Waiting, Checking
  <2> QED  BY <2>1, <2>2, <2>3, <2>4, <2>5
<1>20. CASE Unwind(t)
  <2>1. /\ pc'[u] = pc[u] /\ want'[u] = want[u] /\ timed'[u] = timed[u]
          /\ path'[u] = path[u] /\ depth'[u] = depth[u]
    BY <1>20, ReturnFacts DEF Unwind, Running, Goto, words, marks, walks, bounds, Interruptible, SetMark, TypeOK
  <2>2. \A k \in Mutexes : owner[k] = u => owner'[k] = u
    BY <1>20 DEF Unwind, At, words, TypeOK, HeldRight
  <2>3. interrupted \subseteq interrupted'
    BY <1>20 DEF Unwind, bounds, Interruptible
  <2>4. deadlockLock = u /\ pc[t] # "reporting" => pc'[t] # "reporting"
    BY <1>20, ReturnFacts DEF Unwind, Running, Goto, words, marks, walks, bounds, Interruptible, SetMark, TypeOK, LockRight, Critical
  <2>5. \A k \in Mutexes : owner[k] = u /\ deadlockLock = u /\ WaitsFor(t, k) => WaitsFor(t, k)'
    BY <1>20, ReturnFacts DEF Unwind, Running, Goto, words, marks, walks, bounds, Interruptible, SetMark, TypeOK, LockRight, Critical, WordsRight, HeldRight, WaitsFor, Waiting, Checking
  <2> QED  BY <2>1, <2>2, <2>3, <2>4, <2>5
<1> QED
  BY <1>1, <1>2, <1>3, <1>4, <1>5, <1>6, <1>7, <1>8, <1>9, <1>10, <1>11, <1>12, <1>13, <1>14, <1>15, <1>16, <1>17, <1>18, <1>19, <1>20 DEF Step, Environment

\* Where a thread is neither walking nor reporting there is nothing to keep.
LEMMA NoWalk ==
  ASSUME NEW t \in Threads, path'[t] = <<>>, pc'[t] \notin Checking \ {"readowner"}
  PROVE  (PathOK(t) /\ LastWaits(t) /\ NoneReports(t))'
BY DEF PathOK, LastWaits, NoneReports, Checking, Critical, Confirming

\* A step of t keeps its own walk right.
LEMMA Own ==
  ASSUME IInv, NEW t \in Threads, Step(t) \/ Environment(t)
  PROVE  (PathOK(t) /\ LastWaits(t) /\ NoneReports(t))'
<1> USE DeadlockAssumption DEF IInv, Locks
<1>0. PathOK(t) /\ LastWaits(t) /\ NoneReports(t)
  BY DEF Walks
<1>1. CASE \E m \in Mutexes : TryMutex(t, m)
  <2>1. path'[t] = <<>> /\ pc'[t] \notin Checking \ {"readowner"}
    BY <1>1, <1>0 DEF TryMutex, At, Running, Goto, words, marks, walks, bounds, TypeOK, PathOK, Checking
  <2> QED  BY <2>1, NoWalk
<1>2. CASE SetWaitingFor(t)
  <2>1. path'[t] = <<>> /\ pc'[t] \notin Checking \ {"readowner"}
    BY <1>2, <1>0 DEF SetWaitingFor, At, Running, Goto, words, marks, walks, bounds, SetMark, TypeOK, PathOK, Checking
  <2> QED  BY <2>1, NoWalk
<1>3. CASE Acquire(t)
  <2>1. path'[t] = <<>> /\ pc'[t] \notin Checking \ {"readowner"}
    BY <1>3, <1>0 DEF Acquire, At, Running, Goto, words, marks, walks, bounds, TypeOK, PathOK, Checking
  <2> QED  BY <2>1, NoWalk
<1>4. CASE SetOwner(t)
  <2>1. path'[t] = <<>> /\ pc'[t] \notin Checking \ {"readowner"}
    BY <1>4, <1>0, ReturnFacts DEF SetOwner, At, Running, Goto, words, marks, walks, bounds, TypeOK, PathOK, Checking
  <2> QED  BY <2>1, NoWalk
<1>5. CASE ClearWaitingFor(t)
  <2>1. path'[t] = <<>> /\ pc'[t] \notin Checking \ {"readowner"}
    BY <1>5, <1>0, ReturnFacts DEF ClearWaitingFor, At, Running, Goto, words, marks, walks, bounds, SetMark, TypeOK, PathOK, Checking
  <2> QED  BY <2>1, NoWalk
<1>6. CASE TimeOut(t)
  <2>1. path'[t] = <<>> /\ pc'[t] \notin Checking \ {"readowner"}
    BY <1>6, <1>0, ReturnFacts DEF TimeOut, At, Running, Goto, words, marks, walks, bounds, SetMark, TypeOK, PathOK, Checking
  <2> QED  BY <2>1, NoWalk
<1>7. CASE \E m \in Mutexes : ReleaseOwner(t, m)
  <2>1. path'[t] = <<>> /\ pc'[t] \notin Checking \ {"readowner"}
    BY <1>7, <1>0 DEF ReleaseOwner, At, Running, Goto, words, marks, walks, bounds, TypeOK, PathOK, Checking
  <2> QED  BY <2>1, NoWalk
<1>8. CASE ReleaseWord(t)
  <2>1. path'[t] = <<>> /\ pc'[t] \notin Checking \ {"readowner"}
    BY <1>8, <1>0, ReturnFacts DEF ReleaseWord, At, Running, Goto, words, marks, walks, bounds, TypeOK, PathOK, Checking
  <2> QED  BY <2>1, NoWalk
<1>9. CASE ReadOwner(t)
  <2> DEFINE other == owner[InnerLock(t)]
             n     == Len(path[t])
  <2>1. CASE NoChain(t)
    <3>1. path'[t] = <<>> /\ pc'[t] = "acquire"
      BY <2>1 DEF NoChain, Goto, TypeOK
    <3> QED  BY <3>1, NoWalk DEF Checking
  <2>2. CASE other = t /\ Goto(t, "base") /\ UNCHANGED walks
    <3>1. pc'[t] = "base" /\ path' = path /\ owner' = owner
      BY <1>9, <2>2 DEF ReadOwner, Goto, walks, words, TypeOK
    <3>2. path[t] # <<>> /\ n \in Nat \ {0}
      <4>1. path[t] = <<>> => other = owner[want[t]]
        BY DEF InnerLock, LockAt
      <4>2. owner[want[t]] # t
        BY <1>9 DEF ReadOwner, At, NotMine, Checking
      <4> QED  BY <2>2, <4>1, <4>2 DEF TypeOK
    <3>3. owner[path[t][n].lock] = t
      BY <2>2, <3>2 DEF InnerLock, LockAt
    <3> QED
      BY <1>9, <1>0, <3>1, <3>2, <3>3 DEF ReadOwner, At, PathOK, LastWaits, NoneReports, Checking, Critical, Confirming
  <2>3. CASE /\ other \notin {t, NoThread} /\ path' = [path EXCEPT ![t] = Append(path[t], [other |-> other, lock |-> NoMutex])]
             /\ Goto(t, "readmark")
    <3>1. /\ pc'[t] = "readmark"
          /\ path'[t] = Append(path[t], [other |-> other, lock |-> NoMutex])
      BY <2>3 DEF Goto, TypeOK
    <3>2. path[t] \in Seq(Frames) /\ n \in Nat
      BY DEF TypeOK
    <3>3. /\ Len(path'[t]) = n + 1 /\ path'[t] # <<>>
          /\ path'[t][n + 1].other = other
          /\ \A i \in 1..n : path'[t][i] = path[t][i]
      <4>1. InnerLock(t) \in Mutexes
        BY <1>9, <1>0, InnerLockType DEF ReadOwner, At, Checking
      <4>2. [other |-> other, lock |-> NoMutex] \in Frames
        BY <2>3, <4>1 DEF Frames, TypeOK
      <4> QED  BY <3>1, <3>2, <4>2
    <3>4. \A i \in 1..n : path[t][i].lock \in Mutexes /\ path[t][i].other # t
      BY <1>9, <1>0 DEF ReadOwner, At, PathOK
    <3> QED
      BY <2>3, <3>1, <3>2, <3>3, <3>4 DEF PathOK, LastWaits, NoneReports, Checking, Critical, Confirming
  <2> QED  BY <1>9, <2>1, <2>2, <2>3 DEF ReadOwner
<1>10. CASE ReadMark(t)
  <2> DEFINE n    == Len(path[t])
             mark == waitingFor[path[t][n].other]
  <2>1. CASE NoChain(t)
    <3>1. path'[t] = <<>> /\ pc'[t] = "acquire"
      BY <2>1 DEF NoChain, Goto, TypeOK
    <3> QED  BY <3>1, NoWalk DEF Checking
  <2>2. CASE /\ MutexP(mark) /\ path' = [path EXCEPT ![t][n].lock = mark.lock]
             /\ Goto(t, "readowner")
    <3>1. n \in 1..Len(path[t]) /\ path[t][n] \in Frames /\ path[t] \in Seq(Frames)
      BY <1>10, <1>0 DEF ReadMark, At, TypeOK, PathOK
    <3>2. mark.lock \in Mutexes
      BY <2>2, <3>1, MarkFacts DEF TypeOK, Frames
    <3>3. /\ pc'[t] = "readowner"
          /\ path'[t] = [path[t] EXCEPT ![n] = [path[t][n] EXCEPT !.lock = mark.lock]]
      BY <2>2 DEF Goto, TypeOK
    <3>4. /\ Len(path'[t]) = n
          /\ path'[t][n].lock = mark.lock /\ path'[t][n].other = path[t][n].other
          /\ \A i \in 1..n : i # n => path'[t][i] = path[t][i]
      BY <3>1, <3>3 DEF Frames
    <3> QED
      BY <1>10, <1>0, <3>1, <3>2, <3>3, <3>4 DEF ReadMark, At, PathOK, LastWaits, NoneReports, Checking, Critical, Confirming
  <2> QED  BY <1>10, <2>1, <2>2 DEF ReadMark
<1>11. CASE GrabDeadlockLock(t)
  <2>1. /\ pc[t] = "base" /\ pc'[t] = "reowner" /\ depth'[t] = Len(path[t])
        /\ path' = path /\ owner' = owner /\ Len(path[t]) \in Nat
    BY <1>11 DEF GrabDeadlockLock, At, Goto, words, TypeOK
  <2>2. path[t] # <<>> => Len(path[t]) # 0
    BY DEF TypeOK
  <2> QED  BY <1>0, <2>1, <2>2 DEF PathOK, LastWaits, NoneReports, Checking, Critical, Confirming
<1>12. CASE RecheckOwner(t)
  <2>1. /\ pc[t] = "reowner" /\ pc'[t] \in {"remark", "endcheck"}
        /\ UNCHANGED <<path, depth, owner, want, timed, interrupted>>
        /\ \A u \in Threads \ {t} : pc'[u] = pc[u]
    BY <1>12 DEF RecheckOwner, At, Goto, words, walks, bounds, TypeOK
  <2> QED  BY <1>0, <2>1, OthersOnPath DEF PathOK, LastWaits, NoneReports, Checking, Critical, Confirming, WaitsFor
<1>13. CASE RecheckMark(t)
  <2> DEFINE n == Len(path[t])
             d == depth[t]
  <2>1. /\ pc[t] = "remark" /\ UNCHANGED <<path, owner, want, timed, interrupted>>
        /\ \A u \in Threads \ {t} : pc'[u] = pc[u]
    BY <1>13 DEF RecheckMark, At, Goto, words, bounds, TypeOK
  <2>2. d \in 1..n /\ n \in Nat /\ \A i \in 1..n : path[t][i].other \in Threads \ {t}
    <3>1. d \in 1..n
      BY <1>0, <2>1 DEF PathOK
    <3>2. n \in Nat
      BY DEF TypeOK
    <3> QED  BY <1>0, <3>1, <3>2, OthersOnPath
  <2>3. CASE UNCHANGED depth /\ Goto(t, "endcheck")
    <3>1. pc'[t] = "endcheck" /\ depth' = depth
      BY <2>3 DEF Goto, TypeOK
    <3> QED
      BY <1>0, <2>1, <3>1 DEF PathOK, LastWaits, NoneReports, Checking, Critical, Confirming
  <2>4. CASE /\ waitingFor[path[t][d].other] = Mark(path[t][d].lock, FALSE)
             /\ depth' = [depth EXCEPT ![t] = @ - 1]
             /\ Goto(t, IF d = 1 THEN "condemned" ELSE "reowner")
    <3> DEFINE o == path[t][d].other
               k == path[t][d].lock
    <3>1. /\ pc'[t] = IF d = 1 THEN "condemned" ELSE "reowner"
          /\ depth'[t] = d - 1
      BY <2>4 DEF Goto, TypeOK
    <3>2. /\ o \in Threads \ {t} /\ k \in Mutexes
      BY <1>0, <2>1, <2>2 DEF PathOK
    <3>3. /\ want[o] = k /\ ~timed[o] /\ pc[o] \in Waiting \cup {"won", "unmark"}
      <4>1. waitingFor[o] # NoMark /\ waitingFor[o] = Mark(k, FALSE)
        BY <2>4, <3>2, DeadlockAssumption DEF Mark, NoMark
      <4>2. /\ waitingFor[o] = Mark(want[o], timed[o]) /\ pc[o] \in Waiting \cup {"won", "unmark"}
        BY <3>2, <4>1 DEF MarksRight
      <4>3. want[o] \in Mutexes /\ timed[o] \in BOOLEAN
        BY <3>2, <4>2 DEF WantRight, Waiting, Checking, TypeOK
      <4>4. want[o] = k /\ timed[o] = FALSE
        BY <4>1, <4>2 DEF Mark
      <4> QED  BY <4>2, <4>4
    <3>4. d = n => WaitsFor(o, k)
      <4> SUFFICES ASSUME d = n PROVE WaitsFor(o, k)
        OBVIOUS
      <4>1. owner[k] = t /\ owner[k] # NoThread
        BY <1>0, <2>1 DEF PathOK, Critical
      <4>2. holder[k] = t
        BY <3>2, <4>1 DEF WordsRight
      <4>3. pc[o] \notin {"won", "unmark"}
        BY <3>2, <3>3, <4>1, <4>2 DEF HeldRight
      <4> QED
        BY <3>3, <4>3 DEF WaitsFor
    <3>5. PathOK(t)'
      BY <1>0, <2>1, <2>2, <3>1 DEF PathOK, Critical, Checking
    <3>6. LastWaits(t)'
      BY <1>0, <2>1, <2>2, <3>1, <3>4 DEF LastWaits, WaitsFor
    <3>7. NoneReports(t)'
      <4>1. pc[o] # "reporting"
        BY <3>3 DEF Waiting, Checking
      <4> QED
        BY <1>0, <2>1, <2>2, <3>1, <4>1 DEF NoneReports, Confirming
    <3> QED  BY <3>5, <3>6, <3>7
  <2> QED  BY <1>13, <2>3, <2>4 DEF RecheckMark
<1>14. CASE Disclaim(t)
  <2>1. /\ pc[t] = "condemned" /\ pc'[t] = "disclaimed"
        /\ UNCHANGED <<path, depth, owner, want, timed, interrupted>>
        /\ \A u \in Threads \ {t} : pc'[u] = pc[u]
    BY <1>14 DEF Disclaim, At, Goto, words, walks, bounds, TypeOK
  <2> QED  BY <1>0, <2>1, OthersOnPath DEF PathOK, LastWaits, NoneReports, Checking, Critical, Confirming
<1>15. CASE SignalDeadlock(t)
  <2>1. /\ pc[t] = "disclaimed" /\ pc'[t] = "reporting"
        /\ UNCHANGED <<path, depth, owner, want, timed, interrupted>>
        /\ \A u \in Threads \ {t} : pc'[u] = pc[u]
    BY <1>15 DEF SignalDeadlock, At, Goto, words, walks, bounds, TypeOK
  <2> QED  BY <1>0, <2>1, OthersOnPath DEF PathOK, LastWaits, NoneReports, Checking, Critical, Confirming
<1>16. CASE Handled(t)
  <2>1. path'[t] = <<>> /\ pc'[t] \notin Checking \ {"readowner"}
    BY <1>16, <1>0, ReturnFacts DEF Handled, At, Running, Goto, words, marks, walks, bounds, TypeOK, PathOK, Checking
  <2> QED  BY <2>1, NoWalk
<1>17. CASE EndCheck(t)
  <2>1. path'[t] = <<>> /\ pc'[t] = "acquire"
    BY <1>17 DEF EndCheck, NoChain, Goto, TypeOK
  <2> QED  BY <2>1, NoWalk DEF Checking
<1>18. CASE EnterHandler(t)
  <2>1. /\ UNCHANGED <<pc, path, depth, owner, want, timed>>
        /\ interrupted \subseteq interrupted'
    BY <1>18 DEF EnterHandler, Interruptible, words, walks, bounds
  <2> QED  BY <1>0, <2>1 DEF PathOK, LastWaits, NoneReports, Checking, Critical, Confirming, WaitsFor
<1>19. CASE LeaveHandler(t)
  <2>1. /\ UNCHANGED <<pc, path, depth, owner, want, timed>>
        /\ interrupted \subseteq interrupted'
    BY <1>19 DEF LeaveHandler, Interruptible, words, walks, bounds
  <2> QED  BY <1>0, <2>1 DEF PathOK, LastWaits, NoneReports, Checking, Critical, Confirming, WaitsFor
<1>20. CASE Unwind(t)
  <2>1. path'[t] = <<>> /\ pc'[t] \notin Checking \ {"readowner"}
    BY <1>20, <1>0, ReturnFacts DEF Unwind, Running, Goto, words, marks, walks, bounds, Interruptible, SetMark, TypeOK, PathOK, Checking
  <2> QED  BY <2>1, NoWalk
<1> QED
  BY <1>1, <1>2, <1>3, <1>4, <1>5, <1>6, <1>7, <1>8, <1>9, <1>10, <1>11, <1>12, <1>13, <1>14, <1>15, <1>16, <1>17, <1>18, <1>19, <1>20 DEF Step, Environment

\* Each step keeps every walk right.
LEMMA WalksNext == IInv /\ [Next]_vars => Walks'
<1> SUFFICES ASSUME IInv, [Next]_vars PROVE Walks'
  OBVIOUS
<1>1. CASE UNCHANGED vars
  BY <1>1 DEF vars, IInv, Walks, PathOK, LastWaits, NoneReports, WaitsFor
<1>2. ASSUME NEW t \in Threads, Step(t) \/ Environment(t), NEW u \in Threads
      PROVE  (PathOK(u) /\ LastWaits(u) /\ NoneReports(u))'
  <2>1. CASE u = t
    BY <1>2, <2>1, Own
  <2>2. CASE u # t
    <3>1. PathOK(u) /\ LastWaits(u) /\ NoneReports(u)
      BY DEF IInv, Walks
    <3>2. /\ pc'[u] = pc[u] /\ path'[u] = path[u] /\ depth'[u] = depth[u]
          /\ \A k \in Mutexes : owner[k] = u => owner'[k] = u
          /\ interrupted \subseteq interrupted'
          /\ deadlockLock = u /\ pc[t] # "reporting" => pc'[t] # "reporting"
          /\ \A k \in Mutexes : owner[k] = u /\ deadlockLock = u /\ WaitsFor(t, k) =>
               WaitsFor(t, k)'
      BY <1>2, <2>2, Others
    <3>3. \A v \in Threads \ {t} : pc'[v] = pc[v] /\ want'[v] = want[v] /\ timed'[v] = timed[v]
      BY <1>2, Others
    <3>4. \A i \in 1..Len(path[u]) : path[u][i] \in Frames /\ path[u][i].other \in Threads
      BY <3>1, OthersOnPath DEF IInv, Locks
    <3>5. Len(path[u]) \in Nat /\ (path[u] # <<>> => Len(path[u]) \in 1..Len(path[u]))
      BY DEF IInv, Locks, TypeOK
    <3>6. pc[u] \in Confirming => deadlockLock = u
      BY DEF IInv, Locks, LockRight, Confirming, Critical
    <3>7. PathOK(u)'
      BY <3>1, <3>2, <3>5 DEF PathOK, Checking, Critical
    <3>8. LastWaits(u)'
      <4> SUFFICES ASSUME pc[u] \in {"reowner", "remark", "condemned"}, depth[u] < Len(path[u])
                   PROVE  WaitsFor(path[u][Len(path[u])].other, path[u][Len(path[u])].lock)'
        BY <3>2 DEF LastWaits
      <4> DEFINE o == path[u][Len(path[u])].other
                 k == path[u][Len(path[u])].lock
      <4>1. /\ path[u] # <<>> /\ owner[k] = u /\ deadlockLock = u
        BY <3>1, <3>6 DEF PathOK, Critical, Confirming
      <4>2. o \in Threads /\ k \in Mutexes
        BY <3>1, <3>4, <3>5, <4>1 DEF PathOK
      <4>3. WaitsFor(o, k)
        BY <3>1 DEF LastWaits
      <4>4. WaitsFor(o, k)'
        BY <3>2, <3>3, <4>1, <4>2, <4>3 DEF WaitsFor
      <4> QED  BY <3>2, <4>4
    <3>9. NoneReports(u)'
      BY <3>1, <3>2, <3>3, <3>4, <3>6 DEF NoneReports
    <3> QED  BY <3>7, <3>8, <3>9
  <2> QED  BY <2>1, <2>2
<1> QED
  BY <1>1, <1>2 DEF Next, Walks

------------------------------------------------------------------------------
(* A cycle of sleeping threads.  As long as no member is interrupted, the one  *)
(* that marked itself last has read nothing but links of the cycle.            *)

\* Each member waits, marked and without a timeout, for a mutex of a member.
Stuck(M) == M # {} /\ \A t \in M :
  /\ pc[t] \in Waiting /\ t \notin interrupted /\ ~timed[t]
  /\ owner[want[t]] \in M

\* There is no smaller such set in it.
Cycle(M) == Stuck(M) /\ \A N \in SUBSET M : Stuck(N) => N = M

\* t is about to find that M is a cycle.
Finds(t, M) ==
  /\ pc[t] \in {"readowner", "readmark", "base", "reowner", "remark", "condemned"}
  /\ \A i \in 1..Len(path[t]) :
       /\ path[t][i].other \in M
       /\ path[t][i].other = owner[LockAt(t, i)]
       /\ i < Len(path[t]) \/ pc[t] # "readmark" =>
            path[t][i].lock = want[path[t][i].other]
  /\ \A i, j \in 1..Len(path[t]) : i # j => path[t][i].other # path[t][j].other

SomebodyFinds == \A M \in SUBSET Threads :
  Cycle(M) /\ Cardinality(M) <= Limit => \E t \in M : Finds(t, M)

\* Whoever waits without a timeout and was not interrupted is marked.
LEMMA Marked ==
  ASSUME Locks, NEW t \in Threads, pc[t] \in Waiting, t \notin interrupted, ~timed[t]
  PROVE  /\ want[t] \in Mutexes /\ saved[t] = NoMark
         /\ waitingFor[t] = Mark(want[t], FALSE) /\ MutexP(waitingFor[t])
         /\ waitingFor[t].lock = want[t]
<1>1. want[t] \in Mutexes /\ saved[t] = NoMark
  BY DEF Locks, WantRight, MarksRight, Waiting, Checking
<1>2. waitingFor[t] = Mark(want[t], timed[t]) /\ timed[t] = FALSE
  BY DEF Locks, TypeOK, MarksRight
<1>3. MutexP(Mark(want[t], FALSE)) /\ Mark(want[t], FALSE).lock = want[t]
  BY <1>1, DeadlockAssumption DEF MutexP, Mark, NoMark
<1> QED  BY <1>1, <1>2, <1>3

\* A thread gets among the waiting by marking itself only.
LEMMA OwnWait ==
  ASSUME IInv, NEW t \in Threads, Step(t) \/ Environment(t), pc'[t] \in Waiting,
         ~SetWaitingFor(t)
  PROVE  pc[t] \in Waiting /\ want'[t] = want[t] /\ timed'[t] = timed[t]
<1> USE DEF IInv, Locks
<1>1. CASE \E m \in Mutexes : TryMutex(t, m)
  BY <1>1 DEF TryMutex, At, Running, Goto, words, marks, walks, bounds, TypeOK, Waiting, Checking
<1>3. CASE Acquire(t)
  BY <1>3 DEF Acquire, At, Running, Goto, words, marks, walks, bounds, TypeOK, Waiting, Checking
<1>4. CASE SetOwner(t)
  BY <1>4, ReturnFacts DEF SetOwner, At, Running, Goto, words, marks, walks, bounds, TypeOK, Waiting, Checking
<1>5. CASE ClearWaitingFor(t)
  BY <1>5, ReturnFacts DEF ClearWaitingFor, At, Running, Goto, words, marks, walks, bounds, SetMark, TypeOK, Waiting, Checking
<1>6. CASE TimeOut(t)
  BY <1>6, ReturnFacts DEF TimeOut, At, Running, Goto, words, marks, walks, bounds, SetMark, TypeOK, Waiting, Checking
<1>7. CASE \E m \in Mutexes : ReleaseOwner(t, m)
  BY <1>7 DEF ReleaseOwner, At, Running, Goto, words, marks, walks, bounds, TypeOK, Waiting, Checking
<1>8. CASE ReleaseWord(t)
  BY <1>8, ReturnFacts DEF ReleaseWord, At, Running, Goto, words, marks, walks, bounds, TypeOK, Waiting, Checking
<1>9. CASE ReadOwner(t)
  BY <1>9 DEF ReadOwner, At, Running, Goto, words, marks, walks, bounds, NoChain, TypeOK, Waiting, Checking
<1>10. CASE ReadMark(t)
  BY <1>10 DEF ReadMark, At, Running, Goto, words, marks, walks, bounds, NoChain, TypeOK, Waiting, Checking
<1>11. CASE GrabDeadlockLock(t)
  BY <1>11 DEF GrabDeadlockLock, At, Running, Goto, words, marks, walks, bounds, TypeOK, Waiting, Checking
<1>12. CASE RecheckOwner(t)
  BY <1>12 DEF RecheckOwner, At, Running, Goto, words, marks, walks, bounds, TypeOK, Waiting, Checking
<1>13. CASE RecheckMark(t)
  BY <1>13 DEF RecheckMark, At, Running, Goto, words, marks, walks, bounds, TypeOK, Waiting, Checking
<1>14. CASE Disclaim(t)
  BY <1>14 DEF Disclaim, At, Running, Goto, words, marks, walks, bounds, SetMark, TypeOK, Waiting, Checking
<1>15. CASE SignalDeadlock(t)
  BY <1>15 DEF SignalDeadlock, At, Running, Goto, words, marks, walks, bounds, TypeOK, Waiting, Checking
<1>16. CASE Handled(t)
  BY <1>16, ReturnFacts DEF Handled, At, Running, Goto, words, marks, walks, bounds, TypeOK, Waiting, Checking
<1>17. CASE EndCheck(t)
  BY <1>17 DEF EndCheck, At, Running, Goto, words, marks, walks, bounds, NoChain, TypeOK, Waiting, Checking
<1>18. CASE EnterHandler(t)
  BY <1>18 DEF EnterHandler, Running, Goto, words, marks, walks, bounds, Interruptible, SetMark, TypeOK, Waiting, Checking
<1>19. CASE LeaveHandler(t)
  BY <1>19 DEF LeaveHandler, At, Running, Goto, words, marks, walks, bounds, SetMark, TypeOK, Waiting, Checking
<1>20. CASE Unwind(t)
  BY <1>20, ReturnFacts DEF Unwind, Running, Goto, words, marks, walks, bounds, Interruptible, SetMark, TypeOK, Waiting, Checking
<1> QED
  BY <1>1, <1>3, <1>4, <1>5, <1>6, <1>7, <1>8, <1>9, <1>10, <1>11, <1>12, <1>13, <1>14, <1>15, <1>16, <1>17, <1>18, <1>19, <1>20 DEF Step, Environment

\* Who was interrupted stays so.
LEMMA InterruptedGrow ==
  ASSUME NEW t \in Threads, Step(t) \/ Environment(t)
  PROVE  interrupted \subseteq interrupted'
BY DEF Step, Environment, bounds, Interruptible, TryMutex, SetWaitingFor, Acquire, SetOwner, ClearWaitingFor, TimeOut, ReleaseOwner, ReleaseWord, ReadOwner, ReadMark, GrabDeadlockLock, RecheckOwner, RecheckMark, Disclaim, SignalDeadlock, Handled, EndCheck, EnterHandler, LeaveHandler, Unwind

\* A thread that becomes an owner does not wait.
LEMMA OwnersChange ==
  ASSUME IInv, NEW t \in Threads, Step(t) \/ Environment(t), NEW k \in Mutexes
  PROVE  owner'[k] \in {owner[k], NoThread} \/ (owner'[k] = t /\ pc'[t] \notin Waiting)
<1> USE DEF IInv, Locks
<1>1. CASE \E m \in Mutexes : TryMutex(t, m)
  BY <1>1 DEF TryMutex, words
<1>2. CASE SetWaitingFor(t)
  BY <1>2 DEF SetWaitingFor, words
<1>3. CASE Acquire(t)
  BY <1>3 DEF Acquire, words
<1>4. CASE SetOwner(t)
  BY <1>4, ReturnFacts DEF SetOwner, Goto, TypeOK, Waiting, Checking
<1>5. CASE ClearWaitingFor(t)
  BY <1>5 DEF ClearWaitingFor, words
<1>6. CASE TimeOut(t)
  BY <1>6 DEF TimeOut, words
<1>7. CASE \E m \in Mutexes : ReleaseOwner(t, m)
  BY <1>7 DEF ReleaseOwner, TypeOK
<1>8. CASE ReleaseWord(t)
  BY <1>8 DEF ReleaseWord, words
<1>9. CASE ReadOwner(t)
  BY <1>9 DEF ReadOwner, words
<1>10. CASE ReadMark(t)
  BY <1>10 DEF ReadMark, words
<1>11. CASE GrabDeadlockLock(t)
  BY <1>11 DEF GrabDeadlockLock, words
<1>12. CASE RecheckOwner(t)
  BY <1>12 DEF RecheckOwner, words
<1>13. CASE RecheckMark(t)
  BY <1>13 DEF RecheckMark, words
<1>14. CASE Disclaim(t)
  BY <1>14 DEF Disclaim, words
<1>15. CASE SignalDeadlock(t)
  BY <1>15 DEF SignalDeadlock, words
<1>16. CASE Handled(t)
  BY <1>16 DEF Handled, words
<1>17. CASE EndCheck(t)
  BY <1>17 DEF EndCheck, words
<1>18. CASE EnterHandler(t)
  BY <1>18 DEF EnterHandler, words
<1>19. CASE LeaveHandler(t)
  BY <1>19 DEF LeaveHandler, words
<1>20. CASE Unwind(t)
  BY <1>20 DEF Unwind, words
<1> QED
  BY <1>1, <1>2, <1>3, <1>4, <1>5, <1>6, <1>7, <1>8, <1>9, <1>10, <1>11, <1>12, <1>13, <1>14, <1>15, <1>16, <1>17, <1>18, <1>19, <1>20 DEF Step, Environment

\* A set gets stuck by the mark of its last member only.
LEMMA StuckBack ==
  ASSUME IInv, NEW r \in Threads, Step(r) \/ Environment(r),
         NEW M \in SUBSET Threads, Stuck(M)', ~(r \in M /\ SetWaitingFor(r))
  PROVE  /\ Stuck(M)
         /\ \A t \in M : want'[t] = want[t] /\ owner'[want[t]] = owner[want[t]]
<1>1. \A t \in M : pc[t] \in Waiting /\ want'[t] = want[t] /\ timed'[t] = timed[t]
  <2> SUFFICES ASSUME NEW t \in M
               PROVE  pc[t] \in Waiting /\ want'[t] = want[t] /\ timed'[t] = timed[t]
    OBVIOUS
  <2>1. pc'[t] \in Waiting
    BY DEF Stuck
  <2>2. CASE t = r
    BY <2>1, <2>2, OwnWait
  <2>3. CASE t # r
    BY <2>1, <2>3, Others
  <2> QED  BY <2>2, <2>3
<1>2. interrupted \subseteq interrupted'
  BY InterruptedGrow
<1>3. \A t \in M : want[t] \in Mutexes
  BY <1>1 DEF IInv, Locks, WantRight, Waiting, Checking
<1>4. \A t \in M : owner'[want[t]] = owner[want[t]]
  <2> SUFFICES ASSUME NEW t \in M PROVE owner'[want[t]] = owner[want[t]]
    OBVIOUS
  <2>1. owner'[want[t]] \in M
    BY <1>1 DEF Stuck
  <2>2. owner'[want[t]] # NoThread
    BY <2>1, DeadlockAssumption
  <2>3. owner'[want[t]] = r => pc'[r] \in Waiting
    BY <2>1 DEF Stuck
  <2> QED  BY <1>3, <2>2, <2>3, OwnersChange
<1>5. Stuck(M)
  BY <1>1, <1>2, <1>4 DEF Stuck
<1> QED  BY <1>1, <1>4, <1>5

\* And so does a cycle.
LEMMA CycleBack ==
  ASSUME IInv, NEW r \in Threads, Step(r) \/ Environment(r),
         NEW M \in SUBSET Threads, Cycle(M)', ~(r \in M /\ SetWaitingFor(r))
  PROVE  Cycle(M)
<1>1. Stuck(M)' /\ \A N \in SUBSET M : Stuck(N)' => N = M
  BY DEF Cycle
<1>2. Stuck(M) /\ \A t \in M : want'[t] = want[t] /\ owner'[want[t]] = owner[want[t]]
  BY <1>1, StuckBack
<1>3. ASSUME NEW N \in SUBSET M, Stuck(N) PROVE N = M
  <2>1. Stuck(N)'
    BY <1>1, <1>2, <1>3 DEF Stuck
  <2> QED  BY <1>1, <2>1
<1> QED  BY <1>2, <1>3 DEF Cycle

------------------------------------------------------------------------------
(* The walk around a cycle.                                                    *)

\* The next link is one of the cycle, and either closes it or is a new one.
LEMMA NextLink ==
  ASSUME IInv, NEW M \in SUBSET Threads, Cycle(M), NEW t \in M, Finds(t, M),
         pc[t] = "readowner"
  PROVE  /\ owner[InnerLock(t)] \in M
         /\ owner[InnerLock(t)] # t =>
              \A i \in 1..Len(path[t]) : path[t][i].other # owner[InnerLock(t)]
<1> DEFINE n == Len(path[t])
           o == owner[InnerLock(t)]
<1>1. n \in Nat
  BY DEF IInv, Locks, TypeOK
<1>2. InnerLock(t) = IF n = 0 THEN want[t] ELSE path[t][n].lock
  BY <1>1 DEF InnerLock, LockAt
<1>3. \A i \in 1..n : path[t][i].other \in M /\ path[t][i].lock = want[path[t][i].other]
  BY DEF Finds
<1>4. o \in M
  <2>1. CASE n = 0
    BY <1>2, <2>1 DEF Cycle, Stuck
  <2>2. CASE n # 0
    <3>1. n \in 1..n
      BY <1>1, <2>2
    <3> QED  BY <1>2, <1>3, <2>2, <3>1 DEF Cycle, Stuck
  <2> QED  BY <2>1, <2>2
<1>5. ASSUME o # t, NEW i \in 1..n, path[t][i].other = o PROVE FALSE
  <2> DEFINE N == {path[t][j].other : j \in i..n}
  <2>1. i \in i..n /\ i..n \subseteq 1..n /\ n \in i..n /\ n # 0
    BY <1>1
  <2>2. N \subseteq M
    BY <1>3, <2>1
  <2>3. t \notin N
    BY <2>1 DEF IInv, Walks, PathOK
  <2>4. \A j \in i..n : owner[want[path[t][j].other]] \in N
    <3> SUFFICES ASSUME NEW j \in i..n PROVE owner[want[path[t][j].other]] \in N
      OBVIOUS
    <3>1. path[t][j].lock = want[path[t][j].other]
      BY <1>3, <2>1
    <3>2. CASE j = n
      <4>1. owner[path[t][j].lock] = o
        BY <1>2, <2>1, <3>2
      <4> QED  BY <1>5, <2>1, <3>1, <4>1
    <3>3. CASE j # n
      <4>1. j + 1 \in i..n /\ j + 1 \in 1..n /\ j + 1 # 1 /\ (j + 1) - 1 = j
        BY <1>1, <3>3
      <4>2. path[t][j + 1].other = owner[path[t][j].lock]
        BY <4>1 DEF Finds, LockAt
      <4> QED  BY <3>1, <4>1, <4>2
    <3> QED  BY <3>2, <3>3
  <2>5. N # {}
    BY <2>1
  <2>6. Stuck(N)
    BY <2>2, <2>4, <2>5 DEF Stuck, Cycle
  <2> QED
    BY <2>2, <2>3, <2>6 DEF Cycle
<1> QED  BY <1>4, <1>5

\* A walk around a cycle is shorter than the cycle.
LEMMA ShortWalk ==
  ASSUME IInv, NEW M \in SUBSET Threads, NEW t \in M, Finds(t, M)
  PROVE  Len(path[t]) < Cardinality(M)
<1> DEFINE n == Len(path[t])
           f == [i \in 1..n |-> path[t][i].other]
<1>1. n \in Nat
  BY DEF IInv, Locks, TypeOK
<1>2. IsFiniteSet(M) /\ IsFiniteSet(M \ {t}) /\ Cardinality(M \ {t}) = Cardinality(M) - 1
  BY DeadlockAssumption, FS_Subset, FS_RemoveElement
<1>3. \A i \in 1..n : path[t][i].other \in M \ {t}
  BY DEF Finds, IInv, Walks, PathOK
<1>4. f \in Injection(1..n, M \ {t})
  BY <1>3 DEF Finds, Injection, IsInjective
<1>5. n <= Cardinality(M \ {t})
  <2>1. Cardinality(1..n) = n
    BY <1>1, FS_Interval
  <2> QED  BY <1>2, <1>4, <2>1, FS_Injection
<1>6. Cardinality(M) \in Nat
  BY <1>2, FS_CardinalityType
<1> QED  BY <1>1, <1>2, <1>5, <1>6

\* A step of the thread that is about to find the cycle takes it further.
LEMMA FindsOn ==
  ASSUME IInv, NEW M \in SUBSET Threads, Cycle(M), Cardinality(M) <= Limit,
         NEW t \in M, Finds(t, M), Step(t) \/ Environment(t), Stuck(M)'
  PROVE  Finds(t, M)'
<1> DEFINE n == Len(path[t])
<1> USE DeadlockAssumption DEF IInv, Locks
<1>1. t \in Threads /\ Running(t) /\ PathOK(t)
  BY Marked DEF Stuck, Cycle, Running, Walks
<1>2. /\ pc[t] \in {"readowner", "readmark", "base", "reowner", "remark", "condemned"}
      /\ pc'[t] \in Waiting /\ t \notin interrupted'
  BY DEF Finds, Stuck
<1>3. n \in Nat /\ \A i \in 1..n : path[t][i].other \in M /\ path[t][i].other # t
  BY <1>1 DEF TypeOK, Finds, PathOK
<1>4. CASE ReadOwner(t)
  <2> DEFINE other == owner[InnerLock(t)]
  <2>1. /\ pc[t] = "readowner" /\ owner' = owner /\ want' = want
    BY <1>4 DEF ReadOwner, At, words
  <2>2. other \in M /\ (other # t => \A i \in 1..n : path[t][i].other # other)
    BY <2>1, NextLink
  <2>3. n # Limit
    <3>1. IsFiniteSet(M)
      BY FS_Subset
    <3>2. Cardinality(M) \in Nat
      BY <3>1, FS_CardinalityType
    <3> QED  BY <1>3, <3>2, ShortWalk
  <2>4. other # NoThread
    BY <2>2
  <2>5. CASE other = t
    <3>1. pc'[t] = "base" /\ path' = path
      BY <1>1, <1>4, <2>3, <2>4, <2>5 DEF ReadOwner, Goto, walks, TypeOK
    <3> QED
      BY <2>1, <3>1 DEF Finds, LockAt
  <2>6. CASE other # t
    <3> DEFINE f == [other |-> other, lock |-> NoMutex]
    <3>1. pc'[t] = "readmark" /\ path'[t] = Append(path[t], f)
      BY <1>1, <1>4, <2>3, <2>4, <2>6 DEF ReadOwner, Goto, TypeOK
    <3>2. f \in Frames /\ path[t] \in Seq(Frames)
      BY <2>2 DEF Frames, TypeOK
    <3>3. /\ Len(path'[t]) = n + 1
          /\ \A i \in 1..n : path'[t][i] = path[t][i]
          /\ path'[t][n + 1] = f
      BY <3>1, <3>2
    <3> HIDE DEF f
    <3>4. f.other = other
      BY DEF f
    <3>5. \A i \in 1..(n + 1) : LockAt(t, i)' = LockAt(t, i)
      BY <1>3, <2>1, <3>3 DEF LockAt
    <3>6. \A i \in 1..(n + 1) : /\ path'[t][i].other \in M
                                /\ path'[t][i].other = owner'[LockAt(t, i)']
                                /\ i # n + 1 => path'[t][i].lock = want'[path'[t][i].other]
      <4> SUFFICES ASSUME NEW i \in 1..(n + 1)
                   PROVE  /\ path'[t][i].other \in M
                          /\ path'[t][i].other = owner'[LockAt(t, i)']
                          /\ i # n + 1 => path'[t][i].lock = want'[path'[t][i].other]
        OBVIOUS
      <4>1. CASE i = n + 1
        <5>1. path'[t][i].other = other
          BY <3>3, <3>4, <4>1
        <5> QED  BY <2>1, <2>2, <3>5, <4>1, <5>1 DEF InnerLock
      <4>2. CASE i # n + 1
        <5>1. i \in 1..n /\ path'[t][i] = path[t][i]
          BY <1>3, <3>3, <4>2
        <5> QED  BY <2>1, <3>5, <5>1 DEF Finds
      <4> QED  BY <4>1, <4>2
    <3>7. \A i, j \in 1..(n + 1) : i # j => path'[t][i].other # path'[t][j].other
      <4>1. \A i, j \in 1..n : i # j => path[t][i].other # path[t][j].other
        BY DEF Finds
      <4>2. \A i \in 1..n : path'[t][i].other = path[t][i].other /\ path[t][i].other # other
        BY <2>2, <2>6, <3>3
      <4>3. path'[t][n + 1].other = other
        BY <3>3, <3>4
      <4>4. \A i \in 1..(n + 1) : i = n + 1 \/ i \in 1..n
        BY <1>3
      <4> QED
        <5> SUFFICES ASSUME NEW i \in 1..(n + 1), NEW j \in 1..(n + 1), i # j
                     PROVE  path'[t][i].other # path'[t][j].other
          OBVIOUS
        <5>1. CASE i \in 1..n /\ j \in 1..n
          BY <4>1, <4>2, <5>1
        <5>2. CASE i = n + 1 /\ j \in 1..n
          BY <4>2, <4>3, <5>2
        <5>3. CASE i \in 1..n /\ j = n + 1
          BY <4>2, <4>3, <5>3
        <5> QED  BY <4>4, <5>1, <5>2, <5>3
    <3> QED
      BY <1>3, <3>1, <3>3, <3>6, <3>7 DEF Finds
  <2> QED  BY <2>5, <2>6
<1>5. CASE ReadMark(t)
  <2> DEFINE o    == path[t][n].other
             mark == waitingFor[o]
  <2>1. /\ pc[t] = "readmark" /\ owner' = owner /\ want' = want
    BY <1>5 DEF ReadMark, At, words
  <2>2. n \in 1..n /\ o \in M
    BY <1>1, <1>3, <2>1 DEF PathOK, TypeOK
  <2>3. MutexP(mark) /\ mark.lock = want[o]
    BY <2>2, Marked DEF Cycle, Stuck
  <2>4. path[t][n] \in Frames /\ path[t] \in Seq(Frames)
    BY <1>1, <2>2, OthersOnPath DEF TypeOK
  <2>5. /\ pc'[t] = "readowner"
        /\ path'[t] = [path[t] EXCEPT ![n] = [path[t][n] EXCEPT !.lock = mark.lock]]
    BY <1>1, <1>5, <2>3 DEF ReadMark, Goto, TypeOK
  <2>6. /\ Len(path'[t]) = n
        /\ path'[t][n].lock = mark.lock /\ path'[t][n].other = o
        /\ \A i \in 1..n : i # n => path'[t][i] = path[t][i]
    BY <2>2, <2>4, <2>5 DEF Frames
  <2>7. \A i \in 1..n : LockAt(t, i)' = LockAt(t, i)
    BY <1>3, <2>1, <2>6 DEF LockAt
  <2>8. \A i \in 1..n : path'[t][i].other = path[t][i].other
    BY <2>6
  <2>9. \A i \in 1..n : path'[t][i].lock = want'[path'[t][i].other]
    <3> SUFFICES ASSUME NEW i \in 1..n PROVE path'[t][i].lock = want'[path'[t][i].other]
      OBVIOUS
    <3>1. CASE i = n
      BY <2>1, <2>3, <2>6, <3>1
    <3>2. CASE i # n
      <4>1. path[t][i].lock = want[path[t][i].other]
        BY <1>3, <3>2 DEF Finds
      <4> QED  BY <2>1, <2>6, <3>2, <4>1
    <3> QED  BY <3>1, <3>2
  <2>10. \A i \in 1..n : path'[t][i].other \in M /\ path'[t][i].other = owner'[LockAt(t, i)']
    BY <2>1, <2>7, <2>8 DEF Finds
  <2>11. \A i, j \in 1..n : i # j => path'[t][i].other # path'[t][j].other
    BY <2>8 DEF Finds
  <2>12. Len(path'[t]) = n
    BY <2>6
  <2> QED
    BY <2>5, <2>9, <2>10, <2>11, <2>12 DEF Finds
<1>6. CASE GrabDeadlockLock(t)
  <2>1. /\ pc[t] = "base" /\ pc'[t] = "reowner"
        /\ UNCHANGED <<path, owner, want>>
    BY <1>1, <1>6 DEF GrabDeadlockLock, At, Goto, words, TypeOK
  <2> QED  BY <2>1 DEF Finds, LockAt
<1>7. CASE RecheckOwner(t)
  <2>1. /\ pc[t] = "reowner" /\ UNCHANGED <<path, owner, want>>
    BY <1>7 DEF RecheckOwner, At, words, walks
  <2>2. depth[t] \in 1..n
    BY <1>1, <2>1 DEF PathOK
  <2>3. owner[LockAt(t, depth[t])] = path[t][depth[t]].other
    BY <2>2 DEF Finds
  <2>4. pc'[t] = "remark"
    BY <1>1, <1>7, <2>3 DEF RecheckOwner, Goto, TypeOK
  <2> QED  BY <2>1, <2>4 DEF Finds, LockAt
<1>8. CASE RecheckMark(t)
  <2>1. /\ pc[t] = "remark" /\ UNCHANGED <<path, owner, want>>
    BY <1>8 DEF RecheckMark, At, words
  <2>2. depth[t] \in 1..n
    BY <1>1, <2>1 DEF PathOK
  <2>3. /\ path[t][depth[t]].other \in M
        /\ path[t][depth[t]].lock = want[path[t][depth[t]].other]
    BY <2>1, <2>2 DEF Finds
  <2>4. waitingFor[path[t][depth[t]].other] = Mark(path[t][depth[t]].lock, FALSE)
    BY <2>3, Marked DEF Cycle, Stuck
  <2>5. pc'[t] \in {"condemned", "reowner"}
    BY <1>1, <1>8, <2>4 DEF RecheckMark, Goto, TypeOK
  <2> QED  BY <2>1, <2>5 DEF Finds, LockAt
<1>9. CASE Disclaim(t)
  <2>1. pc'[t] = "disclaimed"
    BY <1>1, <1>9 DEF Disclaim, Goto, TypeOK
  <2> QED  BY <1>2, <2>1 DEF Waiting
<1>10. ~EnterHandler(t) /\ ~Unwind(t) /\ ~LeaveHandler(t)
  BY <1>1, <1>2 DEF EnterHandler, Unwind, LeaveHandler, Interruptible
<1>11. /\ \A m \in Mutexes : ~TryMutex(t, m) /\ ~ReleaseOwner(t, m)
       /\ ~SetWaitingFor(t) /\ ~Acquire(t) /\ ~SetOwner(t) /\ ~ClearWaitingFor(t)
       /\ ~ReleaseWord(t) /\ ~SignalDeadlock(t) /\ ~EndCheck(t) /\ ~TimeOut(t)
       /\ ~Handled(t)
  BY <1>2 DEF TryMutex, ReleaseOwner, SetWaitingFor, Acquire, SetOwner, ClearWaitingFor,
              ReleaseWord, SignalDeadlock, EndCheck, TimeOut, Handled, At
<1> QED
  BY <1>4, <1>5, <1>6, <1>7, <1>8, <1>9, <1>10, <1>11 DEF Step, Environment

\* Each step leaves a member of every cycle that is about to find it.
LEMMA SomebodyNext == IInv /\ IInv' /\ SomebodyFinds /\ [Next]_vars => SomebodyFinds'
<1> SUFFICES ASSUME IInv, IInv', SomebodyFinds, [Next]_vars,
                    NEW M \in SUBSET Threads, Cycle(M)', Cardinality(M) <= Limit
             PROVE  \E t \in M : Finds(t, M)'
  BY DEF SomebodyFinds
<1>1. CASE UNCHANGED vars
  <2>1. Cycle(M)
    BY <1>1 DEF vars, Cycle, Stuck
  <2>2. PICK t \in M : Finds(t, M)
    BY <2>1 DEF SomebodyFinds
  <2>3. Finds(t, M)'
    BY <1>1, <2>2 DEF vars, Finds, LockAt
  <2> QED  BY <2>3
<1>2. ASSUME NEW r \in Threads, Step(r) \/ Environment(r)
      PROVE  \E t \in M : Finds(t, M)'
  <2>1. CASE r \in M /\ SetWaitingFor(r)
    <3>1. path[r] = <<>> /\ path' = path
      BY <2>1 DEF IInv, Walks, PathOK, SetWaitingFor, At, walks, Checking
    <3>2. pc'[r] = "readowner"
      <4>1. ~timed'[r]
        BY <2>1 DEF Cycle, Stuck
      <4> QED  BY <2>1, <4>1 DEF SetWaitingFor, Goto, IInv, Locks, TypeOK
    <3>3. Finds(r, M)'
      BY <3>1, <3>2 DEF Finds
    <3> QED  BY <2>1, <3>3
  <2>2. CASE ~(r \in M /\ SetWaitingFor(r))
    <3>1. Cycle(M)
      BY <1>2, <2>2, CycleBack
    <3>2. Stuck(M)'
      BY DEF Cycle
    <3>3. \A t \in M : want'[t] = want[t] /\ owner'[want[t]] = owner[want[t]]
      BY <1>2, <2>2, <3>2, StuckBack
    <3>4. PICK t \in M : Finds(t, M)
      BY <3>1 DEF SomebodyFinds
    <3>5. CASE t = r
      BY <1>2, <3>1, <3>2, <3>4, <3>5, FindsOn
    <3>6. CASE t # r
      <4> DEFINE n == Len(path[t])
      <4>1. pc'[t] = pc[t] /\ path'[t] = path[t]
        BY <1>2, <3>6, Others
      <4>2. n \in Nat
        BY DEF IInv, Locks, TypeOK
      <4>3. \A i \in 1..n : LockAt(t, i)' = LockAt(t, i) /\ owner'[LockAt(t, i)] = owner[LockAt(t, i)]
        <5> SUFFICES ASSUME NEW i \in 1..n
                     PROVE  LockAt(t, i)' = LockAt(t, i) /\ owner'[LockAt(t, i)] = owner[LockAt(t, i)]
          OBVIOUS
        <5>1. CASE i = 1
          BY <3>3, <5>1 DEF LockAt
        <5>2. CASE i # 1
          <6>1. i - 1 \in 1..n /\ i - 1 < n
            BY <4>2, <5>2
          <6>2. path[t][i - 1].other \in M /\ path[t][i - 1].lock = want[path[t][i - 1].other]
            BY <3>4, <6>1 DEF Finds
          <6> QED  BY <3>3, <4>1, <5>2, <6>2 DEF LockAt
        <5> QED  BY <5>1, <5>2
      <4>4. Finds(t, M)'
        BY <3>3, <3>4, <4>1, <4>3 DEF Finds
      <4> QED  BY <4>4
    <3> QED  BY <3>5, <3>6
  <2> QED  BY <2>1, <2>2
<1> QED
  BY <1>1, <1>2 DEF Next

------------------------------------------------------------------------------
(* The theorems.                                                               *)

\* The program starts in the invariant.
LEMMA InitInductive == Init => IInv /\ SomebodyFinds
<1> SUFFICES ASSUME Init PROVE IInv /\ SomebodyFinds
  OBVIOUS
<1> USE DeadlockAssumption
<1>1. TypeOK
  <2>1. <<>> \in Seq(Frames) /\ Len(<<>>) = 0 /\ 0 \in 0..Limit /\ 0 \in 0..MaxAttempts
    OBVIOUS
  <2>2. NoMark \in Marks
    BY MarkFacts
  <2> QED  BY <2>1, <2>2 DEF Init, TypeOK, Places
<1>2. WantRight /\ NotMine /\ WordsRight /\ HeldRight /\ LockRight
  BY DEF Init, WantRight, NotMine, WordsRight, HeldRight, LockRight, Critical, Checking
<1>3. MarksRight
  BY DEF Init, MarksRight, Waiting, Checking
<1>4. Walks
  BY DEF Init, Walks, PathOK, LastWaits, NoneReports, Checking, Critical, Confirming
<1>5. SomebodyFinds
  BY DEF Init, SomebodyFinds, Cycle, Stuck, Waiting, Checking
<1> QED  BY <1>1, <1>2, <1>3, <1>4, <1>5 DEF IInv, Locks

\* The program never leaves the invariant.
THEOREM Inductive == Safe => [](IInv /\ SomebodyFinds)
<1>1. IInv /\ [Next]_vars => IInv'
  BY LocksNext, WalksNext DEF IInv
<1> QED  BY InitInductive, <1>1, SomebodyNext, PTL DEF Safe

\* Every variable stays in its type: a walk never visits more locks than its
\* limit, and never reads a frame that it does not have.
THEOREM TypeCorrect == Safe => []TypeOK
<1>1. IInv => TypeOK
  BY DEF IInv, Locks
<1> QED  BY <1>1, Inductive, PTL

\* When a thread is committed to signalling, the last thread of its chain waits
\* for a mutex that the reporter has, or was interrupted.
THEOREM SomebodyIsHelped == Safe => []ReporterIsWaitedFor
<1>1. IInv => ReporterIsWaitedFor
  <2> SUFFICES ASSUME IInv, NEW t \in Threads, pc[t] = "condemned"
               PROVE  LET last == path[t][Len(path[t])].other
                      IN  Blocked(last, {t}) \/ last \in interrupted
    BY DEF ReporterIsWaitedFor
  <2> DEFINE n == Len(path[t])
             o == path[t][n].other
             k == path[t][n].lock
  <2>1. PathOK(t) /\ LastWaits(t)
    BY DEF IInv, Walks
  <2>2. n \in 1..n /\ depth[t] < n /\ owner[k] = t
    BY <2>1 DEF IInv, Locks, TypeOK, PathOK, Critical
  <2>3. WaitsFor(o, k)
    BY <2>1, <2>2 DEF LastWaits
  <2>4. k \in Mutexes
    BY <2>1, <2>2 DEF PathOK
  <2>5. holder[k] = t
    BY <2>2, <2>4, DeadlockAssumption DEF IInv, Locks, WordsRight
  <2> QED
    BY <2>3, <2>5 DEF WaitsFor, Blocked, Waiting
<1> QED  BY <1>1, Inductive, PTL

\* Who is about to signal has nobody on its chain who handles a report already.
THEOREM ReportedOnce == Safe => []OneReporter
<1>1. IInv => OneReporter
  BY DEF IInv, Walks, PathOK, NoneReports, Confirming, OneReporter
<1> QED  BY <1>1, Inductive, PTL

\* A set that is stuck has a cycle in it.
LEMMA CycleWithin ==
  ASSUME NEW S \in SUBSET Threads, Stuck(S)
  PROVE  \E M \in SUBSET S : Cycle(M)
<1> DEFINE T == {N \in SUBSET S : Stuck(N)}
<1>1. IsFiniteSet(S)
  BY DeadlockAssumption, FS_Subset
<1>2. T \subseteq FiniteSubsetsOf(S) /\ S \in T
  BY <1>1, FS_Subset DEF FiniteSubsetsOf
<1>3. IsWellFoundedOn(StrictSubsetOrdering(S), FiniteSubsetsOf(S))
  BY FS_StrictSubsetOrderingWellFounded
<1> HIDE DEF T
<1>4. PICK M \in T : \A N \in T : <<N, M>> \notin StrictSubsetOrdering(S)
  BY <1>2, <1>3, WFMin
<1>5. ASSUME NEW N \in SUBSET M, Stuck(N) PROVE N = M
  <2>1. N \in T /\ M \in SUBSET S
    BY <1>5 DEF T
  <2>2. N # M => <<N, M>> \in StrictSubsetOrdering(S)
    BY <2>1 DEF StrictSubsetOrdering
  <2> QED  BY <1>4, <2>1, <2>2
<1> QED  BY <1>4, <1>5 DEF T, Cycle

\* A deadlock of at most Limit threads goes unreported only if an interrupt hid
\* the mark of one of them.
THEOREM DeadlocksAreReported == Safe => []DeadlockReportedUnlessHidden
<1>1. IInv /\ SomebodyFinds => DeadlockReportedUnlessHidden
  <2> SUFFICES ASSUME IInv, SomebodyFinds, NEW S \in SUBSET Threads, Silent(S),
                      Cardinality(S) <= Limit, S \cap interrupted = {}
               PROVE  FALSE
    BY DEF DeadlockReportedUnlessHidden
  <2>1. \A t \in S : pc[t] = "acquire" /\ ~timed[t] /\ holder[want[t]] \in S
    BY DEF Silent, Deadlocked, Blocked
  <2>2. \A t \in S : owner[want[t]] = holder[want[t]]
    <3>1. \A t \in S : want[t] \in Mutexes
      BY <2>1 DEF IInv, Locks, WantRight
    <3> QED  BY <2>1, <3>1 DEF IInv, Locks, WordsRight
  <2>3. Stuck(S)
    BY <2>1, <2>2 DEF Stuck, Waiting, Silent, Deadlocked
  <2>4. PICK M \in SUBSET S : Cycle(M)
    BY <2>3, CycleWithin
  <2>5. Cardinality(M) <= Limit
    <3>1. IsFiniteSet(S) /\ IsFiniteSet(M)
      BY DeadlockAssumption, FS_Subset
    <3>2. Cardinality(M) <= Cardinality(S) /\ Cardinality(M) \in Nat /\ Cardinality(S) \in Nat
      BY <3>1, FS_Subset, FS_CardinalityType
    <3> QED  BY <3>2, DeadlockAssumption
  <2>6. PICK t \in M : Finds(t, M)
    BY <2>4, <2>5 DEF SomebodyFinds
  <2> QED  BY <2>1, <2>6 DEF Finds
<1> QED  BY <1>1, Inductive, PTL
==============================================================================
