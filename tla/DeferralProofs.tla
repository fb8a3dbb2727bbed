---------------------------- MODULE DeferralProofs ----------------------------
(* Proofs about Deferral for stacks of any depth.                              *)
(*                                                                             *)
(* The invariant says of every frame what it can lie on and in what state it   *)
(* was pushed, so that the bindings and the mask that its end restores are     *)
(* the right ones for the place it goes back to; and of the thread's present   *)
(* place which of the things put off can be there.                             *)
EXTENDS Deferral, SequenceTheorems, WellFoundedInduction, TLAPS

\* The bindings that a thread starts with; what lies under the last frame.
Start  == [ie |-> TRUE, awi |-> TRUE, inhibit |-> FALSE, inwg |-> FALSE,
           unb |-> FALSE]
Bottom == [k |-> "none", dyn |-> Start, mask |-> {}, ret |-> "run", x |-> ""]

\* The frame of s with n - 1 others on it.
Nth(s, n) == IF n \in 1..Len(s) THEN s[n] ELSE Bottom

\* The stack s with f pushed, with the top popped, and with m frames dropped.
Cons(f, s) == <<f>> \o s
Rest(s)    == Tail(s)
Drop(s, m) == SubSeq(s, m + 1, Len(s))

\* The bindings in WITHOUT-INTERRUPTS, in WITHOUT-GCING, and in a handler.
NoInts(d)    == [d EXCEPT !.ie = FALSE, !.awi = FALSE]
Inside(d)    == [d EXCEPT !.inwg = TRUE, !.ie = FALSE, !.awi = FALSE,
                          !.inhibit = TRUE]
InHandler(d) == [d EXCEPT !.ie = FALSE, !.unb = TRUE]

\* What holds of the bindings everywhere.
Sane(d) ==
  /\ d.inhibit => d.inwg /\ ~d.ie /\ ~d.awi
  /\ d.ie => d.awi
  /\ d.awi => d.ie \/ d.unb

\* The WITHOUT-GCING of SUB-GC.
OfGC(g) == g.k = "wg" /\ g.ret = "gcAfter"

\* In maybe_gc, which blocks deferrable signals, on g with h under it.
InMaybeGC(g, h) == \/ g.k = "gc" /\ g.ret = "maybe_gc"
                   \/ OfGC(g) /\ h.k = "gc" /\ h.ret = "maybe_gc"

MaskIf(b) == IF b THEN {"def"} ELSE {}

\* The bindings d are those of Lisp code on frame g.
InLisp(d, g) ==
  /\ Sane(d)
  /\ d.ie => ~d.unb
  /\ g.k \notin {"gc", "pend"}
  /\ g.k = "none" => d = Start
  /\ g.k = "wi" => d = NoInts(g.dyn)
  /\ g.k = "wg" => g.ret = "run" /\ d = Inside(g.dyn)
  /\ g.k = "sig" => d = InHandler(g.dyn)
  /\ g.k = "post" => d = g.dyn
  /\ g.k = "with" =>
       /\ d.inhibit = g.dyn.inhibit /\ d.inwg = g.dyn.inwg
       /\ g.dyn.ie => d.ie
       /\ g.x = "block" => g.dyn.unb /\ ~d.unb /\ d.ie
       /\ g.x # "block" => d.unb = g.dyn.unb

\* At place p with bindings d, on frame g.
At(p, d, g) ==
  /\ p \in {"run", "paTrap", "wiCheck", "wiTrap", "withTrap"} => InLisp(d, g)
  /\ p \in {"wiCheck", "wiTrap", "withTrap"} => d.ie
  /\ p = "paTrap" => ~d.inhibit
  /\ p = "withEnter" =>
       /\ g.k = "with" /\ g.x = "" /\ Sane(d) /\ d.ie
       /\ d.inhibit = g.dyn.inhibit /\ d.inwg = g.dyn.inwg /\ d.unb = g.dyn.unb
  /\ p \in {"wgLeave", "gcTry"} => OfGC(g) /\ d = Inside(g.dyn)
  /\ p = "wgOpen" => g.k = "wg" /\ d = [Inside(g.dyn) EXCEPT !.inhibit = FALSE]
  /\ p \in {"wgCheck", "wgTrap", "wgUnbind"} =>
       g.k = "wg" /\ d = [g.dyn EXCEPT !.inwg = TRUE]
  /\ p \in {"gcStart", "gcCheck", "gcTrap", "gcRet"} => g.k = "gc" /\ d = g.dyn
  /\ p = "gcTrap" => d.ie /\ g.ret = "run"
  /\ p \in {"gcEnter", "gcAfter"} => g.k = "gc" /\ d = NoInts(g.dyn)
  /\ p \in {"hCheck", "hRet", "throwCheck", "throwTrap", "land"} =>
       g.k = "sig" /\ d = g.dyn
  /\ p = "throw" => g.k = "sig" /\ d = InHandler(g.dyn)
  /\ p \in {"pendRest", "pendEnd"} => g.k = "pend" /\ d = g.dyn
  /\ p # "hTrap"

\* Where a deferrable signal may be handled at once.
Interruptible == {"run", "paTrap", "wiCheck", "withEnter", "wgCheck", "wgTrap",
                  "wgUnbind", "gcStart", "gcCheck", "gcRet", "throwCheck", "land"}

\* Frame f can lie on g, and that on h.
Fits(f, g, h) ==
  /\ f.k = "none" => FALSE
  /\ f.k \in {"wi", "with"} => f.ret = "run" /\ f.mask = {} /\ InLisp(f.dyn, g)
  /\ f.k = "with" => f.x \in {"", "block"}
  /\ f.k = "wg" =>
       /\ ~f.dyn.inhibit /\ f.mask = {}
       /\ \/ f.ret = "run" /\ InLisp(f.dyn, g)
          \/ f.ret = "gcAfter" /\ g.k = "gc" /\ f.dyn = NoInts(g.dyn)
  /\ f.k = "sig" =>
       /\ f.dyn.ie /\ ~f.dyn.unb /\ Sane(f.dyn)
       /\ \/ /\ f.mask = {} /\ f.ret \in Interruptible
             /\ At(f.ret, f.dyn, g) /\ ~InMaybeGC(g, h)
          \/ /\ f.mask = All /\ f.ret = "pendEnd"
             /\ g.k = "pend" /\ f.dyn = g.dyn /\ g.mask = {} /\ ~OfGC(h)
  /\ f.k = "pend" =>
       /\ f.ret \in {"run", "wgUnbind", "gcRet", "land"}
       /\ At(f.ret, f.dyn, g) /\ ~f.dyn.inhibit
       /\ ~(g.k = "gc" /\ g.ret = "maybe_gc")
       /\ f.x \in {"", "handler"}
       /\ f.mask = {"def"} \/ (f.mask = {} /\ ~f.dyn.unb /\ ~InMaybeGC(g, h))
  /\ f.k = "gc" =>
       /\ ~f.dyn.inhibit /\ f.mask = {} /\ Sane(f.dyn)
       /\ \/ f.ret = "run" /\ InLisp(f.dyn, g)
          \/ /\ f.ret = "maybe_gc" /\ g.k = "pend" /\ ~OfGC(h)
             /\ f.dyn = IF g.x = "handler" THEN NoInts(g.dyn) ELSE g.dyn
             /\ g.mask = MaskIf(g.x = "handler" \/ g.dyn.unb)
             /\ f.x # "1"
  /\ f.k = "post" =>
       /\ f.ret = "pendRest" /\ f.mask = {} /\ g.k = "pend" /\ ~OfGC(h)
       /\ f.dyn = g.dyn /\ f.dyn.ie /\ ~f.dyn.inhibit
       /\ g.mask = {} /\ g.x = ""

\* How many frames there can be with f: those that the program and signals
\* push leave room for what the runtime then does.
Height(f) == MaxDepth +
  (IF f.k = "pend" THEN 3
   ELSE IF OfGC(f) \/ f.mask = All THEN 2
   ELSE IF f.k = "post" \/ f.ret = "maybe_gc" THEN 1 ELSE 0)

StackRight(s) ==
  \A n \in 1..Len(s) : /\ Fits(Nth(s, n), Nth(s, n + 1), Nth(s, n + 2))
                       /\ Len(s) - n + 1 <= Height(Nth(s, n))

\* The frames that the thread's place depends on.
F1 == Nth(stack, 1)
F2 == Nth(stack, 2)
F3 == Nth(stack, 3)
F4 == Nth(stack, 4)

PlaceRight == At(pc, dyn, F1)

Stopping == gc.pending \/ gc.stop
InPA     == (pc = "run" /\ pa) \/ pc = "paTrap"

\* What is put off, and why.
DataRight ==
  /\ pa => pc = "run"
  /\ ip => data.handler
  /\ data.handler => ~data.gbd /\ data.mask = {}
  /\ data.gbd => pai /\ InPA /\ data.mask = MaskIf(dyn.unb)
  /\ pai => /\ Stopping \/ data.handler
            /\ data.handler \/ data.gbd
            /\ ~dyn.inhibit
            /\ InPA \/ pc \in {"pendRest", "pendEnd"}

\* A collection is put off in WITHOUT-GCING and pseudo-atomic sections, until
\* their ends have seen it.
CollectionRight ==
  /\ Stopping /\ ~dyn.inhibit =>
       \/ pai /\ InPA
       \/ pc \in {"wgOpen", "wgCheck", "wgTrap"}
       \/ /\ pc \in {"gcStart", "gcEnter"}
          /\ F1.ret = "maybe_gc" /\ ~gc.stop
  /\ OfGC(F1) /\ pc # "gcTry" => ~gc.pending
  /\ gc.stop => other = "signalled" /\ "gc" \notin sigs
  /\ "gc" \in sigs => other = "signalled"

\* The signal mask at the thread's place.
MaskFits ==
  mask = IF pc \in {"pendRest", "pendEnd"} THEN All
         ELSE IF pc \in {"hCheck", "hRet"} THEN {"def"}
         ELSE IF pc = "throw" THEN MaskIf(data.handler)
         ELSE MaskIf(data.handler \/ data.gbd \/ dyn.unb \/ InMaybeGC(F1, F2))

\* A signal is put off while interrupts are off, until the end of the region
\* or section has seen it; *INTERRUPT-PENDING* tells the region's end of it.
SignalRight ==
  /\ data.handler /\ dyn.ie =>
       \/ pai /\ InPA
       \/ pc \in {"wiCheck", "wiTrap", "withEnter", "withTrap", "wgCheck", "wgTrap",
                  "gcCheck", "gcTrap", "throwCheck", "throwTrap", "pendRest"}
  /\ data.handler /\ dyn.unb => pc = "throw"
  /\ data.handler => pc \notin {"hCheck", "hRet", "land"}
  /\ pc \in {"wiTrap", "withTrap", "gcTrap", "throwTrap"} => ip
  /\ data.handler /\ ~ip =>
       \/ pai /\ dyn.ie /\ InPA
       \/ pc = "pendRest" /\ dyn.ie
       \/ F1.k = "gc" /\ F1.ret = "maybe_gc" /\ F2.dyn.ie
       \/ OfGC(F1) /\ F2.ret = "maybe_gc" /\ F3.dyn.ie
       \/ F1.k = "pend" /\ OfGC(F2) /\ F3.ret = "maybe_gc" /\ F4.dyn.ie

\* What interrupt_handle_pending noted before a collection is still so.
NoteRight ==
  /\ pc \in {"pendRest", "pendEnd"} =>
       F1.mask = MaskIf(data.handler \/ dyn.unb \/ InMaybeGC(F2, F3))
  /\ pc = "pendRest" => data.handler <=> (F1.x = "handler")
  /\ F1.k = "gc" /\ F1.ret = "maybe_gc" => data.handler <=> (F2.x = "handler")
  /\ OfGC(F1) /\ F2.ret = "maybe_gc" => data.handler <=> (F3.x = "handler")
  /\ F1.k = "pend" /\ OfGC(F2) /\ F3.ret = "maybe_gc" =>
       data.handler <=> (F4.x = "handler")

\* There is room for the frames of what was put off.
RoomRight ==
  /\ data.handler /\ F1.k \in {"sig", "post"} => Len(stack) <= MaxDepth
  /\ data.handler /\ pc = "pendRest" /\ dyn.ie => Len(stack) <= MaxDepth + 1
  /\ gc.pending /\ InPA /\ ~dyn.inhibit => Len(stack) < MaxDepth
  /\ gc.pending /\ F1.k = "wg" /\ F1.ret = "run" => Len(stack) < MaxDepth

NowRight ==
  Alive => /\ PlaceRight /\ DataRight /\ CollectionRight /\ MaskFits
           /\ SignalRight /\ NoteRight /\ RoomRight

Types ==
  /\ pc \in Places
  /\ stack \in Seq(Frames)
  /\ dyn \in Bindings
  /\ gc \in [pending : BOOLEAN, stop : BOOLEAN]
  /\ ip \in BOOLEAN /\ pa \in BOOLEAN /\ pai \in BOOLEAN
  /\ data \in DataOf
  /\ mask \subseteq All
  /\ sigs \subseteq All
  /\ other \in {"none", "locked", "signalled"}

IInv == Types /\ StackRight(stack) /\ NowRight /\ NoOtherLoss

------------------------------------------------------------------------------
(* Frames and stacks.                                                          *)

\* A frame of a stack is a frame, and what lies under the last one is none.
LEMMA NthType ==
  ASSUME NEW s \in Seq(Frames), NEW n \in Nat \ {0}
  PROVE  /\ n <= Len(s) => Nth(s, n) = s[n] /\ Nth(s, n) \in Frames
         /\ n > Len(s) => Nth(s, n) = Bottom
         /\ Nth(s, n).dyn \in Bindings
         /\ Nth(s, n).k \in {"wi", "wg", "with", "sig", "pend", "gc", "post", "none"}
         /\ Nth(s, n).k = "none" <=> n > Len(s)
         /\ Nth(s, n).mask \subseteq All
         /\ Nth(s, n).ret \in Places \cup {"maybe_gc"}
         /\ Nth(s, n).x \in {"", "0", "1", "T", "handler", "block"}
<1>1. Len(s) \in Nat /\ \A i \in 1..Len(s) : s[i] \in Frames
  OBVIOUS
<1>2. n <= Len(s) => Nth(s, n) = s[n] /\ Nth(s, n) \in Frames
  BY <1>1 DEF Nth
<1>3. n > Len(s) => Nth(s, n) = Bottom
  BY <1>1 DEF Nth
<1>4. \A f \in Frames :
        /\ f.dyn \in Bindings /\ f.mask \subseteq All
        /\ f.k \in {"wi", "wg", "with", "sig", "pend", "gc", "post"}
        /\ f.ret \in Places \cup {"maybe_gc"}
        /\ f.x \in {"", "0", "1", "T", "handler", "block"}
  BY DEF Frames
<1>5. /\ Bottom.dyn \in Bindings /\ Bottom.mask = {} /\ Bottom.k = "none"
      /\ Bottom.ret = "run" /\ Bottom.x = ""
  BY DEF Bottom, Start, Bindings
<1>6. "run" \in Places
  BY DEF Places
<1>7. n <= Len(s) \/ n > Len(s)
  BY <1>1
<1>8. ~(n <= Len(s) /\ n > Len(s))
  BY <1>1
<1>9. CASE n <= Len(s)
  <2>1. Nth(s, n) \in Frames
    BY <1>2, <1>9
  <2>2. Nth(s, n).k # "none"
    BY <1>4, <2>1
  <2> QED  BY <1>2, <1>4, <1>8, <1>9, <2>1, <2>2
<1>10. CASE n > Len(s)
  <2>1. Nth(s, n) = Bottom
    BY <1>3, <1>10
  <2> QED  BY <1>5, <1>6, <1>8, <1>10, <2>1
<1> QED  BY <1>7, <1>9, <1>10

\* A frame pushed.
LEMMA PushNth ==
  ASSUME NEW s \in Seq(Frames), NEW f \in Frames
  PROVE  /\ Cons(f, s) \in Seq(Frames)
         /\ Len(Cons(f, s)) = Len(s) + 1
         /\ Nth(Cons(f, s), 1) = f
         /\ \A n \in Nat \ {0} : Nth(Cons(f, s), n + 1) = Nth(s, n)
         /\ Nth(Cons(f, s), 2) = Nth(s, 1)
         /\ Nth(Cons(f, s), 3) = Nth(s, 2)
         /\ Nth(Cons(f, s), 4) = Nth(s, 3)
<1> DEFINE t == Cons(f, s)
<1>1. <<f>> \in Seq(Frames) /\ Len(<<f>>) = 1 /\ <<f>>[1] = f
  OBVIOUS
<1>2. /\ t \in Seq(Frames) /\ Len(t) = Len(s) + 1
      /\ \A i \in 1..(1 + Len(s)) : t[i] = IF i <= 1 THEN <<f>>[i] ELSE s[i - 1]
  BY <1>1, ConcatProperties DEF Cons
<1> HIDE DEF t
<1>3. Len(s) \in Nat
  OBVIOUS
<1>4. \A n \in Nat \ {0} : Nth(t, n + 1) = Nth(s, n)
  BY <1>1, <1>2, <1>3 DEF Nth
<1>5. Nth(t, 1 + 1) = Nth(s, 1) /\ Nth(t, 2 + 1) = Nth(s, 2) /\ Nth(t, 3 + 1) = Nth(s, 3)
  BY <1>4
<1>6. 1 + 1 = 2 /\ 2 + 1 = 3 /\ 3 + 1 = 4
  OBVIOUS
<1>7. Nth(t, 1) = f
  BY <1>1, <1>2, <1>3 DEF Nth
<1> QED  BY <1>2, <1>4, <1>5, <1>6, <1>7 DEF t

\* The top frame popped.
LEMMA PopNth ==
  ASSUME NEW s \in Seq(Frames), s # <<>>
  PROVE  /\ Rest(s) \in Seq(Frames)
         /\ Len(Rest(s)) = Len(s) - 1
         /\ Head(s) = Nth(s, 1) /\ Head(s) \in Frames
         /\ Len(s) \in Nat /\ Len(s) >= 1
         /\ Nth(Rest(s), 1) = Nth(s, 2)
         /\ Nth(Rest(s), 2) = Nth(s, 3)
         /\ Nth(Rest(s), 3) = Nth(s, 4)
<1> DEFINE t == Rest(s)
<1>1. Len(s) \in Nat /\ Len(s) >= 1 /\ Head(s) = s[1] /\ Head(s) \in Frames
  OBVIOUS
<1>2. /\ t \in Seq(Frames) /\ Len(t) = Len(s) - 1
      /\ \A i \in 1..Len(t) : t[i] = s[i + 1]
  BY HeadTailProperties DEF Rest
<1> HIDE DEF t
<1>3. \A n \in Nat \ {0} : Nth(t, n) = Nth(s, n + 1)
  BY <1>1, <1>2 DEF Nth
<1>4. Nth(t, 1) = Nth(s, 1 + 1) /\ Nth(t, 2) = Nth(s, 2 + 1) /\ Nth(t, 3) = Nth(s, 3 + 1)
  BY <1>3
<1>5. 1 + 1 = 2 /\ 2 + 1 = 3 /\ 3 + 1 = 4
  OBVIOUS
<1>6. Head(s) = Nth(s, 1)
  BY <1>1 DEF Nth
<1> QED  BY <1>1, <1>2, <1>4, <1>5, <1>6 DEF t

\* Several frames dropped at once.
LEMMA DropNth ==
  ASSUME NEW s \in Seq(Frames), NEW m \in 1..Len(s)
  PROVE  /\ Drop(s, m) \in Seq(Frames)
         /\ Len(Drop(s, m)) = Len(s) - m
         /\ \A n \in Nat \ {0} : Nth(Drop(s, m), n) = Nth(s, m + n)
<1> DEFINE t == Drop(s, m)
<1>1. Len(s) \in Nat /\ \A i \in 1..Len(s) : s[i] \in Frames
  OBVIOUS
<1>2. \A i \in (m + 1)..Len(s) : s[i] \in Frames
  BY <1>1
<1>3. /\ t \in Seq(Frames)
      /\ Len(t) = IF m + 1 <= Len(s) THEN Len(s) - (m + 1) + 1 ELSE 0
      /\ \A i \in 1..(Len(s) - (m + 1) + 1) : t[i] = s[(m + 1) + i - 1]
  BY <1>1, <1>2, SubSeqProperties DEF Drop
<1>4. Len(t) = Len(s) - m /\ \A i \in 1..(Len(s) - m) : t[i] = s[m + i]
  BY <1>1, <1>3
<1> HIDE DEF t
<1>5. \A n \in Nat \ {0} : Nth(t, n) = Nth(s, m + n)
  <2> SUFFICES ASSUME NEW n \in Nat \ {0} PROVE Nth(t, n) = Nth(s, m + n)
    OBVIOUS
  <2>1. CASE n \in 1..(Len(s) - m)
    BY <1>1, <1>4, <2>1 DEF Nth
  <2>2. CASE n \notin 1..(Len(s) - m)
    BY <1>1, <1>4, <2>2 DEF Nth
  <2> QED  BY <2>1, <2>2
<1> QED  BY <1>3, <1>4, <1>5 DEF t

\* A right stack stays so when a frame that fits is pushed ...
LEMMA PushRight ==
  ASSUME NEW s \in Seq(Frames), NEW f \in Frames, StackRight(s),
         Fits(f, Nth(s, 1), Nth(s, 2)), Len(s) + 1 <= Height(f)
  PROVE  StackRight(Cons(f, s))
<1> DEFINE t == Cons(f, s)
<1>0. Len(s) \in Nat
  OBVIOUS
<1>1. /\ t \in Seq(Frames) /\ Len(t) = Len(s) + 1 /\ Len(s) \in Nat
      /\ Nth(t, 1) = f /\ Nth(t, 2) = Nth(s, 1) /\ Nth(t, 3) = Nth(s, 2)
      /\ \A n \in Nat \ {0} : Nth(t, n + 1) = Nth(s, n)
  BY <1>0, PushNth
<1> HIDE DEF t
<1> SUFFICES ASSUME NEW n \in 1..Len(t)
             PROVE  /\ Fits(Nth(t, n), Nth(t, n + 1), Nth(t, n + 2))
                    /\ Len(t) - n + 1 <= Height(Nth(t, n))
  BY DEF StackRight, t
<1>2. CASE n = 1
  <2>1. n + 1 = 2 /\ n + 2 = 3 /\ Len(t) - n + 1 = Len(s) + 1
    BY <1>1, <1>2
  <2> QED  BY <1>1, <1>2, <2>1
<1>3. CASE n # 1
  <2>1. n \in Nat /\ n > 1 /\ n <= Len(s) + 1
    BY <1>1, <1>3
  <2>2. n - 1 \in 1..Len(s) /\ n = (n - 1) + 1
    BY <1>1, <2>1
  <2>3. PICK m \in 1..Len(s) : n = m + 1
    BY <2>2
  <2>4. m \in Nat /\ m > 0
    BY <1>1
  <2>5. m \in Nat \ {0} /\ m + 1 \in Nat \ {0} /\ m + 2 \in Nat \ {0}
    BY <2>4
  <2>6. /\ Fits(Nth(s, m), Nth(s, m + 1), Nth(s, m + 2))
        /\ Len(s) - m + 1 <= Height(Nth(s, m))
    BY DEF StackRight
  <2>7. n + 1 = (m + 1) + 1 /\ n + 2 = (m + 2) + 1 /\ Len(t) - n + 1 = Len(s) - m + 1
    BY <1>1, <2>3, <2>4
  <2>8. Nth(t, n) = Nth(s, m) /\ Nth(t, n + 1) = Nth(s, m + 1) /\ Nth(t, n + 2) = Nth(s, m + 2)
    BY <1>1, <2>3, <2>5, <2>7
  <2> QED  BY <2>6, <2>7, <2>8
<1> QED  BY <1>2, <1>3

\* ... and when frames are dropped.
LEMMA DropRight ==
  ASSUME NEW s \in Seq(Frames), NEW m \in 1..Len(s), StackRight(s)
  PROVE  StackRight(Drop(s, m))
<1> DEFINE t == Drop(s, m)
<1>1. /\ t \in Seq(Frames) /\ Len(t) = Len(s) - m /\ Len(s) \in Nat
      /\ \A n \in Nat \ {0} : Nth(t, n) = Nth(s, m + n)
  BY DropNth
<1> HIDE DEF t
<1> SUFFICES ASSUME NEW n \in 1..Len(t)
             PROVE  /\ Fits(Nth(t, n), Nth(t, n + 1), Nth(t, n + 2))
                    /\ Len(t) - n + 1 <= Height(Nth(t, n))
  BY DEF StackRight, t
<1>2. m \in Nat /\ m > 0 /\ n \in Nat /\ n > 0 /\ n <= Len(s) - m
  BY <1>1
<1>3. m + n \in 1..Len(s) /\ Len(t) - n + 1 = Len(s) - (m + n) + 1
  BY <1>1, <1>2
<1>4. /\ Fits(Nth(s, m + n), Nth(s, (m + n) + 1), Nth(s, (m + n) + 2))
      /\ Len(s) - (m + n) + 1 <= Height(Nth(s, m + n))
  BY <1>3 DEF StackRight
<1>5. /\ n \in Nat \ {0} /\ n + 1 \in Nat \ {0} /\ n + 2 \in Nat \ {0}
      /\ (m + n) + 1 = m + (n + 1) /\ (m + n) + 2 = m + (n + 2)
  BY <1>2
<1>6. /\ Nth(t, n) = Nth(s, m + n)
      /\ Nth(t, n + 1) = Nth(s, m + (n + 1))
      /\ Nth(t, n + 2) = Nth(s, m + (n + 2))
  BY <1>1, <1>5
<1> QED  BY <1>3, <1>4, <1>5, <1>6

\* Popping is dropping one frame.
LEMMA PopRight ==
  ASSUME NEW s \in Seq(Frames), s # <<>>, StackRight(s)
  PROVE  StackRight(Rest(s))
<1>1. Tail(s) = SubSeq(s, 2, Len(s))
  BY TailIsSubSeq
<1>2. Len(s) \in Nat /\ Len(s) >= 1 /\ 1 + 1 = 2
  BY PopNth
<1>3. Rest(s) = Drop(s, 1) /\ 1 \in 1..Len(s)
  BY <1>1, <1>2 DEF Rest, Drop
<1> QED  BY <1>3, DropRight

\* What the invariant says of the uppermost frames.
LEMMA FitsNow ==
  ASSUME Types, StackRight(stack)
  PROVE  /\ F1.k # "none" => Fits(F1, F2, F3) /\ Len(stack) <= Height(F1)
         /\ F2.k # "none" => Fits(F2, F3, F4) /\ Len(stack) - 1 <= Height(F2)
         /\ F1.k # "none" <=> stack # <<>>
         /\ F1.k = "none" => F1 = Bottom
<1>1. stack \in Seq(Frames) /\ Len(stack) \in Nat
  BY DEF Types
<1>2. /\ F1.k = "none" <=> 1 > Len(stack)
      /\ F2.k = "none" <=> 2 > Len(stack)
      /\ F1.k = "none" => F1 = Bottom
  <2>1. \A n \in Nat \ {0} : /\ Nth(stack, n).k = "none" <=> n > Len(stack)
                             /\ n > Len(stack) => Nth(stack, n) = Bottom
    BY <1>1, NthType
  <2> QED  BY <2>1 DEF F1, F2
<1>3. F1.k # "none" => Fits(F1, F2, F3) /\ Len(stack) <= Height(F1)
  <2> SUFFICES ASSUME 1 \in 1..Len(stack) PROVE Fits(F1, F2, F3) /\ Len(stack) <= Height(F1)
    BY <1>1, <1>2
  <2>1. /\ Fits(Nth(stack, 1), Nth(stack, 1 + 1), Nth(stack, 1 + 2))
        /\ Len(stack) - 1 + 1 <= Height(Nth(stack, 1))
    BY DEF StackRight
  <2>2. 1 + 1 = 2 /\ 1 + 2 = 3 /\ Len(stack) - 1 + 1 = Len(stack)
    BY <1>1
  <2> QED  BY <2>1, <2>2 DEF F1, F2, F3
<1>4. F2.k # "none" => Fits(F2, F3, F4) /\ Len(stack) - 1 <= Height(F2)
  <2> SUFFICES ASSUME 2 \in 1..Len(stack)
         PROVE Fits(F2, F3, F4) /\ Len(stack) - 1 <= Height(F2)
    BY <1>1, <1>2
  <2>1. /\ Fits(Nth(stack, 2), Nth(stack, 2 + 1), Nth(stack, 2 + 2))
        /\ Len(stack) - 2 + 1 <= Height(Nth(stack, 2))
    BY DEF StackRight
  <2>2. 2 + 1 = 3 /\ 2 + 2 = 4 /\ Len(stack) - 2 + 1 = Len(stack) - 1
    BY <1>1
  <2> QED  BY <2>1, <2>2 DEF F2, F3, F4
<1>5. F1.k # "none" <=> stack # <<>>
  BY <1>1, <1>2
<1> QED  BY <1>2, <1>3, <1>4, <1>5

\* The uppermost frames after a step that leaves the stack alone, ...
LEMMA StayNow ==
  ASSUME IInv, stack' = stack
  PROVE  /\ stack' \in Seq(Frames) /\ StackRight(stack') /\ Len(stack') = Len(stack)
         /\ F1' = F1 /\ F2' = F2 /\ F3' = F3 /\ F4' = F4
BY DEF IInv, Types, F1, F2, F3, F4

\* ... pushes f, ...
LEMMA PushNow ==
  ASSUME IInv, NEW f \in Frames, stack' = Cons(f, stack),
         Fits(f, F1, F2), Len(stack) + 1 <= Height(f)
  PROVE  /\ stack' \in Seq(Frames) /\ StackRight(stack') /\ Len(stack') = Len(stack) + 1
         /\ F1' = f /\ F2' = F1 /\ F3' = F2 /\ F4' = F3
<1>1. stack \in Seq(Frames) /\ StackRight(stack)
  BY DEF IInv, Types
<1>2. /\ stack' \in Seq(Frames) /\ Len(stack') = Len(stack) + 1
      /\ Nth(stack', 1) = f /\ Nth(stack', 2) = F1 /\ Nth(stack', 3) = F2
      /\ Nth(stack', 4) = F3
  BY <1>1, PushNth DEF F1, F2, F3
<1>3. StackRight(stack')
  BY <1>1, PushRight DEF F1, F2
<1> QED  BY <1>2, <1>3 DEF F1, F2, F3, F4

\* ... pops the top, ...
LEMMA PopNow ==
  ASSUME IInv, stack # <<>>, stack' = Rest(stack)
  PROVE  /\ stack' \in Seq(Frames) /\ StackRight(stack') /\ Len(stack') = Len(stack) - 1
         /\ F1' = F2 /\ F2' = F3 /\ F3' = F4
<1>1. stack \in Seq(Frames) /\ StackRight(stack)
  BY DEF IInv, Types
<1>2. /\ stack' \in Seq(Frames) /\ Len(stack') = Len(stack) - 1
      /\ Nth(stack', 1) = F2 /\ Nth(stack', 2) = F3 /\ Nth(stack', 3) = F4
  BY <1>1, PopNth DEF F2, F3, F4
<1>3. StackRight(stack')
  BY <1>1, PopRight
<1> QED  BY <1>2, <1>3 DEF F1, F2, F3

\* ... and puts f in the place of the top.
LEMMA SwapNow ==
  ASSUME IInv, NEW f \in Frames, stack # <<>>, stack' = Cons(f, Rest(stack)),
         Fits(f, F2, F3), Len(stack) <= Height(f)
  PROVE  /\ stack' \in Seq(Frames) /\ StackRight(stack') /\ Len(stack') = Len(stack)
         /\ F1' = f /\ F2' = F2 /\ F3' = F3 /\ F4' = F4
<1>1. stack \in Seq(Frames) /\ StackRight(stack)
  BY DEF IInv, Types
<1>2. /\ Rest(stack) \in Seq(Frames) /\ StackRight(Rest(stack))
      /\ Len(Rest(stack)) + 1 = Len(stack)
      /\ Nth(Rest(stack), 1) = F2 /\ Nth(Rest(stack), 2) = F3 /\ Nth(Rest(stack), 3) = F4
  BY <1>1, PopNth, PopRight DEF F2, F3, F4
<1>3. /\ stack' \in Seq(Frames) /\ Len(stack') = Len(stack) /\ Nth(stack', 1) = f
      /\ Nth(stack', 2) = F2 /\ Nth(stack', 3) = F3 /\ Nth(stack', 4) = F4
  BY <1>2, PushNth
<1>4. StackRight(stack')
  BY <1>2, PushRight
<1> QED  BY <1>3, <1>4 DEF F1, F2, F3, F4

\* What is known of the uppermost frames.
LEMMA Now ==
  ASSUME IInv
  PROVE  /\ stack \in Seq(Frames) /\ Len(stack) \in Nat /\ MaxDepth \in Nat
         /\ stack # <<>> <=> F1.k # "none"
         /\ stack # <<>> => /\ Head(stack) = F1 /\ F1 \in Frames
                            /\ Fits(F1, F2, F3) /\ Len(stack) <= Height(F1)
         /\ stack = <<>> => F1 = Bottom
         /\ F2.k # "none" => /\ stack # <<>> /\ Rest(stack) # <<>> /\ Head(Rest(stack)) = F2
                             /\ F2 \in Frames /\ Fits(F2, F3, F4)
                             /\ Len(stack) - 1 <= Height(F2)
         /\ F1.dyn \in Bindings /\ F2.dyn \in Bindings
         /\ F1.ret \in Places \cup {"maybe_gc"} /\ F2.ret \in Places \cup {"maybe_gc"}
<1>1. Types /\ StackRight(stack) /\ stack \in Seq(Frames) /\ Len(stack) \in Nat
  BY DEF IInv, Types
<1>2. \A n \in Nat \ {0} : /\ n <= Len(stack) => Nth(stack, n) \in Frames
                           /\ Nth(stack, n).dyn \in Bindings
                           /\ Nth(stack, n).k = "none" <=> n > Len(stack)
                           /\ Nth(stack, n).ret \in Places \cup {"maybe_gc"}
  BY <1>1, NthType
<1>3. stack # <<>> => Head(stack) = F1
  BY <1>1, PopNth DEF F1
<1>4. /\ F1.dyn \in Bindings /\ F2.dyn \in Bindings
      /\ F1.ret \in Places \cup {"maybe_gc"} /\ F2.ret \in Places \cup {"maybe_gc"}
  BY <1>2 DEF F1, F2
<1>5. /\ F1.k = "none" <=> 1 > Len(stack)
      /\ F2.k = "none" <=> 2 > Len(stack)
      /\ 1 <= Len(stack) => F1 \in Frames
      /\ 2 <= Len(stack) => F2 \in Frames
  BY <1>2 DEF F1, F2
<1>6. F2.k # "none" => stack # <<>> /\ Rest(stack) # <<>> /\ Head(Rest(stack)) = F2
  <2> SUFFICES ASSUME F2.k # "none"
         PROVE stack # <<>> /\ Rest(stack) # <<>> /\ Head(Rest(stack)) = F2
    OBVIOUS
  <2>1. Len(stack) >= 2 /\ stack # <<>>
    BY <1>1, <1>5
  <2>2. /\ Rest(stack) \in Seq(Frames) /\ Len(Rest(stack)) = Len(stack) - 1
        /\ Nth(Rest(stack), 1) = F2
    BY <1>1, <2>1, PopNth DEF F2
  <2>3. Len(Rest(stack)) > 0
    BY <1>1, <2>1, <2>2
  <2>4. \A t \in Seq(Frames) : Len(t) > 0 => t # <<>> /\ Head(t) = Nth(t, 1)
    <3> SUFFICES ASSUME NEW t \in Seq(Frames), Len(t) > 0 PROVE t # <<>> /\ Head(t) = Nth(t, 1)
      OBVIOUS
    <3>1. t # <<>>
      OBVIOUS
    <3> QED  BY <3>1, PopNth
  <2> QED  BY <2>1, <2>2, <2>3, <2>4
<1> QED  BY <1>1, <1>3, <1>4, <1>5, <1>6, FitsNow, DeferralAssumption

\* How high each frame can be.
LEMMA Heights ==
  ASSUME NEW f
  PROVE  /\ MaxDepth \in Nat /\ Height(f) \in Int
         /\ Height(f) >= MaxDepth /\ Height(f) <= MaxDepth + 3
         /\ f.k = "pend" => Height(f) = MaxDepth + 3
         /\ OfGC(f) \/ f.mask = All => Height(f) >= MaxDepth + 2
         /\ f.k # "pend" => Height(f) <= MaxDepth + 2
         /\ f.k = "post" \/ f.ret = "maybe_gc" => Height(f) >= MaxDepth + 1
         /\ f.k # "pend" /\ ~OfGC(f) /\ f.mask # All => Height(f) <= MaxDepth + 1
         /\ f.k \notin {"pend", "post"} /\ f.ret # "maybe_gc" /\ ~OfGC(f) /\ f.mask # All =>
              Height(f) = MaxDepth
<1>1. MaxDepth \in Nat
  BY DeferralAssumption
<1>2. CASE f.k = "pend"
  BY <1>1, <1>2 DEF Height, OfGC
<1>3. CASE f.k # "pend" /\ (OfGC(f) \/ f.mask = All)
  BY <1>1, <1>3 DEF Height
<1>4. CASE f.k # "pend" /\ ~(OfGC(f) \/ f.mask = All)
  BY <1>1, <1>4 DEF Height
<1> QED  BY <1>2, <1>3, <1>4

\* The empty mask does not block everything.
LEMMA NotAll == {} # All /\ {"def"} # All
BY DEF All

\* What is known of the kind of the top frame and the bindings of the third.
LEMMA NowTypes ==
  ASSUME IInv
  PROVE  /\ F1.k \in {"wi", "wg", "with", "sig", "pend", "gc", "post", "none"}
         /\ F3.dyn \in Bindings
<1>1. stack \in Seq(Frames)
  BY DEF IInv, Types
<1>2. \A n \in Nat \ {0} :
        /\ Nth(stack, n).dyn \in Bindings
        /\ Nth(stack, n).k \in {"wi", "wg", "with", "sig", "pend", "gc", "post", "none"}
  BY <1>1, NthType
<1> QED  BY <1>2 DEF F1, F3

\* Two frames in one step: pushed, ...
LEMMA PushTwoNow ==
  ASSUME IInv, NEW f \in Frames, NEW g \in Frames, stack' = Cons(f, Cons(g, stack)),
         Fits(g, F1, F2), Len(stack) + 1 <= Height(g),
         Fits(f, g, F1), Len(stack) + 2 <= Height(f)
  PROVE  /\ stack' \in Seq(Frames) /\ StackRight(stack') /\ Len(stack') = Len(stack) + 2
         /\ F1' = f /\ F2' = g /\ F3' = F1 /\ F4' = F2
<1> DEFINE t == Cons(g, stack)
<1>1. stack \in Seq(Frames) /\ StackRight(stack) /\ Len(stack) \in Nat
  BY DEF IInv, Types
<1>2. /\ t \in Seq(Frames) /\ Len(t) = Len(stack) + 1
      /\ Nth(t, 1) = g /\ Nth(t, 2) = F1 /\ Nth(t, 3) = F2
  BY <1>1, PushNth DEF F1, F2
<1>3. StackRight(t)
  BY <1>1, PushRight DEF F1, F2
<1>4. stack' = Cons(f, t)
  OBVIOUS
<1> HIDE DEF t
<1>5. /\ stack' \in Seq(Frames) /\ Len(stack') = Len(t) + 1
      /\ Nth(stack', 1) = f /\ Nth(stack', 2) = Nth(t, 1)
      /\ Nth(stack', 3) = Nth(t, 2) /\ Nth(stack', 4) = Nth(t, 3)
  BY <1>2, <1>4, PushNth
<1>6. Len(t) + 1 <= Height(f) /\ Len(stack') = Len(stack) + 2
  BY <1>1, <1>2, <1>5
<1>7. StackRight(stack')
  BY <1>2, <1>3, <1>4, <1>6, PushRight
<1> QED  BY <1>2, <1>5, <1>6, <1>7 DEF F1, F2, F3, F4

\* ... with the one in the place of the top, ...
LEMMA SwapPushNow ==
  ASSUME IInv, NEW f \in Frames, NEW g \in Frames, stack # <<>>,
         stack' = Cons(f, Cons(g, Rest(stack))),
         Fits(g, F2, F3), Len(stack) <= Height(g),
         Fits(f, g, F2), Len(stack) + 1 <= Height(f)
  PROVE  /\ stack' \in Seq(Frames) /\ StackRight(stack') /\ Len(stack') = Len(stack) + 1
         /\ F1' = f /\ F2' = g /\ F3' = F2 /\ F4' = F3
<1> DEFINE s == Rest(stack)
           t == Cons(g, Rest(stack))
<1>1. stack \in Seq(Frames) /\ StackRight(stack) /\ Len(stack) \in Nat
  BY DEF IInv, Types
<1>2. /\ s \in Seq(Frames) /\ StackRight(s) /\ Len(s) + 1 = Len(stack)
      /\ Nth(s, 1) = F2 /\ Nth(s, 2) = F3
  BY <1>1, PopNth, PopRight DEF F2, F3
<1>3. t = Cons(g, s)
  OBVIOUS
<1>10. stack' = Cons(f, t)
  OBVIOUS
<1> HIDE DEF s, t
<1>4. /\ t \in Seq(Frames) /\ Len(t) = Len(stack)
      /\ Nth(t, 1) = g /\ Nth(t, 2) = F2 /\ Nth(t, 3) = F3
  BY <1>2, <1>3, PushNth
<1>5. StackRight(t)
  BY <1>2, <1>3, PushRight
<1>9. t \in Seq(Frames)
  BY <1>4
<1>6. /\ stack' \in Seq(Frames) /\ Len(stack') = Len(t) + 1
      /\ Nth(stack', 1) = f /\ Nth(stack', 2) = Nth(t, 1)
      /\ Nth(stack', 3) = Nth(t, 2) /\ Nth(stack', 4) = Nth(t, 3)
  BY <1>9, <1>10, PushNth
<1>7. StackRight(stack')
  BY <1>4, <1>5, <1>10, PushRight
<1> QED  BY <1>4, <1>6, <1>7 DEF F1, F2, F3, F4

\* ... or both in the places of the two uppermost.
LEMMA SwapTwoNow ==
  ASSUME IInv, NEW f \in Frames, NEW g \in Frames, stack # <<>>, Rest(stack) # <<>>,
         stack' = Cons(f, Cons(g, Rest(Rest(stack)))),
         Fits(g, F3, F4), Len(stack) - 1 <= Height(g),
         Fits(f, g, F3), Len(stack) <= Height(f)
  PROVE  /\ stack' \in Seq(Frames) /\ StackRight(stack') /\ Len(stack') = Len(stack)
         /\ F1' = f /\ F2' = g /\ F3' = F3 /\ F4' = F4
<1> DEFINE r == Rest(stack)
           s == Rest(Rest(stack))
           t == Cons(g, Rest(Rest(stack)))
<1>1. stack \in Seq(Frames) /\ StackRight(stack) /\ Len(stack) \in Nat
  BY DEF IInv, Types
<1>2. /\ r \in Seq(Frames) /\ StackRight(r) /\ Len(r) = Len(stack) - 1 /\ r # <<>>
      /\ Nth(r, 2) = F3 /\ Nth(r, 3) = F4
  BY <1>1, PopNth, PopRight DEF F3, F4
<1>3. s = Rest(r) /\ t = Cons(g, s) /\ stack' = Cons(f, t)
  OBVIOUS
<1> HIDE DEF r, s, t
<1>4. /\ s \in Seq(Frames) /\ StackRight(s) /\ Len(s) + 1 = Len(r)
      /\ Nth(s, 1) = F3 /\ Nth(s, 2) = F4
  BY <1>2, <1>3, PopNth, PopRight
<1>5. /\ t \in Seq(Frames) /\ Len(t) = Len(stack) - 1
      /\ Nth(t, 1) = g /\ Nth(t, 2) = F3 /\ Nth(t, 3) = F4
  BY <1>2, <1>3, <1>4, PushNth
<1>6. Len(s) + 1 <= Height(g)
  BY <1>2, <1>4
<1>7. StackRight(t)
  BY <1>3, <1>4, <1>6, PushRight
<1>8. /\ stack' \in Seq(Frames) /\ Len(stack') = Len(t) + 1
      /\ Nth(stack', 1) = f /\ Nth(stack', 2) = Nth(t, 1)
      /\ Nth(stack', 3) = Nth(t, 2) /\ Nth(stack', 4) = Nth(t, 3)
  BY <1>3, <1>5, PushNth
<1>9. Len(stack') = Len(stack) /\ Len(t) + 1 <= Height(f)
  BY <1>1, <1>5, <1>8
<1>10. StackRight(stack')
  BY <1>3, <1>5, <1>7, <1>9, PushRight
<1> QED  BY <1>5, <1>8, <1>9, <1>10 DEF F1, F2, F3, F4

\* Two frames at once are one after the other.
LEMMA TwoFrames ==
  ASSUME NEW f \in Frames, NEW g \in Frames, NEW s \in Seq(Frames)
  PROVE  <<f, g>> \o s = Cons(f, Cons(g, s))
<1>1. <<f>> \in Seq(Frames) /\ <<g>> \in Seq(Frames)
  OBVIOUS
<1>2. <<f, g>> = <<f>> \o <<g>>
  <2> DEFINE u == <<f, g>>
             v == <<f>> \o <<g>>
  <2>1. u \in Seq(Frames) /\ Len(u) = 2 /\ u[1] = f /\ u[2] = g
    OBVIOUS
  <2>2. Len(<<f>>) = 1 /\ Len(<<g>>) = 1 /\ <<f>>[1] = f /\ <<g>>[1] = g
    OBVIOUS
  <2>3. /\ v \in Seq(Frames) /\ Len(v) = 1 + 1
        /\ \A i \in 1..(1 + 1) : v[i] = IF i <= 1 THEN <<f>>[i] ELSE <<g>>[i - 1]
    BY <1>1, <2>2, ConcatProperties
  <2> HIDE DEF u, v
  <2>4. Len(v) = 2 /\ v[1] = f /\ v[2] = g
    BY <2>2, <2>3
  <2>5. \A i \in 1..Len(u) : u[i] = v[i]
    BY <2>1, <2>4
  <2>6. u = v
    BY <2>1, <2>3, <2>4, <2>5, SeqEqual
  <2> QED  BY <2>6 DEF u, v
<1>3. (<<f>> \o <<g>>) \o s = <<f>> \o (<<g>> \o s)
  BY <1>1, ConcatAssociative
<1> QED  BY <1>2, <1>3 DEF Cons

------------------------------------------------------------------------------
(* One lemma for each action: it preserves the invariant.                      *)

\* A pseudo-atomic section is entered.
LEMMA EnterPAKeeps ==
  ASSUME IInv, EnterPA
  PROVE  IInv'
<1>1. /\ stack' \in Seq(Frames) /\ StackRight(stack') /\ Len(stack') = Len(stack)
      /\ F1' = F1 /\ F2' = F2 /\ F3' = F3 /\ F4' = F4
  BY StayNow DEF EnterPA
<1>2. Types'
  BY <1>1 DEF IInv, Types, EnterPA
<1>3. PlaceRight' /\ MaskFits' /\ SignalRight' /\ NoteRight'
  <2>1. PlaceRight'
    BY <1>1 DEF IInv, NowRight, Alive, PlaceRight, EnterPA, Free
  <2>2. MaskFits'
    BY <1>1 DEF IInv, NowRight, Alive, MaskFits, EnterPA, Free
  <2>3. SignalRight'
    BY <1>1 DEF IInv, NowRight, Alive, SignalRight, DataRight, InPA, EnterPA, Free
  <2>4. NoteRight'
    BY <1>1 DEF IInv, NowRight, Alive, NoteRight, EnterPA, Free
  <2> QED  BY <2>1, <2>2, <2>3, <2>4
<1>4. DataRight'
  BY <1>1 DEF IInv, NowRight, Alive, DataRight, InPA, EnterPA, Free, Stopping
<1>5. CollectionRight'
  BY <1>1 DEF IInv, NowRight, Alive, CollectionRight, DataRight, InPA, EnterPA, Free, Stopping
<1>6. RoomRight'
  BY <1>1 DEF IInv, NowRight, Alive, CollectionRight, RoomRight, DataRight, InPA,
       EnterPA, Free, Stopping
<1> QED  BY <1>1, <1>2, <1>3, <1>4, <1>5, <1>6 DEF IInv, NowRight, NoOtherLoss, Alive, EnterPA

\* A pseudo-atomic section is left.
LEMMA LeavePAKeeps ==
  ASSUME IInv, LeavePA
  PROVE  IInv'
<1>1. /\ stack' \in Seq(Frames) /\ StackRight(stack') /\ Len(stack') = Len(stack)
      /\ F1' = F1 /\ F2' = F2 /\ F3' = F3 /\ F4' = F4
  BY StayNow DEF LeavePA
<1>2. /\ Types /\ PlaceRight /\ DataRight /\ CollectionRight /\ MaskFits
      /\ SignalRight /\ NoteRight /\ RoomRight
  BY DEF IInv, NowRight, Alive, LeavePA
<1>3. Types'
  BY <1>1, <1>2 DEF Types, Places, Traps, LeavePA
<1>4. PlaceRight'
  BY <1>1, <1>2 DEF PlaceRight, At, DataRight, LeavePA
<1>5. DataRight'
  BY <1>1, <1>2 DEF DataRight, InPA, Stopping, LeavePA
<1>6. CollectionRight'
  BY <1>1, <1>2 DEF CollectionRight, InPA, Stopping, OfGC, LeavePA
<1>7. MaskFits'
  BY <1>1, <1>2 DEF MaskFits, LeavePA
<1>8. SignalRight'
  BY <1>1, <1>2 DEF SignalRight, InPA, LeavePA
<1>9. NoteRight'
  BY <1>1, <1>2 DEF NoteRight, LeavePA
<1>10. RoomRight'
  BY <1>1, <1>2 DEF RoomRight, InPA, LeavePA
<1> QED  BY <1>1, <1>3, <1>4, <1>5, <1>6, <1>7, <1>8, <1>9, <1>10 DEF IInv,
     NowRight, NoOtherLoss, LeavePA

\* SUB-GC turns interrupts off.
LEMMA GCStartKeeps ==
  ASSUME IInv, GCStart
  PROVE  IInv'
<1>1. /\ stack' \in Seq(Frames) /\ StackRight(stack') /\ Len(stack') = Len(stack)
      /\ F1' = F1 /\ F2' = F2 /\ F3' = F3 /\ F4' = F4
  BY StayNow DEF GCStart
<1>2. /\ Types /\ PlaceRight /\ DataRight /\ CollectionRight /\ MaskFits
      /\ SignalRight /\ NoteRight /\ RoomRight
  BY DEF IInv, NowRight, Alive, GCStart
<1>3. F1.k = "gc" /\ dyn = F1.dyn /\ dyn' = NoInts(F1.dyn)
  BY <1>2 DEF PlaceRight, At, NoInts, GCStart
<1>4. dyn' \in Bindings /\ dyn'.inhibit = dyn.inhibit /\ dyn'.unb = dyn.unb /\ ~dyn'.ie
  BY <1>2 DEF Types, Bindings, GCStart
<1>5. Types'
  BY <1>1, <1>2, <1>3, <1>4 DEF Types, Places, Traps, GCStart
<1>6. PlaceRight'
  BY <1>1, <1>2, <1>3, <1>4 DEF PlaceRight, At, GCStart
<1>7. DataRight'
  BY <1>1, <1>2, <1>3, <1>4 DEF DataRight, InPA, Stopping, GCStart
<1>8. CollectionRight'
  BY <1>1, <1>2, <1>3, <1>4 DEF CollectionRight, InPA, Stopping, OfGC, GCStart
<1>9. MaskFits'
  BY <1>1, <1>2, <1>3, <1>4 DEF MaskFits, GCStart
<1>10. SignalRight'
  BY <1>1, <1>2, <1>3, <1>4 DEF SignalRight, InPA, GCStart
<1>11. NoteRight'
  BY <1>1, <1>2, <1>3, <1>4 DEF NoteRight, GCStart
<1>12. RoomRight'
  BY <1>1, <1>2, <1>3, <1>4 DEF RoomRight, InPA, GCStart
<1> QED  BY <1>1, <1>5, <1>6, <1>7, <1>8, <1>9, <1>10, <1>11, <1>12 DEF IInv,
     NowRight, NoOtherLoss, GCStart

\* SUB-GC is done, or tries again.
LEMMA GCAfterKeeps ==
  ASSUME IInv, GCAfter
  PROVE  IInv'
<1>1. /\ stack' \in Seq(Frames) /\ StackRight(stack') /\ Len(stack') = Len(stack)
      /\ F1' = F1 /\ F2' = F2 /\ F3' = F3 /\ F4' = F4
  BY StayNow DEF GCAfter
<1>2. /\ Types /\ PlaceRight /\ DataRight /\ CollectionRight /\ MaskFits
      /\ SignalRight /\ NoteRight /\ RoomRight
  BY DEF IInv, NowRight, Alive, GCAfter
<1>3. F1.k = "gc" /\ dyn = NoInts(F1.dyn) /\ Top = F1 /\ F1.dyn \in Bindings
  BY Now, <1>2 DEF PlaceRight, At, GCAfter, Top
<1>4. /\ dyn' \in Bindings /\ dyn'.inhibit = dyn.inhibit /\ dyn'.unb = dyn.unb
      /\ dyn' = dyn \/ dyn' = F1.dyn
      /\ pc' = "gcEnter" => dyn' = dyn
      /\ pc' = "gcCheck" => dyn' = F1.dyn
  BY <1>2, <1>3 DEF Types, Bindings, NoInts, GCAfter
<1>5. Types'
  BY <1>1, <1>2, <1>3, <1>4 DEF Types, Places, Traps, GCAfter
<1>6. PlaceRight'
  BY <1>1, <1>2, <1>3, <1>4 DEF PlaceRight, At, GCAfter
<1>7. DataRight'
  BY <1>1, <1>2, <1>3, <1>4 DEF DataRight, InPA, Stopping, GCAfter
<1>8. CollectionRight'
  BY <1>1, <1>2, <1>3, <1>4 DEF CollectionRight, InPA, Stopping, OfGC, GCAfter
<1>9. MaskFits'
  BY <1>1, <1>2, <1>3, <1>4 DEF MaskFits, GCAfter
<1>10. SignalRight'
  BY <1>1, <1>2, <1>3, <1>4 DEF SignalRight, InPA, GCAfter
<1>11. NoteRight'
  BY <1>1, <1>2, <1>3, <1>4 DEF NoteRight, GCAfter
<1>12. RoomRight'
  BY <1>1, <1>2, <1>3, <1>4 DEF RoomRight, InPA, GCAfter
<1> QED  BY <1>1, <1>5, <1>6, <1>7, <1>8, <1>9, <1>10, <1>11, <1>12 DEF IInv,
     NowRight, NoOtherLoss, GCAfter

\* SUB-GC turns interrupts on again.
LEMMA GCCheckKeeps ==
  ASSUME IInv, GCCheck
  PROVE  IInv'
<1>1. /\ stack' \in Seq(Frames) /\ StackRight(stack') /\ Len(stack') = Len(stack)
      /\ F1' = F1 /\ F2' = F2 /\ F3' = F3 /\ F4' = F4
  BY StayNow DEF GCCheck
<1>2. /\ Types /\ PlaceRight /\ DataRight /\ CollectionRight /\ MaskFits
      /\ SignalRight /\ NoteRight /\ RoomRight
  BY DEF IInv, NowRight, Alive, GCCheck
<1>3. F1.k = "gc" /\ dyn = F1.dyn /\ Fits(F1, F2, F3) /\ F2.dyn \in Bindings
  BY Now, <1>2 DEF PlaceRight, At, GCCheck
<1>4. F1.ret = "maybe_gc" /\ dyn.ie => ~data.handler
  BY <1>2, <1>3 DEF Fits, NoInts, NoteRight, Bindings
<1>5. /\ F1.ret \in {"run", "maybe_gc"}
      /\ ip => data.handler
  BY <1>2, <1>3 DEF Fits, DataRight
<1>6. Types'
  BY <1>1, <1>2, <1>3, <1>4, <1>5 DEF Types, Places, Traps, GCCheck
<1>7. PlaceRight'
  BY <1>1, <1>2, <1>3, <1>4, <1>5 DEF PlaceRight, At, GCCheck
<1>8. DataRight'
  BY <1>1, <1>2, <1>3, <1>4, <1>5 DEF DataRight, InPA, Stopping, GCCheck
<1>9. CollectionRight'
  BY <1>1, <1>2, <1>3, <1>4, <1>5 DEF CollectionRight, InPA, Stopping, OfGC,
       GCCheck
<1>10. MaskFits'
  BY <1>1, <1>2, <1>3, <1>4, <1>5 DEF MaskFits, GCCheck
<1>11. SignalRight'
  BY <1>1, <1>2, <1>3, <1>4, <1>5 DEF SignalRight, InPA, OfGC, GCCheck
<1>12. NoteRight'
  BY <1>1, <1>2, <1>3, <1>4, <1>5 DEF NoteRight, GCCheck
<1>13. RoomRight'
  BY <1>1, <1>2, <1>3, <1>4, <1>5 DEF RoomRight, InPA, GCCheck
<1> QED  BY <1>1, <1>6, <1>7, <1>8, <1>9, <1>10, <1>11, <1>12, <1>13 DEF IInv,
     NowRight, NoOtherLoss, GCCheck

\* WITHOUT-GCING allows collections again.
LEMMA LeaveWithoutGcingKeeps ==
  ASSUME IInv, LeaveWithoutGcing
  PROVE  IInv'
<1>1. /\ stack' \in Seq(Frames) /\ StackRight(stack') /\ Len(stack') = Len(stack)
      /\ F1' = F1 /\ F2' = F2 /\ F3' = F3 /\ F4' = F4
  BY StayNow DEF LeaveWithoutGcing
<1>2. /\ Types /\ PlaceRight /\ DataRight /\ CollectionRight /\ MaskFits
      /\ SignalRight /\ NoteRight /\ RoomRight
  BY DEF IInv, NowRight, Alive, LeaveWithoutGcing, Free, TopIs, Top
<1>3. /\ F1.k = "wg" /\ dyn = Inside(F1.dyn) /\ F1.dyn \in Bindings /\ ~pa
      /\ F1.ret = "run" \/ OfGC(F1)
  BY Now, <1>2 DEF PlaceRight, DataRight, At, InLisp, OfGC, LeaveWithoutGcing,
       Free, TopIs, Top
<1>4. /\ dyn' = [Inside(F1.dyn) EXCEPT !.inhibit = FALSE] /\ dyn' \in Bindings
      /\ dyn.inhibit /\ ~dyn'.ie /\ dyn'.unb = dyn.unb /\ ~dyn.ie
  BY <1>3 DEF Bindings, Inside, LeaveWithoutGcing
<1>5. Types'
  BY <1>1, <1>2, <1>3, <1>4 DEF Types, Places, Traps, LeaveWithoutGcing, Free,
       TopIs, Top
<1>6. PlaceRight'
  BY <1>1, <1>2, <1>3, <1>4 DEF PlaceRight, At, LeaveWithoutGcing, Free, TopIs,
       Top
<1>7. DataRight'
  BY <1>1, <1>2, <1>3, <1>4 DEF DataRight, InPA, Stopping, LeaveWithoutGcing,
       Free, TopIs, Top
<1>8. CollectionRight'
  BY <1>1, <1>2, <1>3, <1>4 DEF CollectionRight, InPA, Stopping, OfGC,
       LeaveWithoutGcing, Free, TopIs, Top
<1>9. MaskFits'
  BY <1>1, <1>2, <1>3, <1>4 DEF MaskFits, LeaveWithoutGcing, Free, TopIs, Top
<1>10. SignalRight'
  BY <1>1, <1>2, <1>3, <1>4 DEF SignalRight, InPA, LeaveWithoutGcing, Free,
       TopIs, Top
<1>11. NoteRight'
  BY <1>1, <1>2, <1>3, <1>4 DEF NoteRight, LeaveWithoutGcing, Free, TopIs, Top
<1>12. RoomRight'
  BY <1>1, <1>2, <1>3, <1>4 DEF RoomRight, InPA, LeaveWithoutGcing, Free,
       TopIs, Top
<1> QED  BY <1>1, <1>5, <1>6, <1>7, <1>8, <1>9, <1>10, <1>11, <1>12 DEF IInv,
     NowRight, NoOtherLoss, LeaveWithoutGcing, Free, TopIs, Top

\* WITHOUT-GCING turns interrupts on again.
LEMMA UnbindInterruptsKeeps ==
  ASSUME IInv, UnbindInterrupts
  PROVE  IInv'
<1>1. /\ stack' \in Seq(Frames) /\ StackRight(stack') /\ Len(stack') = Len(stack)
      /\ F1' = F1 /\ F2' = F2 /\ F3' = F3 /\ F4' = F4
  BY StayNow DEF UnbindInterrupts
<1>2. /\ Types /\ PlaceRight /\ DataRight /\ CollectionRight /\ MaskFits
      /\ SignalRight /\ NoteRight /\ RoomRight
  BY DEF IInv, NowRight, Alive, UnbindInterrupts
<1>3. /\ F1.k = "wg" /\ dyn = [Inside(F1.dyn) EXCEPT !.inhibit = FALSE]
      /\ F1.dyn \in Bindings /\ Top = F1 /\ Fits(F1, F2, F3)
  BY Now, <1>2 DEF PlaceRight, At, UnbindInterrupts, Top
<1>4. /\ dyn' = [F1.dyn EXCEPT !.inwg = TRUE] /\ dyn' \in Bindings
      /\ dyn'.unb = dyn.unb /\ ~dyn'.inhibit
  BY <1>3 DEF Bindings, Inside, UnbindInterrupts, Fits
<1>5. Types'
  BY <1>1, <1>2, <1>3, <1>4 DEF Types, Places, Traps, UnbindInterrupts
<1>6. PlaceRight'
  BY <1>1, <1>2, <1>3, <1>4 DEF PlaceRight, At, UnbindInterrupts
<1>7. DataRight'
  BY <1>1, <1>2, <1>3, <1>4 DEF DataRight, InPA, Stopping, UnbindInterrupts
<1>8. CollectionRight'
  BY <1>1, <1>2, <1>3, <1>4 DEF CollectionRight, InPA, Stopping, OfGC,
       UnbindInterrupts
<1>9. MaskFits'
  BY <1>1, <1>2, <1>3, <1>4 DEF MaskFits, UnbindInterrupts
<1>10. SignalRight'
  BY <1>1, <1>2, <1>3, <1>4 DEF SignalRight, InPA, UnbindInterrupts
<1>11. NoteRight'
  BY <1>1, <1>2, <1>3, <1>4 DEF NoteRight, UnbindInterrupts
<1>12. RoomRight'
  BY <1>1, <1>2, <1>3, <1>4 DEF RoomRight, InPA, UnbindInterrupts
<1> QED  BY <1>1, <1>5, <1>6, <1>7, <1>8, <1>9, <1>10, <1>11, <1>12 DEF IInv,
     NowRight, NoOtherLoss, UnbindInterrupts

\* WITHOUT-GCING looks for what it put off.
LEMMA CheckAfterGcingKeeps ==
  ASSUME IInv, CheckAfterGcing
  PROVE  IInv'
<1>1. /\ stack' \in Seq(Frames) /\ StackRight(stack') /\ Len(stack') = Len(stack)
      /\ F1' = F1 /\ F2' = F2 /\ F3' = F3 /\ F4' = F4
  BY StayNow DEF CheckAfterGcing
<1>2. /\ Types /\ PlaceRight /\ DataRight /\ CollectionRight /\ MaskFits
      /\ SignalRight /\ NoteRight /\ RoomRight
  BY DEF IInv, NowRight, Alive, CheckAfterGcing
<1>3. /\ F1.k = "wg" /\ dyn = [F1.dyn EXCEPT !.inwg = TRUE]
      /\ F1.dyn \in Bindings /\ F2.dyn \in Bindings /\ Fits(F1, F2, F3)
  BY Now, <1>2 DEF PlaceRight, At, CheckAfterGcing
<1>4. /\ OfGC(F1) => ~dyn.ie
      /\ dyn.unb = F1.dyn.unb
  BY <1>3 DEF Fits, OfGC, NoInts, Bindings
<1>5. Types'
  BY <1>1, <1>2, <1>3, <1>4 DEF Types, Places, Traps, CheckAfterGcing
<1>6. PlaceRight'
  BY <1>1, <1>2, <1>3, <1>4 DEF PlaceRight, At, CheckAfterGcing
<1>7. DataRight'
  BY <1>1, <1>2, <1>3, <1>4 DEF DataRight, InPA, Stopping, CheckAfterGcing
<1>8. CollectionRight'
  BY <1>1, <1>2, <1>3, <1>4 DEF CollectionRight, InPA, Stopping, OfGC,
       CheckAfterGcing
<1>9. MaskFits'
  BY <1>1, <1>2, <1>3, <1>4 DEF MaskFits, CheckAfterGcing
<1>10. SignalRight'
  BY <1>1, <1>2, <1>3, <1>4 DEF SignalRight, InPA, CheckAfterGcing
<1>11. NoteRight'
  BY <1>1, <1>2, <1>3, <1>4 DEF NoteRight, CheckAfterGcing
<1>12. RoomRight'
  BY <1>1, <1>2, <1>3, <1>4 DEF RoomRight, InPA, CheckAfterGcing
<1> QED  BY <1>1, <1>5, <1>6, <1>7, <1>8, <1>9, <1>10, <1>11, <1>12 DEF IInv,
     NowRight, NoOtherLoss, CheckAfterGcing

\* WITHOUT-INTERRUPTS looks for what it put off.
LEMMA CheckAfterInterruptsKeeps ==
  ASSUME IInv, CheckAfterInterrupts
  PROVE  IInv'
<1>1. /\ stack' \in Seq(Frames) /\ StackRight(stack') /\ Len(stack') = Len(stack)
      /\ F1' = F1 /\ F2' = F2 /\ F3' = F3 /\ F4' = F4
  BY StayNow DEF CheckAfterInterrupts
<1>2. /\ Types /\ PlaceRight /\ DataRight /\ CollectionRight /\ MaskFits
      /\ SignalRight /\ NoteRight /\ RoomRight
  BY DEF IInv, NowRight, Alive, CheckAfterInterrupts
<1>3. F1.k \notin {"gc", "pend"} /\ ~OfGC(F1) /\ dyn.ie /\ ~pa
  BY <1>2 DEF PlaceRight, DataRight, At, InLisp, OfGC, CheckAfterInterrupts
<1>4. Types'
  BY <1>1, <1>2, <1>3 DEF Types, Places, Traps, CheckAfterInterrupts
<1>5. PlaceRight'
  BY <1>1, <1>2, <1>3 DEF PlaceRight, At, CheckAfterInterrupts
<1>6. DataRight'
  BY <1>1, <1>2, <1>3 DEF DataRight, InPA, Stopping, CheckAfterInterrupts
<1>7. CollectionRight'
  BY <1>1, <1>2, <1>3 DEF CollectionRight, InPA, Stopping, OfGC,
       CheckAfterInterrupts
<1>8. MaskFits'
  BY <1>1, <1>2, <1>3 DEF MaskFits, CheckAfterInterrupts
<1>9. SignalRight'
  BY <1>1, <1>2, <1>3 DEF SignalRight, InPA, CheckAfterInterrupts
<1>10. NoteRight'
  BY <1>1, <1>2, <1>3 DEF NoteRight, CheckAfterInterrupts
<1>11. RoomRight'
  BY <1>1, <1>2, <1>3 DEF RoomRight, InPA, CheckAfterInterrupts
<1> QED  BY <1>1, <1>4, <1>5, <1>6, <1>7, <1>8, <1>9, <1>10, <1>11 DEF IInv,
     NowRight, NoOtherLoss, CheckAfterInterrupts

\* A handler returns.
LEMMA HandlerReturnKeeps ==
  ASSUME IInv, HandlerReturn
  PROVE  IInv'
<1>1. /\ stack' \in Seq(Frames) /\ StackRight(stack') /\ Len(stack') = Len(stack)
      /\ F1' = F1 /\ F2' = F2 /\ F3' = F3 /\ F4' = F4
  BY StayNow DEF HandlerReturn
<1>2. /\ Types /\ PlaceRight /\ DataRight /\ CollectionRight /\ MaskFits
      /\ SignalRight /\ NoteRight /\ RoomRight
  BY DEF IInv, NowRight, Alive, HandlerReturn, Free, TopIs, Top
<1>3. /\ F1.k = "sig" /\ dyn = InHandler(F1.dyn) /\ F1.dyn \in Bindings /\ ~pa
      /\ Top = F1 /\ Fits(F1, F2, F3)
  BY Now, <1>2 DEF PlaceRight, DataRight, At, InLisp, HandlerReturn, Free,
       TopIs, Top
<1>4. /\ dyn' = F1.dyn /\ dyn' \in Bindings
      /\ dyn'.ie /\ ~dyn'.unb /\ dyn.unb /\ dyn'.inhibit = dyn.inhibit
  BY <1>3 DEF Bindings, InHandler, HandlerReturn, Fits
<1>5. Types'
  BY <1>1, <1>2, <1>3, <1>4 DEF Types, Places, Traps, HandlerReturn, Free,
       TopIs, Top
<1>6. PlaceRight'
  BY <1>1, <1>2, <1>3, <1>4 DEF PlaceRight, At, HandlerReturn, Free, TopIs, Top
<1>7. DataRight'
  BY <1>1, <1>2, <1>3, <1>4 DEF DataRight, InPA, Stopping, HandlerReturn, Free,
       TopIs, Top
<1>8. CollectionRight'
  BY <1>1, <1>2, <1>3, <1>4 DEF CollectionRight, InPA, Stopping, OfGC,
       HandlerReturn, Free, TopIs, Top
<1>9. MaskFits'
  BY <1>1, <1>2, <1>3, <1>4 DEF MaskFits, MaskIf, HandlerReturn, Free, TopIs,
       Top
<1>10. SignalRight'
  BY <1>1, <1>2, <1>3, <1>4 DEF SignalRight, InPA, HandlerReturn, Free, TopIs,
       Top
<1>11. NoteRight'
  BY <1>1, <1>2, <1>3, <1>4 DEF NoteRight, HandlerReturn, Free, TopIs, Top
<1>12. RoomRight'
  BY <1>1, <1>2, <1>3, <1>4 DEF RoomRight, InPA, HandlerReturn, Free, TopIs,
       Top
<1> QED  BY <1>1, <1>5, <1>6, <1>7, <1>8, <1>9, <1>10, <1>11, <1>12 DEF IInv,
     NowRight, NoOtherLoss, HandlerReturn, Free, TopIs, Top

\* A handler looks for what it put off.
LEMMA CheckAfterHandlerKeeps ==
  ASSUME IInv, CheckAfterHandler
  PROVE  IInv'
<1>1. /\ stack' \in Seq(Frames) /\ StackRight(stack') /\ Len(stack') = Len(stack)
      /\ F1' = F1 /\ F2' = F2 /\ F3' = F3 /\ F4' = F4
  BY StayNow DEF CheckAfterHandler
<1>2. /\ Types /\ PlaceRight /\ DataRight /\ CollectionRight /\ MaskFits
      /\ SignalRight /\ NoteRight /\ RoomRight
  BY DEF IInv, NowRight, Alive, CheckAfterHandler
<1>3. F1.k = "sig" /\ dyn = F1.dyn
  BY <1>2 DEF PlaceRight, At, CheckAfterHandler
<1>4. ~ip /\ ~data.handler
  BY <1>2 DEF DataRight, SignalRight, CheckAfterHandler
<1>5. Types'
  BY <1>1, <1>2, <1>3, <1>4 DEF Types, Places, Traps, CheckAfterHandler
<1>6. PlaceRight'
  BY <1>1, <1>2, <1>3, <1>4 DEF PlaceRight, At, CheckAfterHandler
<1>7. DataRight'
  BY <1>1, <1>2, <1>3, <1>4 DEF DataRight, InPA, Stopping, CheckAfterHandler
<1>8. CollectionRight'
  BY <1>1, <1>2, <1>3, <1>4 DEF CollectionRight, InPA, Stopping, OfGC,
       CheckAfterHandler
<1>9. MaskFits'
  BY <1>1, <1>2, <1>3, <1>4 DEF MaskFits, CheckAfterHandler
<1>10. SignalRight'
  BY <1>1, <1>2, <1>3, <1>4 DEF SignalRight, InPA, CheckAfterHandler
<1>11. NoteRight'
  BY <1>1, <1>2, <1>3, <1>4 DEF NoteRight, CheckAfterHandler
<1>12. RoomRight'
  BY <1>1, <1>2, <1>3, <1>4 DEF RoomRight, InPA, CheckAfterHandler
<1> QED  BY <1>1, <1>5, <1>6, <1>7, <1>8, <1>9, <1>10, <1>11, <1>12 DEF IInv,
     NowRight, NoOtherLoss, CheckAfterHandler

\* A handler unwinds.
LEMMA ThrowKeeps ==
  ASSUME IInv, Throw
  PROVE  IInv'
<1>1. /\ stack' \in Seq(Frames) /\ StackRight(stack') /\ Len(stack') = Len(stack)
      /\ F1' = F1 /\ F2' = F2 /\ F3' = F3 /\ F4' = F4
  BY StayNow DEF Throw
<1>2. /\ Types /\ PlaceRight /\ DataRight /\ CollectionRight /\ MaskFits
      /\ SignalRight /\ NoteRight /\ RoomRight
  BY DEF IInv, NowRight, Alive, Throw, Free, TopIs, Top
<1>3. F1.k = "sig" /\ dyn = InHandler(F1.dyn) /\ ~pa
  BY Now, <1>2 DEF PlaceRight, DataRight, At, InLisp, Throw, Free, TopIs, Top
<1>4. dyn.unb /\ ~dyn.ie
  BY Now, <1>3 DEF Bindings, InHandler
<1>5. ~data.handler
  BY <1>2, <1>4 DEF SignalRight, Throw, Free
<1>6. Types'
  BY <1>1, <1>2, <1>3, <1>4, <1>5 DEF Types, Places, Traps, Throw, Free, TopIs,
       Top
<1>7. PlaceRight'
  BY <1>1, <1>2, <1>3, <1>4, <1>5 DEF PlaceRight, At, Throw, Free, TopIs, Top
<1>8. DataRight'
  BY <1>1, <1>2, <1>3, <1>4, <1>5 DEF DataRight, InPA, Stopping, Throw, Free,
       TopIs, Top
<1>9. CollectionRight'
  BY <1>1, <1>2, <1>3, <1>4, <1>5 DEF CollectionRight, InPA, Stopping, OfGC,
       Throw, Free, TopIs, Top
<1>10. MaskFits'
  BY <1>1, <1>2, <1>3, <1>4, <1>5 DEF MaskFits, MaskIf, Throw, Free, TopIs, Top
<1>11. SignalRight'
  BY <1>1, <1>2, <1>3, <1>4, <1>5 DEF SignalRight, InPA, Throw, Free, TopIs,
       Top
<1>12. NoteRight'
  BY <1>1, <1>2, <1>3, <1>4, <1>5 DEF NoteRight, Throw, Free, TopIs, Top
<1>13. RoomRight'
  BY <1>1, <1>2, <1>3, <1>4, <1>5 DEF RoomRight, InPA, Throw, Free, TopIs, Top
<1> QED  BY <1>1, <1>6, <1>7, <1>8, <1>9, <1>10, <1>11, <1>12, <1>13 DEF IInv,
     NowRight, NoOtherLoss, Throw, Free, TopIs, Top

\* The bindings of a handler that unwinds are undone.
LEMMA UnbindThrowKeeps ==
  ASSUME IInv, UnbindThrow
  PROVE  IInv'
<1>1. /\ stack' \in Seq(Frames) /\ StackRight(stack') /\ Len(stack') = Len(stack)
      /\ F1' = F1 /\ F2' = F2 /\ F3' = F3 /\ F4' = F4
  BY StayNow DEF UnbindThrow
<1>2. /\ Types /\ PlaceRight /\ DataRight /\ CollectionRight /\ MaskFits
      /\ SignalRight /\ NoteRight /\ RoomRight
  BY DEF IInv, NowRight, Alive, UnbindThrow
<1>3. /\ F1.k = "sig" /\ dyn = InHandler(F1.dyn)
      /\ F1.dyn \in Bindings /\ Top = F1 /\ Fits(F1, F2, F3)
  BY Now, <1>2 DEF PlaceRight, At, UnbindThrow, Top
<1>4. /\ dyn' = F1.dyn /\ dyn' \in Bindings
      /\ dyn'.ie /\ ~dyn'.unb /\ dyn'.inhibit = dyn.inhibit
  BY <1>3 DEF Bindings, InHandler, UnbindThrow, Fits
<1>5. Types'
  BY <1>1, <1>2, <1>3, <1>4 DEF Types, Places, Traps, UnbindThrow
<1>6. PlaceRight'
  BY <1>1, <1>2, <1>3, <1>4 DEF PlaceRight, At, UnbindThrow
<1>7. DataRight'
  BY <1>1, <1>2, <1>3, <1>4 DEF DataRight, InPA, Stopping, UnbindThrow
<1>8. CollectionRight'
  BY <1>1, <1>2, <1>3, <1>4 DEF CollectionRight, InPA, Stopping, OfGC,
       UnbindThrow
<1>9. MaskFits'
  BY <1>1, <1>2, <1>3, <1>4 DEF MaskFits, MaskIf, InMaybeGC, OfGC, DataRight,
       InPA, UnbindThrow
<1>10. SignalRight'
  BY <1>1, <1>2, <1>3, <1>4 DEF SignalRight, InPA, UnbindThrow
<1>11. NoteRight'
  BY <1>1, <1>2, <1>3, <1>4 DEF NoteRight, UnbindThrow
<1>12. RoomRight'
  BY <1>1, <1>2, <1>3, <1>4 DEF RoomRight, InPA, UnbindThrow
<1> QED  BY <1>1, <1>5, <1>6, <1>7, <1>8, <1>9, <1>10, <1>11, <1>12 DEF IInv,
     NowRight, NoOtherLoss, UnbindThrow

\* Unwinding turns interrupts on and looks for what was put off.
LEMMA CheckInThrowKeeps ==
  ASSUME IInv, CheckInThrow
  PROVE  IInv'
<1>1. /\ stack' \in Seq(Frames) /\ StackRight(stack') /\ Len(stack') = Len(stack)
      /\ F1' = F1 /\ F2' = F2 /\ F3' = F3 /\ F4' = F4
  BY StayNow DEF CheckInThrow
<1>2. /\ Types /\ PlaceRight /\ DataRight /\ CollectionRight /\ MaskFits
      /\ SignalRight /\ NoteRight /\ RoomRight
  BY DEF IInv, NowRight, Alive, CheckInThrow
<1>3. F1.k = "sig" /\ dyn = F1.dyn /\ dyn.ie
  BY Now, <1>2 DEF PlaceRight, At, CheckInThrow, Fits
<1>4. Types'
  BY <1>1, <1>2, <1>3 DEF Types, Places, Traps, CheckInThrow
<1>5. PlaceRight'
  BY <1>1, <1>2, <1>3 DEF PlaceRight, At, CheckInThrow
<1>6. DataRight'
  BY <1>1, <1>2, <1>3 DEF DataRight, InPA, Stopping, CheckInThrow
<1>7. CollectionRight'
  BY <1>1, <1>2, <1>3 DEF CollectionRight, InPA, Stopping, OfGC, CheckInThrow
<1>8. MaskFits'
  BY <1>1, <1>2, <1>3 DEF MaskFits, CheckInThrow
<1>9. SignalRight'
  BY <1>1, <1>2, <1>3 DEF SignalRight, InPA, OfGC, CheckInThrow
<1>10. NoteRight'
  BY <1>1, <1>2, <1>3 DEF NoteRight, CheckInThrow
<1>11. RoomRight'
  BY <1>1, <1>2, <1>3 DEF RoomRight, InPA, CheckInThrow
<1> QED  BY <1>1, <1>4, <1>5, <1>6, <1>7, <1>8, <1>9, <1>10, <1>11 DEF IInv,
     NowRight, NoOtherLoss, CheckInThrow

\* A deferrable signal is sent.
LEMMA SendSignalKeeps ==
  ASSUME IInv, SendSignal
  PROVE  IInv'
<1>1. /\ stack' \in Seq(Frames) /\ StackRight(stack') /\ Len(stack') = Len(stack)
      /\ F1' = F1 /\ F2' = F2 /\ F3' = F3 /\ F4' = F4
  BY StayNow DEF SendSignal
<1>2. Alive => /\ Types /\ PlaceRight /\ DataRight /\ CollectionRight /\ MaskFits
               /\ SignalRight /\ NoteRight /\ RoomRight
  BY DEF IInv, NowRight, SendSignal
<1>3. Types'
  BY <1>1 DEF IInv, Types, All, SendSignal
<1>4. Alive => PlaceRight'
  BY <1>1, <1>2 DEF PlaceRight, At, Alive, SendSignal
<1>5. Alive => DataRight'
  BY <1>1, <1>2 DEF DataRight, InPA, Stopping, Alive, SendSignal
<1>6. Alive => CollectionRight'
  BY <1>1, <1>2 DEF CollectionRight, InPA, Stopping, OfGC, Alive, SendSignal
<1>7. Alive => MaskFits'
  BY <1>1, <1>2 DEF MaskFits, Alive, SendSignal
<1>8. Alive => SignalRight'
  BY <1>1, <1>2 DEF SignalRight, InPA, Alive, SendSignal
<1>9. Alive => NoteRight'
  BY <1>1, <1>2 DEF NoteRight, Alive, SendSignal
<1>10. Alive => RoomRight'
  BY <1>1, <1>2 DEF RoomRight, InPA, Alive, SendSignal
<1> QED  BY <1>1, <1>3, <1>4, <1>5, <1>6, <1>7, <1>8, <1>9, <1>10 DEF IInv,
     NowRight, Alive, NoOtherLoss, SendSignal

\* Another thread is about to collect.
LEMMA OtherGCKeeps ==
  ASSUME IInv, OtherGC
  PROVE  IInv'
<1>1. /\ stack' \in Seq(Frames) /\ StackRight(stack') /\ Len(stack') = Len(stack)
      /\ F1' = F1 /\ F2' = F2 /\ F3' = F3 /\ F4' = F4
  BY StayNow DEF OtherGC
<1>2. Alive => /\ Types /\ PlaceRight /\ DataRight /\ CollectionRight /\ MaskFits
               /\ SignalRight /\ NoteRight /\ RoomRight
  BY DEF IInv, NowRight, OtherGC
<1>3. Types'
  BY <1>1 DEF IInv, Types, All, OtherGC
<1>4. Alive => PlaceRight'
  BY <1>1, <1>2 DEF PlaceRight, At, Alive, OtherGC
<1>5. Alive => DataRight'
  BY <1>1, <1>2 DEF DataRight, InPA, Stopping, Alive, OtherGC
<1>6. Alive => CollectionRight'
  BY <1>1, <1>2 DEF CollectionRight, InPA, Stopping, OfGC, Alive, OtherGC
<1>7. Alive => MaskFits'
  BY <1>1, <1>2 DEF MaskFits, Alive, OtherGC
<1>8. Alive => SignalRight'
  BY <1>1, <1>2 DEF SignalRight, InPA, Alive, OtherGC
<1>9. Alive => NoteRight'
  BY <1>1, <1>2 DEF NoteRight, Alive, OtherGC
<1>10. Alive => RoomRight'
  BY <1>1, <1>2 DEF RoomRight, InPA, Alive, OtherGC
<1> QED  BY <1>1, <1>3, <1>4, <1>5, <1>6, <1>7, <1>8, <1>9, <1>10 DEF IInv,
     NowRight, Alive, NoOtherLoss, OtherGC

\* What maybe_save_gc_mask_and_block_deferrables leaves: nothing changes while a
\* signal is stored; otherwise signals are blocked, and the mask is remembered.
LEMMA Saved ==
  ASSUME data \in DataOf, mask = MaskIf(data.handler \/ data.gbd \/ dyn.unb),
         data.handler => ~data.gbd, data.gbd => data.mask = MaskIf(dyn.unb),
         SaveMaskAndBlock(mask)
  PROVE  /\ data' \in DataOf /\ mask' \subseteq All /\ (data'.handler <=> data.handler)
         /\ data.handler => data' = data /\ mask' = mask
         /\ ~data.handler => data'.gbd /\ mask' = {"def"}
         /\ data'.gbd => data'.mask = MaskIf(dyn.unb)
<1>1. MaskIf(TRUE) = {"def"} /\ MaskIf(FALSE) = {} /\ mask \subseteq All
  BY DEF MaskIf, All
<1>2. CASE data.handler
  BY <1>1, <1>2 DEF SaveMaskAndBlock
<1>3. CASE data.gbd
  BY <1>1, <1>3 DEF SaveMaskAndBlock
<1>4. CASE ~data.handler /\ ~data.gbd
  <2>1. mask = MaskIf(dyn.unb)
    BY <1>4 DEF MaskIf
  <2>2. data' = [data EXCEPT !.gbd = TRUE, !.mask = mask] /\ mask' = mask \cup {"def"}
    BY <1>4 DEF SaveMaskAndBlock
  <2>3. /\ data' \in DataOf /\ data'.gbd /\ data'.mask = mask
        /\ (data'.handler <=> data.handler)
    BY <1>1, <2>2 DEF DataOf
  <2>4. mask' = {"def"} /\ mask' \subseteq All
    BY <1>1, <2>2, <2>1 DEF MaskIf, All
  <2> QED  BY <1>4, <2>1, <2>3, <2>4
<1> QED  BY <1>2, <1>3, <1>4

\* The allocator finds that it is time for a collection.
LEMMA TriggerGCKeeps ==
  ASSUME IInv, TriggerGC
  PROVE  IInv'
<1>1. /\ stack' \in Seq(Frames) /\ StackRight(stack') /\ Len(stack') = Len(stack)
      /\ F1' = F1 /\ F2' = F2 /\ F3' = F3 /\ F4' = F4
  BY StayNow DEF TriggerGC
<1>2. /\ Types /\ PlaceRight /\ DataRight /\ CollectionRight /\ MaskFits
      /\ SignalRight /\ NoteRight /\ RoomRight
  BY DEF IInv, NowRight, Alive, TriggerGC
<1>3. ~OfGC(F1) /\ ~InMaybeGC(F1, F2)
  BY <1>2 DEF PlaceRight, At, InLisp, OfGC, InMaybeGC, TriggerGC
<1>4. /\ data' \in DataOf /\ mask' \subseteq All /\ (data'.handler <=> data.handler)
      /\ data.handler \/ dyn.inhibit => data' = data /\ mask' = mask
      /\ ~dyn.inhibit => pai'
      /\ ~data.handler /\ ~dyn.inhibit => data'.gbd
      /\ data'.gbd => data'.mask = MaskIf(dyn.unb)
      /\ ~data.handler /\ ~dyn.inhibit => mask' = {"def"}
  <2>1. /\ data \in DataOf /\ mask = MaskIf(data.handler \/ data.gbd \/ dyn.unb)
        /\ mask \subseteq All
        /\ data.handler => ~data.gbd
        /\ data.gbd => data.mask = MaskIf(dyn.unb) /\ ~dyn.inhibit
    BY <1>2, <1>3 DEF Types, DataRight, MaskFits, TriggerGC
  <2>2. CASE dyn.inhibit
    BY <2>1, <2>2 DEF TriggerGC
  <2>3. CASE ~dyn.inhibit
    <3>1. pai' /\ SaveMaskAndBlock(mask)
      BY <2>3 DEF TriggerGC
    <3> QED  BY <2>1, <2>3, <3>1, Saved
  <2> QED  BY <2>2, <2>3
<1>5. Types'
  BY <1>1, <1>2, <1>3, <1>4 DEF Types, Places, Traps, TriggerGC
<1>6. PlaceRight'
  BY <1>1, <1>2, <1>3, <1>4 DEF PlaceRight, At, TriggerGC
<1>7. DataRight'
  BY <1>1, <1>2, <1>3, <1>4 DEF DataRight, InPA, Stopping, TriggerGC
<1>8. CollectionRight'
  BY <1>1, <1>2, <1>3, <1>4 DEF CollectionRight, InPA, Stopping, OfGC,
       TriggerGC
<1>9. MaskFits'
  BY <1>1, <1>2, <1>3, <1>4 DEF MaskFits, MaskIf, TriggerGC
<1>10. SignalRight'
  BY <1>1, <1>2, <1>3, <1>4 DEF SignalRight, InPA, TriggerGC
<1>11. NoteRight'
  BY <1>1, <1>2, <1>3, <1>4 DEF NoteRight, TriggerGC
<1>12. RoomRight'
  BY <1>1, <1>2, <1>3, <1>4 DEF RoomRight, InPA, HasRoom, TriggerGC
<1> QED  BY <1>1, <1>5, <1>6, <1>7, <1>8, <1>9, <1>10, <1>11, <1>12 DEF IInv,
     NowRight, NoOtherLoss, TriggerGC

\* The stop signal of another collection arrives.
LEMMA StopSignalKeeps ==
  ASSUME IInv, StopSignal
  PROVE  IInv'
<1>1. /\ stack' \in Seq(Frames) /\ StackRight(stack') /\ Len(stack') = Len(stack)
      /\ F1' = F1 /\ F2' = F2 /\ F3' = F3 /\ F4' = F4
  BY StayNow DEF StopSignal
<1>2. /\ Types /\ PlaceRight /\ DataRight /\ CollectionRight /\ MaskFits
      /\ SignalRight /\ NoteRight /\ RoomRight
  BY DEF IInv, NowRight, Alive, StopSignal
<1>3. pa \/ pc = "paTrap" => ~OfGC(F1) /\ ~InMaybeGC(F1, F2)
  BY <1>2 DEF PlaceRight, DataRight, At, InLisp, OfGC, InMaybeGC
<1>4. /\ pa => pc = "run"
      /\ data.gbd => pa \/ pc = "paTrap"
      /\ other = "signalled" /\ sigs' = sigs \ {"gc"}
      /\ UNCHANGED <<pc, stack, dyn, ip, pa>>
  BY <1>2 DEF DataRight, InPA, CollectionRight, StopSignal
<1>5. CASE dyn.inhibit
  <2>1. /\ gc' = [gc EXCEPT !.stop = TRUE] /\ UNCHANGED <<pai, data, mask, other>>
        /\ gc' \in [pending : BOOLEAN, stop : BOOLEAN] /\ gc'.stop
        /\ (gc'.pending <=> gc.pending)
    BY <1>2, <1>5 DEF Types, StopSignal
  <2>2. Types'
    BY <1>1, <1>2, <1>3, <1>4, <1>5, <2>1 DEF Types, Places, Traps
  <2>3. PlaceRight'
    BY <1>1, <1>2, <1>3, <1>4, <1>5, <2>1 DEF PlaceRight, At
  <2>4. DataRight'
    BY <1>1, <1>2, <1>3, <1>4, <1>5, <2>1 DEF DataRight, InPA, Stopping
  <2>5. CollectionRight'
    BY <1>1, <1>2, <1>3, <1>4, <1>5, <2>1 DEF CollectionRight, InPA, Stopping,
         OfGC
  <2>6. MaskFits'
    BY <1>1, <1>2, <1>3, <1>4, <1>5, <2>1 DEF MaskFits
  <2>7. SignalRight'
    BY <1>1, <1>2, <1>3, <1>4, <1>5, <2>1 DEF SignalRight, InPA
  <2>8. NoteRight'
    BY <1>1, <1>2, <1>3, <1>4, <1>5, <2>1 DEF NoteRight
  <2>9. RoomRight'
    BY <1>1, <1>2, <1>3, <1>4, <1>5, <2>1 DEF RoomRight, InPA
  <2> QED  BY <1>1, <1>4, <2>2, <2>3, <2>4, <2>5, <2>6, <2>7, <2>8, <2>9 DEF
       IInv, NowRight, NoOtherLoss, Alive, StopSignal
<1>6. CASE ~dyn.inhibit /\ pa
  <2>1. /\ gc' = [gc EXCEPT !.stop = TRUE] /\ pai' /\ pai' \in BOOLEAN /\ UNCHANGED other
        /\ gc' \in [pending : BOOLEAN, stop : BOOLEAN] /\ gc'.stop
        /\ (gc'.pending <=> gc.pending)
    BY <1>2, <1>6 DEF Types, StopSignal
  <2>2. /\ data' \in DataOf /\ mask' \subseteq All /\ (data'.handler <=> data.handler)
        /\ data.handler => data' = data /\ mask' = mask
        /\ ~data.handler => data'.gbd /\ mask' = {"def"}
        /\ data'.gbd => data'.mask = MaskIf(dyn.unb)
    <3>1. /\ data \in DataOf /\ mask = MaskIf(data.handler \/ data.gbd \/ dyn.unb)
          /\ data.handler => ~data.gbd
          /\ data.gbd => data.mask = MaskIf(dyn.unb)
      BY <1>2, <1>3, <1>4, <1>6 DEF Types, DataRight, MaskFits
    <3>2. SaveMaskAndBlock(mask)
      BY <1>6 DEF StopSignal
    <3> QED  BY <3>1, <3>2, Saved
  <2>3. Types'
    BY <1>1, <1>2, <1>3, <1>4, <1>6, <2>1, <2>2 DEF Types, Places, Traps
  <2>4. PlaceRight'
    BY <1>1, <1>2, <1>3, <1>4, <1>6, <2>1, <2>2 DEF PlaceRight, At
  <2>5. DataRight'
    BY <1>1, <1>2, <1>3, <1>4, <1>6, <2>1, <2>2 DEF DataRight, InPA, Stopping
  <2>6. CollectionRight'
    BY <1>1, <1>2, <1>3, <1>4, <1>6, <2>1, <2>2 DEF CollectionRight, InPA,
         Stopping, OfGC
  <2>7. MaskFits'
    BY <1>1, <1>2, <1>3, <1>4, <1>6, <2>1, <2>2 DEF MaskFits, MaskIf
  <2>8. SignalRight'
    BY <1>1, <1>2, <1>3, <1>4, <1>6, <2>1, <2>2 DEF SignalRight, InPA
  <2>9. NoteRight'
    BY <1>1, <1>2, <1>3, <1>4, <1>6, <2>1, <2>2 DEF NoteRight
  <2>10. RoomRight'
    BY <1>1, <1>2, <1>3, <1>4, <1>6, <2>1, <2>2 DEF RoomRight, InPA
  <2> QED  BY <1>1, <1>4, <2>3, <2>4, <2>5, <2>6, <2>7, <2>8, <2>9, <2>10 DEF
       IInv, NowRight, NoOtherLoss, Alive, StopSignal
<1>7. CASE ~dyn.inhibit /\ ~pa
  <2>1. /\ gc' = [pending |-> FALSE, stop |-> FALSE] /\ other' = "none"
        /\ data' \in DataOf /\ (data'.handler <=> data.handler) /\ ~data'.gbd
        /\ data'.mask = data.mask
        /\ data.gbd => pai' = FALSE /\ mask' = MaskIf(dyn.unb)
        /\ ~data.gbd => pai' = pai /\ mask' = mask
    BY <1>2, <1>3, <1>4, <1>7 DEF Types, DataOf, DataRight, StopSignal,
         StopHere
  <2>2. Types'
    BY <1>1, <1>2, <1>3, <1>4, <1>7, <2>1 DEF Types, Places, Traps, All, MaskIf
  <2>3. PlaceRight'
    BY <1>1, <1>2, <1>3, <1>4, <1>7, <2>1 DEF PlaceRight, At
  <2>4. DataRight'
    BY <1>1, <1>2, <1>3, <1>4, <1>7, <2>1 DEF DataRight, InPA, Stopping
  <2>5. CollectionRight'
    BY <1>1, <1>2, <1>3, <1>4, <1>7, <2>1 DEF CollectionRight, InPA, Stopping,
         OfGC
  <2>6. MaskFits'
    BY <1>1, <1>2, <1>3, <1>4, <1>7, <2>1 DEF MaskFits, MaskIf, DataRight
  <2>7. SignalRight'
    BY <1>1, <1>2, <1>3, <1>4, <1>7, <2>1 DEF SignalRight, InPA, DataRight
  <2>8. NoteRight'
    BY <1>1, <1>2, <1>3, <1>4, <1>7, <2>1 DEF NoteRight
  <2>9. RoomRight'
    BY <1>1, <1>2, <1>3, <1>4, <1>7, <2>1 DEF RoomRight, InPA
  <2> QED  BY <1>1, <1>4, <2>2, <2>3, <2>4, <2>5, <2>6, <2>7, <2>8, <2>9 DEF
       IInv, NowRight, NoOtherLoss, Alive, StopSignal
<1> QED  BY <1>2, <1>5, <1>6, <1>7 DEF StopSignal

\* SUB-GC enters WITHOUT-GCING.
LEMMA GCEnterKeeps ==
  ASSUME IInv, GCEnter
  PROVE  IInv'
<1> DEFINE f == Frame("wg", {}, "gcAfter", "")
<1>1. /\ f.k = "wg" /\ f.dyn = dyn /\ f.mask = {} /\ f.ret = "gcAfter" /\ f.x = ""
      /\ stack' = Cons(f, stack)
  BY DEF Frame, Push, Cons, GCEnter
<1>2. /\ Types /\ PlaceRight /\ DataRight /\ CollectionRight /\ MaskFits
      /\ SignalRight /\ NoteRight /\ RoomRight
  BY DEF IInv, NowRight, Alive, GCEnter
<1>3. f \in Frames
  BY <1>2 DEF Frame, Frames, Types, Places, Traps
<1> HIDE DEF f
<1>4. /\ F1.k = "gc" /\ dyn = NoInts(F1.dyn) /\ F1.dyn \in Bindings
      /\ Fits(F1, F2, F3) /\ Len(stack) <= Height(F1)
  BY Now, <1>2 DEF PlaceRight, At, GCEnter
<1>5. /\ ~dyn.inhibit /\ ~dyn.ie /\ ~dyn.awi
      /\ dyn' = Inside(f.dyn) /\ dyn' \in Bindings /\ dyn'.unb = dyn.unb
      /\ dyn'.inhibit /\ ~dyn'.ie
      /\ F1.ret \in {"run", "maybe_gc"}
  <2>1. ~F1.dyn.inhibit /\ F1.ret \in {"run", "maybe_gc"}
    BY <1>4 DEF Fits
  <2>2. ~dyn.inhibit /\ ~dyn.ie /\ ~dyn.awi /\ dyn \in Bindings
    BY <1>4, <2>1 DEF NoInts, Bindings
  <2>3. dyn' = [dyn EXCEPT !.inhibit = TRUE, !.inwg = TRUE]
    BY DEF GCEnter
  <2> QED  BY <1>1, <2>1, <2>2, <2>3 DEF Inside, Bindings
<1>6. Fits(f, F1, F2)
  BY <1>1, <1>4, <1>5 DEF Fits
<1>7. Len(stack) + 1 <= Height(f)
  <2>1. MaxDepth \in Nat /\ Height(f) \in Int /\ Height(f) >= MaxDepth + 2
    BY <1>1, Heights DEF OfGC
  <2>2. F1.mask = {} /\ F1.k # "pend" /\ ~OfGC(F1)
    BY <1>4 DEF Fits, OfGC
  <2>3. Height(F1) \in Int /\ Height(F1) <= MaxDepth + 1
    BY <2>2, Heights, NotAll
  <2> QED  BY Now, <1>4, <2>1, <2>3
<1>8. /\ stack' \in Seq(Frames) /\ StackRight(stack') /\ Len(stack') = Len(stack) + 1
      /\ F1' = f /\ F2' = F1 /\ F3' = F2 /\ F4' = F3
  BY PushNow, <1>1, <1>3, <1>6, <1>7
<1>9. Types'
  BY <1>1, <1>2, <1>3, <1>4, <1>5, <1>8 DEF Types, Places, Traps, GCEnter
<1>10. PlaceRight'
  BY <1>1, <1>2, <1>3, <1>4, <1>5, <1>8 DEF PlaceRight, At, OfGC, GCEnter
<1>11. DataRight'
  BY <1>1, <1>2, <1>3, <1>4, <1>5, <1>8 DEF DataRight, InPA, Stopping, GCEnter
<1>12. CollectionRight'
  BY <1>1, <1>2, <1>3, <1>4, <1>5, <1>8 DEF CollectionRight, InPA, Stopping,
       OfGC, GCEnter
<1>13. MaskFits'
  BY <1>1, <1>2, <1>3, <1>4, <1>5, <1>8 DEF MaskFits, InMaybeGC, OfGC, GCEnter
<1>14. SignalRight'
  BY <1>1, <1>2, <1>3, <1>4, <1>5, <1>8 DEF SignalRight, InPA, OfGC, GCEnter
<1>15. NoteRight'
  BY <1>1, <1>2, <1>3, <1>4, <1>5, <1>8 DEF NoteRight, OfGC, GCEnter
<1>16. RoomRight'
  BY <1>1, <1>2, <1>3, <1>4, <1>5, <1>8 DEF RoomRight, InPA, GCEnter
<1> QED  BY <1>9, <1>10, <1>11, <1>12, <1>13, <1>14, <1>15, <1>16, <1>8 DEF
     IInv, NowRight, NoOtherLoss, GCEnter

\* WITHOUT-INTERRUPTS begins.
LEMMA OpenWithoutInterruptsKeeps ==
  ASSUME IInv, OpenWithoutInterrupts
  PROVE  IInv'
<1> DEFINE f == Frame("wi", {}, "run", "")
<1>1. /\ f.k = "wi" /\ f.dyn = dyn /\ f.mask = {} /\ f.ret = "run" /\ f.x = ""
      /\ stack' = Cons(f, stack)
  BY DEF Frame, Push, Cons, OpenWithoutInterrupts
<1>2. /\ Types /\ PlaceRight /\ DataRight /\ CollectionRight /\ MaskFits
      /\ SignalRight /\ NoteRight /\ RoomRight
  BY DEF IInv, NowRight, Alive, OpenWithoutInterrupts, Free, HasRoom
<1>3. f \in Frames
  BY <1>2 DEF Frame, Frames, Types, Places, Traps
<1> HIDE DEF f
<1>4. /\ InLisp(dyn, F1) /\ ~pa /\ ~OfGC(F1) /\ ~InMaybeGC(F1, F2)
      /\ F1.k \notin {"gc", "pend"}
  BY <1>2 DEF PlaceRight, DataRight, At, InLisp, OfGC, InMaybeGC,
       OpenWithoutInterrupts, Free
<1>5. /\ dyn' = NoInts(f.dyn) /\ dyn' \in Bindings /\ Sane(dyn')
      /\ dyn'.unb = dyn.unb /\ dyn'.inhibit = dyn.inhibit /\ ~dyn'.ie
  BY <1>1, <1>2, <1>4 DEF Types, InLisp, Sane, NoInts, Bindings,
       OpenWithoutInterrupts
<1>6. Fits(f, F1, F2)
  BY <1>1, <1>2, <1>3, <1>4, <1>5 DEF Fits, OpenWithoutInterrupts, Free,
       HasRoom
<1>7. Len(stack) + 1 <= Height(f)
  <2>1. MaxDepth \in Nat /\ Height(f) \in Int /\ Height(f) >= MaxDepth
    BY Heights
  <2>2. Len(stack) \in Nat
    BY Now
  <2>3. Len(stack) < MaxDepth
    BY DEF OpenWithoutInterrupts, HasRoom
  <2> QED  BY <2>1, <2>2, <2>3
<1>8. /\ stack' \in Seq(Frames) /\ StackRight(stack') /\ Len(stack') = Len(stack) + 1
      /\ F1' = f /\ F2' = F1 /\ F3' = F2 /\ F4' = F3
  BY PushNow, <1>1, <1>3, <1>6, <1>7
<1>9. Types'
  BY <1>1, <1>2, <1>3, <1>4, <1>5, <1>8 DEF Types, Places, Traps,
       OpenWithoutInterrupts, Free, HasRoom
<1>10. PlaceRight'
  BY <1>1, <1>2, <1>3, <1>4, <1>5, <1>8 DEF PlaceRight, At, InLisp,
       OpenWithoutInterrupts, Free, HasRoom
<1>11. DataRight'
  BY <1>1, <1>2, <1>3, <1>4, <1>5, <1>8 DEF DataRight, InPA, Stopping,
       OpenWithoutInterrupts, Free, HasRoom
<1>12. CollectionRight'
  BY <1>1, <1>2, <1>3, <1>4, <1>5, <1>8 DEF CollectionRight, InPA, Stopping,
       OfGC, OpenWithoutInterrupts, Free, HasRoom
<1>13. MaskFits'
  BY <1>1, <1>2, <1>3, <1>4, <1>5, <1>8 DEF MaskFits, InMaybeGC, OfGC,
       OpenWithoutInterrupts, Free, HasRoom
<1>14. SignalRight'
  BY <1>1, <1>2, <1>3, <1>4, <1>5, <1>8 DEF SignalRight, InPA, OfGC,
       OpenWithoutInterrupts, Free, HasRoom
<1>15. NoteRight'
  BY <1>1, <1>2, <1>3, <1>4, <1>5, <1>8 DEF NoteRight, OfGC,
       OpenWithoutInterrupts, Free, HasRoom
<1>16. RoomRight'
  BY <1>1, <1>2, <1>3, <1>4, <1>5, <1>8 DEF RoomRight, InPA,
       OpenWithoutInterrupts, Free, HasRoom
<1> QED  BY <1>9, <1>10, <1>11, <1>12, <1>13, <1>14, <1>15, <1>16, <1>8 DEF
     IInv, NowRight, NoOtherLoss, OpenWithoutInterrupts, Free, HasRoom

\* WITHOUT-GCING begins.
LEMMA OpenWithoutGcingKeeps ==
  ASSUME IInv, OpenWithoutGcing
  PROVE  IInv'
<1> DEFINE f == Frame("wg", {}, "run", "")
<1>1. /\ f.k = "wg" /\ f.dyn = dyn /\ f.mask = {} /\ f.ret = "run" /\ f.x = ""
      /\ stack' = Cons(f, stack)
  BY DEF Frame, Push, Cons, OpenWithoutGcing
<1>2. /\ Types /\ PlaceRight /\ DataRight /\ CollectionRight /\ MaskFits
      /\ SignalRight /\ NoteRight /\ RoomRight
  BY DEF IInv, NowRight, Alive, OpenWithoutGcing, Free, HasRoom
<1>3. f \in Frames
  BY <1>2 DEF Frame, Frames, Types, Places, Traps
<1> HIDE DEF f
<1>4. /\ InLisp(dyn, F1) /\ ~pa /\ ~OfGC(F1) /\ ~InMaybeGC(F1, F2)
      /\ F1.k \notin {"gc", "pend"}
  BY <1>2 DEF PlaceRight, DataRight, At, InLisp, OfGC, InMaybeGC,
       OpenWithoutGcing, Free
<1>5. /\ dyn' = Inside(f.dyn) /\ dyn' \in Bindings /\ Sane(dyn')
      /\ dyn'.unb = dyn.unb /\ ~dyn.inhibit /\ dyn'.inhibit /\ ~dyn'.ie
  BY <1>1, <1>2, <1>4 DEF Types, InLisp, Sane, Inside, Bindings,
       OpenWithoutGcing
<1>6. ~gc.pending
  BY <1>2, <1>4, <1>5 DEF CollectionRight, InPA, Stopping, OpenWithoutGcing,
       Free
<1>7. Fits(f, F1, F2)
  BY <1>1, <1>2, <1>3, <1>4, <1>5, <1>6 DEF Fits, OpenWithoutGcing, Free,
       HasRoom
<1>8. Len(stack) + 1 <= Height(f)
  <2>1. MaxDepth \in Nat /\ Height(f) \in Int /\ Height(f) >= MaxDepth
    BY Heights
  <2>2. Len(stack) \in Nat
    BY Now
  <2>3. Len(stack) < MaxDepth
    BY DEF OpenWithoutGcing, HasRoom
  <2> QED  BY <2>1, <2>2, <2>3
<1>9. /\ stack' \in Seq(Frames) /\ StackRight(stack') /\ Len(stack') = Len(stack) + 1
      /\ F1' = f /\ F2' = F1 /\ F3' = F2 /\ F4' = F3
  BY PushNow, <1>1, <1>3, <1>7, <1>8
<1>10. Types'
  BY <1>1, <1>2, <1>3, <1>4, <1>5, <1>6, <1>9 DEF Types, Places, Traps,
       OpenWithoutGcing, Free, HasRoom
<1>11. PlaceRight'
  BY <1>1, <1>2, <1>3, <1>4, <1>5, <1>6, <1>9 DEF PlaceRight, At, InLisp,
       OpenWithoutGcing, Free, HasRoom
<1>12. DataRight'
  BY <1>1, <1>2, <1>3, <1>4, <1>5, <1>6, <1>9 DEF DataRight, InPA, Stopping,
       OpenWithoutGcing, Free, HasRoom
<1>13. CollectionRight'
  BY <1>1, <1>2, <1>3, <1>4, <1>5, <1>6, <1>9 DEF CollectionRight, InPA,
       Stopping, OfGC, DataRight, OpenWithoutGcing, Free, HasRoom
<1>14. MaskFits'
  BY <1>1, <1>2, <1>3, <1>4, <1>5, <1>6, <1>9 DEF MaskFits, InMaybeGC, OfGC,
       OpenWithoutGcing, Free, HasRoom
<1>15. SignalRight'
  BY <1>1, <1>2, <1>3, <1>4, <1>5, <1>6, <1>9 DEF SignalRight, InPA, OfGC,
       OpenWithoutGcing, Free, HasRoom
<1>16. NoteRight'
  BY <1>1, <1>2, <1>3, <1>4, <1>5, <1>6, <1>9 DEF NoteRight, OfGC,
       OpenWithoutGcing, Free, HasRoom
<1>17. RoomRight'
  BY <1>1, <1>2, <1>3, <1>4, <1>5, <1>6, <1>9 DEF RoomRight, InPA,
       OpenWithoutGcing, Free, HasRoom
<1> QED  BY <1>10, <1>11, <1>12, <1>13, <1>14, <1>15, <1>16, <1>17, <1>9 DEF
     IInv, NowRight, NoOtherLoss, OpenWithoutGcing, Free, HasRoom

\* WITH-INTERRUPTS or WITH-LOCAL-INTERRUPTS begins.
LEMMA OpenWithInterruptsKeeps ==
  ASSUME IInv, OpenWithInterrupts
  PROVE  IInv'
<1> DEFINE f == Frame("with", {}, "run", "")
<1>1. /\ f.k = "with" /\ f.dyn = dyn /\ f.mask = {} /\ f.ret = "run" /\ f.x = ""
      /\ stack' = Cons(f, stack)
  BY DEF Frame, Push, Cons, OpenWithInterrupts
<1>2. /\ Types /\ PlaceRight /\ DataRight /\ CollectionRight /\ MaskFits
      /\ SignalRight /\ NoteRight /\ RoomRight
  BY DEF IInv, NowRight, Alive, OpenWithInterrupts, Free, HasRoom
<1>3. f \in Frames
  BY <1>2 DEF Frame, Frames, Types, Places, Traps
<1> HIDE DEF f
<1>4. /\ InLisp(dyn, F1) /\ ~pa /\ ~OfGC(F1) /\ ~InMaybeGC(F1, F2)
      /\ F1.k \notin {"gc", "pend"}
  BY <1>2 DEF PlaceRight, DataRight, At, InLisp, OfGC, InMaybeGC,
       OpenWithInterrupts, Free
<1>5. /\ F1.k = "wi" => dyn = NoInts(F1.dyn) /\ InLisp(F1.dyn, F2) /\ Top = F1
      /\ F1.dyn \in Bindings /\ (TopIs("wi") => F1.k = "wi") /\ (TopIs("wi") \in BOOLEAN)
  BY Now, <1>4 DEF InLisp, Fits, TopIs, Top
<1>6. \E allow \in BOOLEAN, on \in BOOLEAN :
           /\ dyn' = [dyn EXCEPT !.ie = on, !.awi = allow]
           /\ pc' = IF allow /\ ~dyn.ie THEN "withEnter" ELSE "run"
           /\ \/ (allow <=> dyn.awi) /\ (on <=> dyn.ie \/ dyn.awi)
              \/ F1.k = "wi" /\ (allow <=> F1.dyn.awi) /\ on = allow
  BY <1>2, <1>5 DEF OpenWithInterrupts, Types, Bindings
<1>7. /\ dyn' \in Bindings /\ Sane(dyn') /\ (dyn.ie => dyn'.ie)
      /\ dyn'.unb = dyn.unb /\ dyn'.inhibit = dyn.inhibit /\ dyn'.inwg = dyn.inwg
      /\ \/ pc' = "withEnter" /\ dyn'.ie
         \/ pc' = "run" /\ (dyn'.ie => dyn.ie)
  <2>1. PICK allow \in BOOLEAN, on \in BOOLEAN :
          /\ dyn' = [dyn EXCEPT !.ie = on, !.awi = allow]
          /\ pc' = IF allow /\ ~dyn.ie THEN "withEnter" ELSE "run"
          /\ \/ (allow <=> dyn.awi) /\ (on <=> dyn.ie \/ dyn.awi)
             \/ F1.k = "wi" /\ (allow <=> F1.dyn.awi) /\ on = allow
    BY <1>6
  <2>2. /\ dyn' \in Bindings /\ dyn \in Bindings /\ (dyn'.ie <=> on) /\ (dyn'.awi <=> allow)
        /\ dyn'.unb = dyn.unb /\ dyn'.inhibit = dyn.inhibit /\ dyn'.inwg = dyn.inwg
    BY <1>2, <2>1 DEF Types, Bindings
  <2>3. Sane(dyn) /\ (dyn.ie => ~dyn.unb)
    BY <1>4 DEF InLisp
  <2>4. CASE (allow <=> dyn.awi) /\ (on <=> dyn.ie \/ dyn.awi)
    BY <2>1, <2>2, <2>3, <2>4 DEF Sane
  <2>5. CASE F1.k = "wi" /\ (allow <=> F1.dyn.awi) /\ on = allow
    <3>1. Sane(F1.dyn) /\ dyn = NoInts(F1.dyn)
      BY <1>5, <2>5 DEF InLisp
    <3>2. ~dyn.ie /\ dyn.inhibit = F1.dyn.inhibit /\ dyn.inwg = F1.dyn.inwg /\ F1.dyn \in Bindings
      BY <1>5, <3>1 DEF NoInts, Bindings
    <3> QED  BY <2>1, <2>2, <2>5, <3>1, <3>2 DEF Sane
  <2> QED  BY <2>1, <2>4, <2>5
<1>8. Fits(f, F1, F2)
  BY <1>1, <1>2, <1>3, <1>4, <1>5, <1>6, <1>7 DEF Fits, OpenWithInterrupts,
       Free, HasRoom
<1>9. Len(stack) + 1 <= Height(f)
  <2>1. MaxDepth \in Nat /\ Height(f) \in Int /\ Height(f) >= MaxDepth
    BY Heights
  <2>2. Len(stack) \in Nat
    BY Now
  <2>3. Len(stack) < MaxDepth
    BY DEF OpenWithInterrupts, HasRoom
  <2> QED  BY <2>1, <2>2, <2>3
<1>10. /\ stack' \in Seq(Frames) /\ StackRight(stack') /\ Len(stack') = Len(stack) + 1
       /\ F1' = f /\ F2' = F1 /\ F3' = F2 /\ F4' = F3
  BY PushNow, <1>1, <1>3, <1>8, <1>9
<1>11. Types'
  BY <1>1, <1>2, <1>3, <1>4, <1>5, <1>6, <1>7, <1>10 DEF Types, Places, Traps,
       OpenWithInterrupts, Free, HasRoom
<1>12. PlaceRight'
  BY <1>1, <1>2, <1>3, <1>4, <1>5, <1>6, <1>7, <1>10 DEF PlaceRight, At,
       InLisp, OpenWithInterrupts, Free, HasRoom
<1>13. DataRight'
  BY <1>1, <1>2, <1>3, <1>4, <1>5, <1>6, <1>7, <1>10 DEF DataRight, InPA,
       Stopping, OpenWithInterrupts, Free, HasRoom
<1>14. CollectionRight'
  BY <1>1, <1>2, <1>3, <1>4, <1>5, <1>6, <1>7, <1>10 DEF CollectionRight, InPA,
       Stopping, OfGC, OpenWithInterrupts, Free, HasRoom
<1>15. MaskFits'
  BY <1>1, <1>2, <1>3, <1>4, <1>5, <1>6, <1>7, <1>10 DEF MaskFits, InMaybeGC,
       OfGC, OpenWithInterrupts, Free, HasRoom
<1>16. SignalRight'
  BY <1>1, <1>2, <1>3, <1>4, <1>5, <1>6, <1>7, <1>10 DEF SignalRight, InPA,
       OfGC, DataRight, OpenWithInterrupts, Free, HasRoom
<1>17. NoteRight'
  BY <1>1, <1>2, <1>3, <1>4, <1>5, <1>6, <1>7, <1>10 DEF NoteRight, OfGC,
       OpenWithInterrupts, Free, HasRoom
<1>18. RoomRight'
  BY <1>1, <1>2, <1>3, <1>4, <1>5, <1>6, <1>7, <1>10 DEF RoomRight, InPA,
       OpenWithInterrupts, Free, HasRoom
<1> QED  BY <1>11, <1>12, <1>13, <1>14, <1>15, <1>16, <1>17, <1>18, <1>10 DEF
     IInv, NowRight, NoOtherLoss, OpenWithInterrupts, Free, HasRoom

\* WITHOUT-INTERRUPTS ends.
LEMMA LeaveWithoutInterruptsKeeps ==
  ASSUME IInv, LeaveWithoutInterrupts
  PROVE  IInv'
<1>1. /\ Types /\ PlaceRight /\ DataRight /\ CollectionRight /\ MaskFits
      /\ SignalRight /\ NoteRight /\ RoomRight
  BY DEF IInv, NowRight, Alive, LeaveWithoutInterrupts, Free, TopIs, Top
<1>2. stack # <<>> /\ stack' = Rest(stack)
  BY Now, <1>1 DEF PlaceRight, At, Rest, Pop, Under, LeaveWithoutInterrupts,
       Free, TopIs, Top
<1>3. /\ stack' \in Seq(Frames) /\ StackRight(stack') /\ Len(stack') = Len(stack) - 1
      /\ F1' = F2 /\ F2' = F3 /\ F3' = F4
  BY PopNow, <1>2
<1>4. /\ F1.k = "wi" /\ dyn = NoInts(F1.dyn) /\ F1.dyn \in Bindings /\ Top = F1 /\ ~pa
      /\ Fits(F1, F2, F3) /\ Len(stack) <= Height(F1) /\ Len(stack) \in Nat
  BY Now, <1>1 DEF PlaceRight, DataRight, At, InLisp, LeaveWithoutInterrupts,
       Free, TopIs, Top
<1>5. /\ InLisp(F1.dyn, F2)
      /\ F2.k \notin {"gc", "pend"} /\ ~OfGC(F2) /\ ~InMaybeGC(F2, F3)
      /\ Height(F1) = MaxDepth /\ MaxDepth \in Nat
  BY <1>4, Heights, NotAll DEF Fits, InLisp, OfGC, InMaybeGC
<1>6. /\ ~InMaybeGC(F1, F2) /\ ~OfGC(F1)
      /\ dyn' = F1.dyn /\ dyn.inhibit = dyn'.inhibit /\ dyn.unb = dyn'.unb
  BY <1>4 DEF InMaybeGC, OfGC, NoInts, Bindings, LeaveWithoutInterrupts
<1>7. Types'
  BY <1>1, <1>3, <1>4, <1>5, <1>6 DEF Types, Places, Traps,
       LeaveWithoutInterrupts, Free, TopIs, Top
<1>8. PlaceRight'
  BY <1>1, <1>3, <1>4, <1>5, <1>6 DEF PlaceRight, At, LeaveWithoutInterrupts,
       Free, TopIs, Top
<1>9. DataRight'
  BY <1>1, <1>3, <1>4, <1>5, <1>6 DEF DataRight, InPA, Stopping,
       LeaveWithoutInterrupts, Free, TopIs, Top
<1>10. CollectionRight'
  BY <1>1, <1>3, <1>4, <1>5, <1>6 DEF CollectionRight, InPA, Stopping, OfGC,
       LeaveWithoutInterrupts, Free, TopIs, Top
<1>11. MaskFits'
  BY <1>1, <1>3, <1>4, <1>5, <1>6 DEF MaskFits, LeaveWithoutInterrupts, Free,
       TopIs, Top
<1>12. SignalRight'
  BY <1>1, <1>3, <1>4, <1>5, <1>6 DEF SignalRight, InPA, DataRight,
       LeaveWithoutInterrupts, Free, TopIs, Top
<1>13. NoteRight'
  BY <1>1, <1>3, <1>4, <1>5, <1>6 DEF NoteRight, LeaveWithoutInterrupts, Free,
       TopIs, Top
<1>14. RoomRight'
  BY <1>1, <1>3, <1>4, <1>5, <1>6 DEF RoomRight, InPA, LeaveWithoutInterrupts,
       Free, TopIs, Top
<1> QED  BY <1>3, <1>7, <1>8, <1>9, <1>10, <1>11, <1>12, <1>13, <1>14 DEF
     IInv, NowRight, NoOtherLoss, LeaveWithoutInterrupts, Free, TopIs, Top

\* WITH-INTERRUPTS ends.
LEMMA LeaveWithInterruptsKeeps ==
  ASSUME IInv, LeaveWithInterrupts
  PROVE  IInv'
<1>1. /\ Types /\ PlaceRight /\ DataRight /\ CollectionRight /\ MaskFits
      /\ SignalRight /\ NoteRight /\ RoomRight
  BY DEF IInv, NowRight, Alive, LeaveWithInterrupts, Free, TopIs, Top
<1>2. stack # <<>> /\ stack' = Rest(stack)
  BY Now, <1>1 DEF PlaceRight, At, Rest, Pop, Under, LeaveWithInterrupts, Free,
       TopIs, Top
<1>3. /\ stack' \in Seq(Frames) /\ StackRight(stack') /\ Len(stack') = Len(stack) - 1
      /\ F1' = F2 /\ F2' = F3 /\ F3' = F4
  BY PopNow, <1>2
<1>4. /\ F1.k = "with" /\ InLisp(dyn, F1) /\ F1.dyn \in Bindings /\ Top = F1 /\ ~pa
      /\ Fits(F1, F2, F3) /\ Len(stack) <= Height(F1) /\ Len(stack) \in Nat
  BY Now, <1>1 DEF PlaceRight, DataRight, At, LeaveWithInterrupts, Free, TopIs,
       Top
<1>5. /\ InLisp(F1.dyn, F2)
      /\ F2.k \notin {"gc", "pend"} /\ ~OfGC(F2) /\ ~InMaybeGC(F2, F3)
      /\ Height(F1) = MaxDepth /\ MaxDepth \in Nat
  BY <1>4, Heights, NotAll DEF Fits, InLisp, OfGC, InMaybeGC
<1>6. /\ ~InMaybeGC(F1, F2) /\ ~OfGC(F1)
      /\ dyn' = F1.dyn /\ dyn.inhibit = dyn'.inhibit /\ (dyn'.ie => dyn.ie)
      /\ F1.x = "block" => dyn'.unb /\ dyn.ie
      /\ F1.x # "block" => dyn'.unb = dyn.unb /\ mask' = mask
  BY <1>4 DEF InMaybeGC, OfGC, InLisp, LeaveWithInterrupts
<1>7. /\ dyn.ie => ~data.handler
      /\ mask' \subseteq All
      /\ F1.x = "block" => mask' = {"def"}
  BY <1>1, <1>4, <1>6 DEF Types, MaskFits, MaskIf, SignalRight, InPA, All,
       LeaveWithInterrupts, Free
<1>8. Types'
  BY <1>1, <1>3, <1>4, <1>5, <1>6, <1>7 DEF Types, Places, Traps,
       LeaveWithInterrupts, Free, TopIs, Top
<1>9. PlaceRight'
  BY <1>1, <1>3, <1>4, <1>5, <1>6, <1>7 DEF PlaceRight, At,
       LeaveWithInterrupts, Free, TopIs, Top
<1>10. DataRight'
  BY <1>1, <1>3, <1>4, <1>5, <1>6, <1>7 DEF DataRight, InPA, Stopping,
       LeaveWithInterrupts, Free, TopIs, Top
<1>11. CollectionRight'
  BY <1>1, <1>3, <1>4, <1>5, <1>6, <1>7 DEF CollectionRight, InPA, Stopping,
       OfGC, LeaveWithInterrupts, Free, TopIs, Top
<1>12. MaskFits'
  BY <1>1, <1>3, <1>4, <1>5, <1>6, <1>7 DEF MaskFits, MaskIf,
       LeaveWithInterrupts, Free, TopIs, Top
<1>13. SignalRight'
  BY <1>1, <1>3, <1>4, <1>5, <1>6, <1>7 DEF SignalRight, InPA, DataRight,
       LeaveWithInterrupts, Free, TopIs, Top
<1>14. NoteRight'
  BY <1>1, <1>3, <1>4, <1>5, <1>6, <1>7 DEF NoteRight, LeaveWithInterrupts,
       Free, TopIs, Top
<1>15. RoomRight'
  BY <1>1, <1>3, <1>4, <1>5, <1>6, <1>7 DEF RoomRight, InPA,
       LeaveWithInterrupts, Free, TopIs, Top
<1> QED  BY <1>3, <1>8, <1>9, <1>10, <1>11, <1>12, <1>13, <1>14, <1>15 DEF
     IInv, NowRight, NoOtherLoss, LeaveWithInterrupts, Free, TopIs, Top

\* WITHOUT-GCING ends.
LEMMA UnbindInWithoutGcingKeeps ==
  ASSUME IInv, UnbindInWithoutGcing
  PROVE  IInv'
<1>1. /\ Types /\ PlaceRight /\ DataRight /\ CollectionRight /\ MaskFits
      /\ SignalRight /\ NoteRight /\ RoomRight
  BY DEF IInv, NowRight, Alive, UnbindInWithoutGcing, Top
<1>2. stack # <<>> /\ stack' = Rest(stack)
  BY Now, <1>1 DEF PlaceRight, At, Rest, Pop, Under, UnbindInWithoutGcing, Top
<1>3. /\ stack' \in Seq(Frames) /\ StackRight(stack') /\ Len(stack') = Len(stack) - 1
      /\ F1' = F2 /\ F2' = F3 /\ F3' = F4
  BY PopNow, <1>2
<1>4. /\ F1.k = "wg" /\ dyn = [F1.dyn EXCEPT !.inwg = TRUE] /\ F1.dyn \in Bindings
      /\ Top = F1 /\ Fits(F1, F2, F3) /\ Len(stack) <= Height(F1) /\ Len(stack) \in Nat
  BY Now, <1>1 DEF PlaceRight, At, UnbindInWithoutGcing, Top
<1>5. \/ /\ F1.ret = "run" /\ InLisp(F1.dyn, F2) /\ ~InMaybeGC(F1, F2)
            /\ F2.k \notin {"gc", "pend"} /\ ~OfGC(F2) /\ ~InMaybeGC(F2, F3) /\ ~OfGC(F1)
         \/ /\ F1.ret = "gcAfter" /\ F2.k = "gc" /\ F1.dyn = NoInts(F2.dyn) /\ OfGC(F1)
            /\ (InMaybeGC(F1, F2) <=> InMaybeGC(F2, F3))
  BY <1>4 DEF Fits, InLisp, OfGC, InMaybeGC
<1>6. /\ dyn' = F1.dyn /\ pc' = F1.ret /\ ~dyn'.inhibit /\ dyn'.ie = dyn.ie
      /\ dyn.inhibit = dyn'.inhibit /\ dyn.unb = dyn'.unb
  BY <1>4 DEF Fits, Bindings, UnbindInWithoutGcing
<1>7. ~Stopping
  BY <1>1, <1>6 DEF CollectionRight, InPA, UnbindInWithoutGcing
<1>8. F1.ret = "run" => Len(stack) <= MaxDepth /\ MaxDepth \in Nat
  BY <1>4, <1>5, Heights, NotAll DEF Fits
<1>9. Types'
  BY <1>1, <1>3, <1>4, <1>5, <1>6, <1>7, <1>8 DEF Types, Places, Traps,
       UnbindInWithoutGcing, Top
<1>10. PlaceRight'
  BY <1>1, <1>3, <1>4, <1>5, <1>6, <1>7, <1>8 DEF PlaceRight, At,
       UnbindInWithoutGcing, Top
<1>11. DataRight'
  BY <1>1, <1>3, <1>4, <1>5, <1>6, <1>7, <1>8 DEF DataRight, InPA, Stopping,
       UnbindInWithoutGcing, Top
<1>12. CollectionRight'
  BY <1>1, <1>3, <1>4, <1>5, <1>6, <1>7, <1>8 DEF CollectionRight, InPA,
       Stopping, OfGC, UnbindInWithoutGcing, Top
<1>13. MaskFits'
  BY <1>1, <1>3, <1>4, <1>5, <1>6, <1>7, <1>8 DEF MaskFits,
       UnbindInWithoutGcing, Top
<1>14. SignalRight'
  BY <1>1, <1>3, <1>4, <1>5, <1>6, <1>7, <1>8 DEF SignalRight, InPA, DataRight,
       OfGC, UnbindInWithoutGcing, Top
<1>15. NoteRight'
  BY <1>1, <1>3, <1>4, <1>5, <1>6, <1>7, <1>8 DEF NoteRight, OfGC,
       UnbindInWithoutGcing, Top
<1>16. RoomRight'
  BY <1>1, <1>3, <1>4, <1>5, <1>6, <1>7, <1>8 DEF RoomRight, InPA,
       UnbindInWithoutGcing, Top
<1> QED  BY <1>3, <1>9, <1>10, <1>11, <1>12, <1>13, <1>14, <1>15, <1>16, <1>5,
     <1>6 DEF IInv, NowRight, NoOtherLoss, UnbindInWithoutGcing, Top

\* A handler goes back to what it interrupted.
LEMMA SigReturnKeeps ==
  ASSUME IInv, SigReturn
  PROVE  IInv'
<1>1. /\ Types /\ PlaceRight /\ DataRight /\ CollectionRight /\ MaskFits
      /\ SignalRight /\ NoteRight /\ RoomRight
  BY DEF IInv, NowRight, Alive, SigReturn, Top
<1>2. stack # <<>> /\ stack' = Rest(stack)
  BY Now, <1>1 DEF PlaceRight, At, Rest, Pop, Under, SigReturn, Top
<1>3. /\ stack' \in Seq(Frames) /\ StackRight(stack') /\ Len(stack') = Len(stack) - 1
      /\ F1' = F2 /\ F2' = F3 /\ F3' = F4
  BY PopNow, <1>2
<1>4. /\ F1.k = "sig" /\ dyn = F1.dyn /\ Top = F1 /\ Fits(F1, F2, F3)
      /\ F2.k # "none" => Fits(F2, F3, F4)
  BY Now, <1>1 DEF PlaceRight, At, SigReturn, Top
<1>5. /\ dyn.ie /\ ~dyn.unb /\ ~dyn.inhibit /\ ~InMaybeGC(F2, F3)
      /\ At(F1.ret, dyn, F2) /\ F1.ret \in Interruptible \cup {"pendEnd"}
      /\ F1.ret = "pendEnd" => F1.mask = All /\ F2.k = "pend" /\ F2.mask = {} /\ ~OfGC(F3)
      /\ F1.ret # "pendEnd" => F1.mask = {} /\ F2.k # "pend"
  <2>1. dyn.ie /\ ~dyn.unb /\ Sane(dyn)
    BY <1>4 DEF Fits
  <2>2. CASE /\ F1.mask = {} /\ F1.ret \in Interruptible
             /\ At(F1.ret, F1.dyn, F2) /\ ~InMaybeGC(F2, F3)
    <3>1. F2.k # "pend" /\ F1.ret # "pendEnd"
      BY <2>2 DEF At, InLisp, Interruptible
    <3> QED  BY <1>4, <2>1, <2>2, <3>1 DEF Sane
  <2>3. CASE /\ F1.mask = All /\ F1.ret = "pendEnd" /\ F2.k = "pend"
             /\ F1.dyn = F2.dyn /\ F2.mask = {} /\ ~OfGC(F3)
    BY <1>4, <2>1, <2>3 DEF Sane, At, InMaybeGC, OfGC
  <2> QED  BY <1>4, <2>2, <2>3 DEF Fits
<1>6. /\ ~Stopping /\ ~data.handler /\ ~data.gbd /\ ~pai /\ ~ip /\ ~pa
      /\ F1.ret = "pendEnd" => ~InMaybeGC(F3, F4)
      /\ OfGC(F2) => F3.ret # "maybe_gc"
  BY <1>1, <1>4, <1>5 DEF CollectionRight, SignalRight, DataRight, InPA, Fits,
       InMaybeGC, OfGC, SigReturn
<1>7. Types'
  BY <1>1, <1>3, <1>4, <1>5, <1>6 DEF Types, Places, Traps, Interruptible,
       SigReturn, Top
<1>8. PlaceRight'
  BY <1>1, <1>3, <1>4, <1>5, <1>6 DEF PlaceRight, At, SigReturn, Top
<1>9. DataRight'
  BY <1>1, <1>3, <1>4, <1>5, <1>6 DEF DataRight, InPA, Stopping, Interruptible,
       SigReturn, Top
<1>10. CollectionRight'
  BY <1>1, <1>3, <1>4, <1>5, <1>6 DEF CollectionRight, InPA, Stopping, OfGC,
       SigReturn, Top
<1>11. MaskFits'
  BY <1>1, <1>3, <1>4, <1>5, <1>6 DEF MaskFits, MaskIf, Interruptible,
       SigReturn, Top
<1>12. SignalRight'
  BY <1>1, <1>3, <1>4, <1>5, <1>6 DEF SignalRight, InPA, Interruptible,
       SigReturn, Top
<1>13. NoteRight'
  BY <1>1, <1>3, <1>4, <1>5, <1>6 DEF NoteRight, MaskIf, InMaybeGC,
       Interruptible, SigReturn, Top
<1>14. RoomRight'
  BY <1>1, <1>3, <1>4, <1>5, <1>6 DEF RoomRight, InPA, Stopping, SigReturn, Top
<1> QED  BY <1>3, <1>7, <1>8, <1>9, <1>10, <1>11, <1>12, <1>13, <1>14, <1>4,
     <1>5 DEF IInv, NowRight, NoOtherLoss, SigReturn, Top, Interruptible

\* POST-GC returns to interrupt_handle_pending.
LEMMA PostGCReturnKeeps ==
  ASSUME IInv, PostGCReturn
  PROVE  IInv'
<1>1. /\ Types /\ PlaceRight /\ DataRight /\ CollectionRight /\ MaskFits
      /\ SignalRight /\ NoteRight /\ RoomRight
  BY DEF IInv, NowRight, Alive, PostGCReturn, Free, TopIs, Top
<1>2. stack # <<>> /\ stack' = Rest(stack)
  BY Now, <1>1 DEF PlaceRight, At, Rest, Pop, Under, PostGCReturn, Free, TopIs,
       Top
<1>3. /\ stack' \in Seq(Frames) /\ StackRight(stack') /\ Len(stack') = Len(stack) - 1
      /\ F1' = F2 /\ F2' = F3 /\ F3' = F4
  BY PopNow, <1>2
<1>4. /\ F1.k = "post" /\ dyn = F1.dyn /\ ~pa /\ Fits(F1, F2, F3)
      /\ F2.k # "none" => Fits(F2, F3, F4)
  BY Now, <1>1 DEF PlaceRight, DataRight, At, InLisp, PostGCReturn, Free,
       TopIs, Top
<1>5. /\ dyn.ie /\ ~dyn.inhibit /\ ~dyn.unb
      /\ F2.k = "pend" /\ dyn = F2.dyn /\ F2.mask = {} /\ F2.x = "" /\ ~OfGC(F3)
      /\ ~InMaybeGC(F3, F4)
  BY <1>1, <1>4 DEF PlaceRight, Fits, At, InLisp, InMaybeGC, OfGC,
       PostGCReturn, Free
<1>6. ~Stopping /\ ~data.handler /\ ~ip /\ ~data.gbd /\ ~pai
  BY <1>1, <1>4, <1>5 DEF CollectionRight, SignalRight, DataRight, InPA,
       PostGCReturn, Free
<1>7. Types'
  BY <1>1, <1>3, <1>4, <1>5, <1>6 DEF Types, Places, Traps, All, PostGCReturn,
       Free, TopIs, Top
<1>8. PlaceRight'
  BY <1>1, <1>3, <1>4, <1>5, <1>6 DEF PlaceRight, At, PostGCReturn, Free,
       TopIs, Top
<1>9. DataRight'
  BY <1>1, <1>3, <1>4, <1>5, <1>6 DEF DataRight, InPA, Stopping, PostGCReturn,
       Free, TopIs, Top
<1>10. CollectionRight'
  BY <1>1, <1>3, <1>4, <1>5, <1>6 DEF CollectionRight, InPA, Stopping, OfGC,
       PostGCReturn, Free, TopIs, Top
<1>11. MaskFits'
  BY <1>1, <1>3, <1>4, <1>5, <1>6 DEF MaskFits, MaskIf, PostGCReturn, Free,
       TopIs, Top
<1>12. SignalRight'
  BY <1>1, <1>3, <1>4, <1>5, <1>6 DEF SignalRight, InPA, PostGCReturn, Free,
       TopIs, Top
<1>13. NoteRight'
  BY <1>1, <1>3, <1>4, <1>5, <1>6 DEF NoteRight, MaskIf, OfGC, PostGCReturn,
       Free, TopIs, Top
<1>14. RoomRight'
  BY <1>1, <1>3, <1>4, <1>5, <1>6 DEF RoomRight, InPA, Stopping, PostGCReturn,
       Free, TopIs, Top
<1> QED  BY <1>3, <1>7, <1>8, <1>9, <1>10, <1>11, <1>12, <1>13, <1>14 DEF
     IInv, NowRight, NoOtherLoss, PostGCReturn, Free, TopIs, Top

\* interrupt_handle_pending returns.
LEMMA PendEndKeeps ==
  ASSUME IInv, PendEnd
  PROVE  IInv'
<1>1. /\ Types /\ PlaceRight /\ DataRight /\ CollectionRight /\ MaskFits
      /\ SignalRight /\ NoteRight /\ RoomRight
  BY DEF IInv, NowRight, Alive, PendEnd, Top
<1>2. stack # <<>> /\ stack' = Rest(stack)
  BY Now, <1>1 DEF PlaceRight, At, Rest, Pop, Under, PendEnd, Top
<1>3. /\ stack' \in Seq(Frames) /\ StackRight(stack') /\ Len(stack') = Len(stack) - 1
      /\ F1' = F2 /\ F2' = F3 /\ F3' = F4
  BY PopNow, <1>2
<1>4. /\ F1.k = "pend" /\ dyn = F1.dyn /\ Top = F1 /\ Fits(F1, F2, F3)
      /\ F2.k # "none" => Fits(F2, F3, F4) /\ Len(stack) - 1 <= Height(F2)
      /\ Len(stack) \in Nat
  BY Now, <1>1 DEF PlaceRight, At, PendEnd, Top
<1>5. /\ ~dyn.inhibit /\ At(F1.ret, dyn, F2) /\ F1.ret \in {"run", "wgUnbind", "gcRet", "land"}
      /\ F2.k # "pend" /\ ~(F2.k = "gc" /\ F2.ret = "maybe_gc")
      /\ F2.k = "post" => dyn.ie
      /\ F2.k = "sig" => dyn.ie \/ dyn.unb
  <2>1. /\ ~dyn.inhibit /\ At(F1.ret, dyn, F2)
        /\ F1.ret \in {"run", "wgUnbind", "gcRet", "land"}
        /\ ~(F2.k = "gc" /\ F2.ret = "maybe_gc")
    BY <1>4 DEF Fits
  <2>2. F2.k # "pend"
    BY <2>1 DEF At, InLisp
  <2>3. F2.k = "post" => dyn.ie
    BY <1>4, <2>1 DEF At, InLisp, Fits
  <2>4. F2.k = "sig" => dyn.ie \/ dyn.unb
    <3>1. F2.k = "sig" => dyn = InHandler(F2.dyn) \/ dyn = F2.dyn
      BY <2>1 DEF At, InLisp
    <3>2. F2.k = "sig" => F2.dyn.ie
      BY <1>4 DEF Fits
    <3>3. F2.dyn \in Bindings
      BY Now
    <3> QED  BY <3>1, <3>2, <3>3 DEF InHandler, Bindings
  <2> QED  BY <2>1, <2>2, <2>3, <2>4
<1>6. /\ ~Stopping /\ ~data.gbd
      /\ data.handler => ~dyn.ie /\ ~dyn.unb
      /\ data.handler => F1.ret # "land"
      /\ F1.mask = MaskIf(data.handler \/ dyn.unb \/ InMaybeGC(F2, F3))
  <2>1. /\ ~Stopping /\ ~data.gbd /\ (data.handler => ~dyn.ie /\ ~dyn.unb)
        /\ F1.mask = MaskIf(data.handler \/ dyn.unb \/ InMaybeGC(F2, F3))
    BY <1>1, <1>5 DEF CollectionRight, SignalRight, DataRight, NoteRight, InPA, PendEnd
  <2>2. F1.ret = "land" => F2.k = "sig"
    BY <1>5 DEF At
  <2> QED  BY <1>5, <2>1, <2>2
<1>7. F2.k \in {"sig", "post"} => ~data.handler
  BY <1>5, <1>6
<1>8. Types'
  BY <1>1, <1>3, <1>4, <1>5, <1>6, <1>7 DEF Types, Places, Traps, All, MaskIf,
       PendEnd, Top
<1>9. Alive' => PlaceRight'
  BY <1>1, <1>3, <1>4, <1>5, <1>6, <1>7 DEF PlaceRight, At, Alive, PendEnd, Top
<1>10. Alive' => DataRight'
  BY <1>1, <1>3, <1>4, <1>5, <1>6, <1>7 DEF DataRight, InPA, Stopping, Alive,
       PendEnd, Top
<1>11. Alive' => CollectionRight'
  BY <1>1, <1>3, <1>4, <1>5, <1>6, <1>7 DEF CollectionRight, InPA, Stopping,
       OfGC, Alive, PendEnd, Top
<1>12. Alive' => MaskFits'
  BY <1>1, <1>3, <1>4, <1>5, <1>6, <1>7 DEF MaskFits, Alive, PendEnd, Top
<1>13. Alive' => SignalRight'
  BY <1>1, <1>3, <1>4, <1>5, <1>6, <1>7 DEF SignalRight, InPA, OfGC, Alive,
       PendEnd, Top
<1>14. Alive' => NoteRight'
  BY <1>1, <1>3, <1>4, <1>5, <1>6, <1>7 DEF NoteRight, OfGC, Alive, PendEnd,
       Top
<1>15. Alive' => RoomRight'
  BY <1>1, <1>3, <1>4, <1>5, <1>6, <1>7 DEF RoomRight, InPA, Stopping, Alive,
       PendEnd, Top
<1> QED  BY <1>3, <1>8, <1>9, <1>10, <1>11, <1>12, <1>13, <1>14, <1>15, <1>4,
     <1>5 DEF IInv, NowRight, NoOtherLoss, PendEnd, Top

\* SUB-GC returns to the program, or to maybe_gc, which may run POST-GC.
LEMMA GCReturnKeeps ==
  ASSUME IInv, GCReturn
  PROVE  IInv'
<1>1. /\ Types /\ PlaceRight /\ DataRight /\ CollectionRight /\ MaskFits
      /\ SignalRight /\ NoteRight /\ RoomRight
  BY DEF IInv, NowRight, Alive, GCReturn
<1>2. /\ F1.k = "gc" /\ dyn = F1.dyn /\ Top = F1 /\ Fits(F1, F2, F3) /\ stack # <<>>
      /\ F2.k # "none" => Fits(F2, F3, F4) /\ Head(Under) = F2
      /\ Len(stack) \in Nat /\ Len(stack) <= Height(F1) /\ dyn \in Bindings
      /\ F2.dyn \in Bindings
  BY Now, <1>1 DEF PlaceRight, At, GCReturn, Top, Types, Under, Rest
<1>3. /\ pc = "gcRet" /\ ~Stopping /\ ~dyn.inhibit /\ ~pa /\ ~pai /\ ~data.gbd
      /\ dyn.ie => ~data.handler
  BY <1>1, <1>2 DEF CollectionRight, DataRight, SignalRight, InPA, Fits,
       GCReturn
<1>4. /\ F1.ret \in {"run", "maybe_gc"} /\ Sane(dyn)
      /\ F1.ret # "maybe_gc" => Height(F1) = MaxDepth
      /\ Height(F1) \in Int /\ Height(F1) <= MaxDepth + 1 /\ MaxDepth \in Nat
  BY <1>2, Heights, NotAll DEF Fits, OfGC
<1>5. CASE F1.ret = "run"
  <2>1. stack' = Rest(stack) /\ pc' = "run" /\ UNCHANGED <<dyn, gc, ip, pa, pai, data, mask, sigs, other>>
    BY <1>2, <1>5 DEF GCReturn, Pop, Rest, Under
  <2>2. /\ stack' \in Seq(Frames) /\ StackRight(stack') /\ Len(stack') = Len(stack) - 1
        /\ F1' = F2 /\ F2' = F3 /\ F3' = F4
    BY PopNow, <1>2, <2>1
  <2>3. /\ InLisp(dyn, F2) /\ F2.k \notin {"gc", "pend"} /\ ~OfGC(F2) /\ ~InMaybeGC(F2, F3)
        /\ ~InMaybeGC(F1, F2) /\ ~OfGC(F1)
    <3>1. InLisp(dyn, F2)
      BY <1>2, <1>5 DEF Fits
    <3>2. F2.k \notin {"gc", "pend"} /\ (F2.k = "wg" => F2.ret = "run")
      BY <3>1 DEF InLisp
    <3> QED  BY <1>2, <1>5, <3>1, <3>2 DEF OfGC, InMaybeGC
  <2>4. Types'
    BY <1>1, <1>2, <1>3, <1>4, <1>5, <2>1, <2>2, <2>3 DEF Types, Places, Traps,
         GCReturn
  <2>5. PlaceRight'
    BY <1>1, <1>2, <1>3, <1>4, <1>5, <2>1, <2>2, <2>3 DEF PlaceRight, At,
         GCReturn
  <2>6. DataRight'
    BY <1>1, <1>2, <1>3, <1>4, <1>5, <2>1, <2>2, <2>3 DEF DataRight, InPA,
         Stopping
  <2>7. CollectionRight'
    BY <1>1, <1>2, <1>3, <1>4, <1>5, <2>1, <2>2, <2>3 DEF CollectionRight,
         InPA, Stopping, OfGC
  <2>8. MaskFits'
    BY <1>1, <1>2, <1>3, <1>4, <1>5, <2>1, <2>2, <2>3 DEF MaskFits, MaskIf,
         GCReturn
  <2>9. SignalRight'
    BY <1>1, <1>2, <1>3, <1>4, <1>5, <2>1, <2>2, <2>3 DEF SignalRight, InPA,
         GCReturn
  <2>10. NoteRight'
    BY <1>1, <1>2, <1>3, <1>4, <1>5, <2>1, <2>2, <2>3 DEF NoteRight
  <2>11. RoomRight'
    BY <1>1, <1>2, <1>3, <1>4, <1>5, <2>1, <2>2, <2>3 DEF RoomRight, InPA,
         Stopping
  <2> QED  BY <2>1, <2>2, <2>4, <2>5, <2>6, <2>7, <2>8, <2>9, <2>10, <2>11 DEF
       IInv, NowRight, NoOtherLoss
<1>6. ASSUME F1.ret = "maybe_gc"
      PROVE  /\ F2.k = "pend" /\ ~OfGC(F3) /\ ~InMaybeGC(F3, F4) /\ ~F2.dyn.inhibit
             /\ F2.mask = MaskIf(data.handler \/ F2.dyn.unb) /\ F2.dyn.unb = dyn.unb
             /\ (data.handler <=> F2.x = "handler") /\ F2.x \in {"", "handler"}
             /\ dyn = IF F2.x = "handler" THEN NoInts(F2.dyn) ELSE F2.dyn
             /\ ~OfGC(F1)
  <2>1. /\ F2.k = "pend" /\ ~OfGC(F3) /\ F2.mask = MaskIf(F2.x = "handler" \/ F2.dyn.unb)
        /\ dyn = IF F2.x = "handler" THEN NoInts(F2.dyn) ELSE F2.dyn
    BY <1>2, <1>6 DEF Fits
  <2>2. ~(F3.k = "gc" /\ F3.ret = "maybe_gc") /\ ~F2.dyn.inhibit /\ F2.x \in {"", "handler"}
    BY <1>2, <2>1 DEF Fits
  <2>3. data.handler <=> F2.x = "handler"
    BY <1>1, <1>2, <1>6 DEF NoteRight
  <2>4. F2.dyn.unb = dyn.unb
    BY <1>2, <2>1 DEF NoInts, Bindings
  <2> QED  BY <1>2, <2>1, <2>2, <2>3, <2>4 DEF InMaybeGC, OfGC
<1>7. CASE /\ F1.ret = "maybe_gc" /\ F1.x = "T" /\ (dyn.ie \/ dyn.awi)
           /\ "def" \notin F2.mask
  <2> DEFINE f == Frame("post", {}, "pendRest", "")
  <2>1. /\ f.k = "post" /\ f.dyn = dyn /\ f.mask = {} /\ f.ret = "pendRest" /\ f.x = ""
        /\ f \in Frames
    BY <1>2 DEF Frame, Frames, Places, Traps
  <2>2. /\ stack' = Cons(f, Rest(stack)) /\ mask' = F2.mask
        /\ pc' = IF "gc" \in F2.mask THEN "lost" ELSE "run"
        /\ UNCHANGED <<dyn, gc, ip, pa, pai, data, sigs, other>>
    BY <1>2, <1>6, <1>7 DEF GCReturn, Goto, Cons, Rest, Under
  <2> HIDE DEF f
  <2>3. F2.mask = {} /\ ~data.handler /\ ~dyn.unb
    BY <1>6, <1>7 DEF MaskIf
  <2>4. dyn = F2.dyn /\ dyn.ie /\ F2.x = "" /\ mask' = {} /\ pc' = "run"
    BY <1>4, <1>6, <1>7, <2>2, <2>3 DEF Sane
  <2>5. Fits(f, F2, F3)
    BY <1>3, <1>6, <1>7, <2>1, <2>3, <2>4 DEF Fits
  <2>6. Height(f) \in Int /\ Height(f) >= MaxDepth + 1
    BY <2>1, Heights
  <2>7. Len(stack) <= Height(f)
    BY <1>2, <1>4, <2>6
  <2>8. /\ stack' \in Seq(Frames) /\ StackRight(stack') /\ Len(stack') = Len(stack)
        /\ F1' = f /\ F2' = F2 /\ F3' = F3 /\ F4' = F4
    BY SwapNow, <1>2, <2>1, <2>2, <2>5, <2>7
  <2>9. InLisp(dyn, f)
    BY <1>4, <2>1, <2>3 DEF InLisp
  <2>10. Types'
    BY <1>1, <1>2, <1>3, <1>6, <1>7, <2>1, <2>2, <2>3, <2>4, <2>8, <2>9 DEF
         Types, Places, Traps
  <2>11. PlaceRight'
    BY <1>1, <1>2, <1>3, <1>6, <1>7, <2>1, <2>2, <2>3, <2>4, <2>8, <2>9 DEF
         PlaceRight, At
  <2>12. DataRight'
    BY <1>1, <1>2, <1>3, <1>6, <1>7, <2>1, <2>2, <2>3, <2>4, <2>8, <2>9 DEF
         DataRight, InPA, Stopping
  <2>13. CollectionRight'
    BY <1>1, <1>2, <1>3, <1>6, <1>7, <2>1, <2>2, <2>3, <2>4, <2>8, <2>9 DEF
         CollectionRight, InPA, Stopping, OfGC
  <2>14. MaskFits'
    BY <1>1, <1>2, <1>3, <1>6, <1>7, <2>1, <2>2, <2>3, <2>4, <2>8, <2>9 DEF
         MaskFits, InMaybeGC, OfGC, MaskIf
  <2>15. SignalRight'
    BY <1>1, <1>2, <1>3, <1>6, <1>7, <2>1, <2>2, <2>3, <2>4, <2>8, <2>9 DEF
         SignalRight, InPA, DataRight
  <2>16. NoteRight'
    BY <1>1, <1>2, <1>3, <1>6, <1>7, <2>1, <2>2, <2>3, <2>4, <2>8, <2>9 DEF
         NoteRight, OfGC
  <2>17. RoomRight'
    BY <1>1, <1>2, <1>3, <1>6, <1>7, <2>1, <2>2, <2>3, <2>4, <2>8, <2>9 DEF
         RoomRight, InPA, Stopping
  <2> QED  BY <2>4, <2>8, <2>10, <2>11, <2>12, <2>13, <2>14, <2>15, <2>16,
       <2>17 DEF IInv, NowRight, NoOtherLoss
<1>8. CASE /\ F1.ret = "maybe_gc"
           /\ ~(F1.x = "T" /\ (dyn.ie \/ dyn.awi) /\ "def" \notin F2.mask)
  <2>1. /\ stack' = Rest(stack) /\ pc' = "pendRest" /\ dyn' = F2.dyn /\ mask' = All
        /\ UNCHANGED <<gc, ip, pa, pai, data, sigs, other>>
    BY <1>2, <1>6, <1>8 DEF GCReturn, Pop, Rest, Under
  <2>2. /\ stack' \in Seq(Frames) /\ StackRight(stack') /\ Len(stack') = Len(stack) - 1
        /\ F1' = F2 /\ F2' = F3 /\ F3' = F4
    BY PopNow, <1>2, <2>1
  <2>3. Len(stack') <= MaxDepth + 1
    BY <1>2, <1>4, <2>2
  <2>4. Types'
    BY <1>1, <1>2, <1>3, <1>4, <1>6, <1>8, <2>1, <2>2, <2>3 DEF Types, Places,
         Traps
  <2>5. PlaceRight'
    BY <1>1, <1>2, <1>3, <1>4, <1>6, <1>8, <2>1, <2>2, <2>3 DEF PlaceRight, At
  <2>6. DataRight'
    BY <1>1, <1>2, <1>3, <1>4, <1>6, <1>8, <2>1, <2>2, <2>3 DEF DataRight,
         InPA, Stopping
  <2>7. CollectionRight'
    BY <1>1, <1>2, <1>3, <1>4, <1>6, <1>8, <2>1, <2>2, <2>3 DEF
         CollectionRight, InPA, Stopping, OfGC
  <2>8. MaskFits'
    BY <1>1, <1>2, <1>3, <1>4, <1>6, <1>8, <2>1, <2>2, <2>3 DEF MaskFits
  <2>9. SignalRight'
    BY <1>1, <1>2, <1>3, <1>4, <1>6, <1>8, <2>1, <2>2, <2>3 DEF SignalRight,
         InPA
  <2>10. NoteRight'
    BY <1>1, <1>2, <1>3, <1>4, <1>6, <1>8, <2>1, <2>2, <2>3 DEF NoteRight,
         MaskIf, OfGC
  <2>11. RoomRight'
    BY <1>1, <1>2, <1>3, <1>4, <1>6, <1>8, <2>1, <2>2, <2>3 DEF RoomRight,
         InPA, Stopping
  <2> QED  BY <2>1, <2>2, <2>4, <2>5, <2>6, <2>7, <2>8, <2>9, <2>10, <2>11 DEF
       IInv, NowRight, NoOtherLoss
<1> QED  BY <1>4, <1>5, <1>7, <1>8

\* The program calls GC.
LEMMA CallGCKeeps ==
  ASSUME IInv, CallGC
  PROVE  IInv'
<1>1. /\ Types /\ PlaceRight /\ DataRight /\ CollectionRight /\ MaskFits
      /\ SignalRight /\ NoteRight /\ RoomRight
  BY DEF IInv, NowRight, Alive, CallGC, Free
<1>2. /\ InLisp(dyn, F1) /\ pc = "run" /\ ~pa /\ dyn \in Bindings
      /\ ~OfGC(F1) /\ ~InMaybeGC(F1, F2) /\ F1.k \notin {"gc", "pend"}
      /\ UNCHANGED <<dyn, ip, pa, pai, data, mask, sigs, other>>
  BY <1>1 DEF PlaceRight, At, InLisp, OfGC, InMaybeGC, Types, CallGC, Free
<1>3. Len(stack) < MaxDepth /\ Len(stack) \in Nat
  BY Now DEF CallGC, HasRoom
<1>4. CASE dyn.inhibit
  <2>1. /\ stack' = stack /\ pc' = pc /\ gc' = [gc EXCEPT !.pending = TRUE]
        /\ gc' \in [pending : BOOLEAN, stop : BOOLEAN] /\ gc'.pending /\ (gc'.stop <=> gc.stop)
    BY <1>1, <1>4 DEF Types, CallGC
  <2>2. /\ stack' \in Seq(Frames) /\ StackRight(stack') /\ Len(stack') = Len(stack)
        /\ F1' = F1 /\ F2' = F2 /\ F3' = F3 /\ F4' = F4
    BY StayNow, <2>1
  <2>3. Types'
    BY <1>1, <1>2, <1>3, <1>4, <2>1, <2>2 DEF Types, Places, Traps
  <2>4. PlaceRight'
    BY <1>1, <1>2, <1>3, <1>4, <2>1, <2>2 DEF PlaceRight, At
  <2>5. DataRight'
    BY <1>1, <1>2, <1>3, <1>4, <2>1, <2>2 DEF DataRight, InPA, Stopping
  <2>6. CollectionRight'
    BY <1>1, <1>2, <1>3, <1>4, <2>1, <2>2 DEF CollectionRight, InPA, Stopping,
         OfGC
  <2>7. MaskFits'
    BY <1>1, <1>2, <1>3, <1>4, <2>1, <2>2 DEF MaskFits
  <2>8. SignalRight'
    BY <1>1, <1>2, <1>3, <1>4, <2>1, <2>2 DEF SignalRight, InPA
  <2>9. NoteRight'
    BY <1>1, <1>2, <1>3, <1>4, <2>1, <2>2 DEF NoteRight
  <2>10. RoomRight'
    BY <1>1, <1>2, <1>3, <1>4, <2>1, <2>2 DEF RoomRight, InPA
  <2> QED  BY <1>2, <2>1, <2>2, <2>3, <2>4, <2>5, <2>6, <2>7, <2>8, <2>9, <2>10
       DEF IInv, NowRight, NoOtherLoss
<1>5. CASE ~dyn.inhibit
  <2>1. PICK gen \in {"0", "1"} : stack' = Cons(Frame("gc", {}, "run", gen), stack)
    BY <1>5 DEF CallGC, Push, Cons
  <2> DEFINE f == Frame("gc", {}, "run", gen)
  <2>2. /\ f.k = "gc" /\ f.dyn = dyn /\ f.mask = {} /\ f.ret = "run"
        /\ f \in Frames /\ stack' = Cons(f, stack)
    BY <1>2, <2>1 DEF Frame, Frames, Places, Traps
  <2> HIDE DEF f
  <2>3. pc' = "gcStart" /\ gc' = gc
    BY <1>5 DEF CallGC
  <2>4. Fits(f, F1, F2)
    BY <1>2, <1>5, <2>2 DEF Fits, InLisp
  <2>5. MaxDepth \in Nat /\ Height(f) \in Int /\ Height(f) >= MaxDepth
    BY Heights
  <2>6. Len(stack) + 1 <= Height(f)
    BY <1>3, <2>5
  <2>7. /\ stack' \in Seq(Frames) /\ StackRight(stack') /\ Len(stack') = Len(stack) + 1
        /\ F1' = f /\ F2' = F1 /\ F3' = F2 /\ F4' = F3
    BY PushNow, <2>2, <2>4, <2>6
  <2>8. Types'
    BY <1>1, <1>2, <1>5, <2>2, <2>3, <2>7 DEF Types, Places, Traps
  <2>9. PlaceRight'
    BY <1>1, <1>2, <1>5, <2>2, <2>3, <2>7 DEF PlaceRight, At
  <2>10. DataRight'
    BY <1>1, <1>2, <1>5, <2>2, <2>3, <2>7 DEF DataRight, InPA, Stopping
  <2>11. CollectionRight'
    BY <1>1, <1>2, <1>5, <2>2, <2>3, <2>7 DEF CollectionRight, InPA, Stopping,
         OfGC
  <2>12. MaskFits'
    BY <1>1, <1>2, <1>5, <2>2, <2>3, <2>7 DEF MaskFits, InMaybeGC, OfGC
  <2>13. SignalRight'
    BY <1>1, <1>2, <1>5, <2>2, <2>3, <2>7 DEF SignalRight, InPA, OfGC,
         DataRight
  <2>14. NoteRight'
    BY <1>1, <1>2, <1>5, <2>2, <2>3, <2>7 DEF NoteRight, OfGC
  <2>15. RoomRight'
    BY <1>1, <1>2, <1>5, <2>2, <2>3, <2>7 DEF RoomRight, InPA, DataRight
  <2> QED  BY <2>3, <2>7, <2>8, <2>9, <2>10, <2>11, <2>12, <2>13, <2>14, <2>15
       DEF IInv, NowRight, NoOtherLoss
<1> QED  BY <1>4, <1>5

\* WITH-INTERRUPTS unblocks signals in a handler and looks for what was put off.
LEMMA EnterWithInterruptsKeeps ==
  ASSUME IInv, EnterWithInterrupts
  PROVE  IInv'
<1>1. /\ Types /\ PlaceRight /\ DataRight /\ CollectionRight /\ MaskFits
      /\ SignalRight /\ NoteRight /\ RoomRight
  BY DEF IInv, NowRight, Alive, EnterWithInterrupts
<1>2. /\ F1.k = "with" /\ F1.x = "" /\ Top = F1 /\ F1 \in Frames /\ F1.dyn \in Bindings
      /\ Fits(F1, F2, F3) /\ stack # <<>> /\ Len(stack) \in Nat /\ Len(stack) <= Height(F1)
      /\ Sane(dyn) /\ dyn.ie /\ dyn \in Bindings
      /\ dyn.inhibit = F1.dyn.inhibit /\ dyn.inwg = F1.dyn.inwg /\ dyn.unb = F1.dyn.unb
  BY Now, <1>1 DEF PlaceRight, At, EnterWithInterrupts, Top, Types
<1>3. /\ ~data.gbd /\ ~pa /\ ~pai /\ ~OfGC(F1) /\ ~InMaybeGC(F1, F2)
      /\ data.handler => ip /\ ~dyn.unb
      /\ ip => data.handler
  BY <1>1, <1>2 DEF DataRight, SignalRight, InPA, OfGC, InMaybeGC,
       EnterWithInterrupts
<1>4. mask = MaskIf(data.handler \/ dyn.unb)
  BY <1>1, <1>3 DEF MaskFits, MaskIf, EnterWithInterrupts
<1>5. /\ pc' = IF ip THEN "withTrap" ELSE "run"
      /\ pc = "withEnter" /\ UNCHANGED <<gc, ip, pa, pai, data, sigs, other>>
  BY <1>3, <1>4 DEF MaskIf, Goto, EnterWithInterrupts
<1>6. CASE ~dyn.unb
  <2>1. UNCHANGED <<stack, dyn, mask>>
    BY <1>6 DEF EnterWithInterrupts
  <2>2. /\ stack' \in Seq(Frames) /\ StackRight(stack') /\ Len(stack') = Len(stack)
        /\ F1' = F1 /\ F2' = F2 /\ F3' = F3 /\ F4' = F4
    BY StayNow, <2>1
  <2>3. InLisp(dyn, F1)
    BY <1>2, <1>6 DEF InLisp, Fits
  <2>4. Types'
    BY <1>1, <1>2, <1>3, <1>4, <1>5, <1>6, <2>1, <2>2, <2>3 DEF Types, Places,
         Traps
  <2>5. PlaceRight'
    BY <1>1, <1>2, <1>3, <1>4, <1>5, <1>6, <2>1, <2>2, <2>3 DEF PlaceRight, At
  <2>6. DataRight'
    BY <1>1, <1>2, <1>3, <1>4, <1>5, <1>6, <2>1, <2>2, <2>3 DEF DataRight,
         InPA, Stopping
  <2>7. CollectionRight'
    BY <1>1, <1>2, <1>3, <1>4, <1>5, <1>6, <2>1, <2>2, <2>3 DEF
         CollectionRight, InPA, Stopping, OfGC
  <2>8. MaskFits'
    BY <1>1, <1>2, <1>3, <1>4, <1>5, <1>6, <2>1, <2>2, <2>3 DEF MaskFits,
         MaskIf
  <2>9. SignalRight'
    BY <1>1, <1>2, <1>3, <1>4, <1>5, <1>6, <2>1, <2>2, <2>3 DEF SignalRight,
         InPA
  <2>10. NoteRight'
    BY <1>1, <1>2, <1>3, <1>4, <1>5, <1>6, <2>1, <2>2, <2>3 DEF NoteRight
  <2>11. RoomRight'
    BY <1>1, <1>2, <1>3, <1>4, <1>5, <1>6, <2>1, <2>2, <2>3 DEF RoomRight, InPA
  <2> QED  BY <1>5, <2>1, <2>2, <2>4, <2>5, <2>6, <2>7, <2>8, <2>9, <2>10,
       <2>11 DEF IInv, NowRight, NoOtherLoss
<1>7. CASE dyn.unb
  <2> DEFINE f == [F1 EXCEPT !.x = "block"]
  <2>1. /\ f \in Frames /\ f.k = "with" /\ f.dyn = F1.dyn /\ f.mask = F1.mask /\ f.ret = F1.ret
        /\ f.x = "block"
    BY <1>2 DEF Frames
  <2>2. stack' = Cons(f, Rest(stack)) /\ mask' = mask \ {"def"} /\ dyn' = [dyn EXCEPT !.unb = FALSE]
    BY <1>2, <1>7 DEF EnterWithInterrupts, Cons, Rest, Under
  <2> HIDE DEF f
  <2>3. Fits(f, F2, F3)
    BY <1>2, <2>1 DEF Fits
  <2>4. F1.k = "with" /\ F1.ret = "run" /\ F1.mask = {}
    BY <1>2 DEF Fits
  <2>5. MaxDepth \in Nat /\ Height(f) \in Int /\ Height(f) >= MaxDepth /\ Height(F1) = MaxDepth
    BY <2>1, <2>4, Heights, NotAll DEF OfGC
  <2>6. Len(stack) <= Height(f)
    <3>1. Len(stack) \in Nat /\ Len(stack) <= Height(F1)
      BY <1>2
    <3>2. Len(stack) <= MaxDepth
      BY <2>5, <3>1
    <3> QED  BY <2>5, <3>1, <3>2
  <2>7. /\ stack' \in Seq(Frames) /\ StackRight(stack') /\ Len(stack') = Len(stack)
        /\ F1' = f /\ F2' = F2 /\ F3' = F3 /\ F4' = F4
    BY SwapNow, <1>2, <2>1, <2>2, <2>3, <2>6
  <2>8. /\ dyn' \in Bindings /\ dyn'.ie /\ ~dyn'.unb /\ Sane(dyn')
        /\ dyn'.inhibit = dyn.inhibit
        /\ dyn'.inwg = dyn.inwg
    BY <1>2, <2>2 DEF Bindings, Sane
  <2>9. InLisp(dyn', f)
    BY <1>2, <1>7, <2>1, <2>4, <2>8 DEF InLisp
  <2>10. ~data.handler /\ ~ip /\ pc' = "run" /\ mask' = {}
    BY <1>3, <1>4, <1>5, <1>7, <2>2 DEF MaskIf
  <2>11. Types'
    BY <1>1, <1>2, <1>3, <1>5, <2>1, <2>7, <2>8, <2>9, <2>10 DEF Types, Places,
         Traps
  <2>12. PlaceRight'
    BY <1>1, <1>2, <1>3, <1>5, <2>1, <2>7, <2>8, <2>9, <2>10 DEF PlaceRight, At
  <2>13. DataRight'
    BY <1>1, <1>2, <1>3, <1>5, <2>1, <2>7, <2>8, <2>9, <2>10 DEF DataRight,
         InPA, Stopping
  <2>14. CollectionRight'
    BY <1>1, <1>2, <1>3, <1>5, <2>1, <2>7, <2>8, <2>9, <2>10 DEF
         CollectionRight, InPA, Stopping, OfGC
  <2>15. MaskFits'
    BY <1>1, <1>2, <1>3, <1>5, <2>1, <2>7, <2>8, <2>9, <2>10 DEF MaskFits,
         MaskIf, InMaybeGC, OfGC
  <2>16. SignalRight'
    BY <1>1, <1>2, <1>3, <1>5, <2>1, <2>7, <2>8, <2>9, <2>10 DEF SignalRight,
         InPA
  <2>17. NoteRight'
    BY <1>1, <1>2, <1>3, <1>5, <2>1, <2>7, <2>8, <2>9, <2>10 DEF NoteRight,
         OfGC
  <2>18. RoomRight'
    BY <1>1, <1>2, <1>3, <1>5, <2>1, <2>7, <2>8, <2>9, <2>10 DEF RoomRight,
         InPA
  <2> QED  BY <2>7, <2>10, <2>11, <2>12, <2>13, <2>14, <2>15, <2>16, <2>17,
       <2>18 DEF IInv, NowRight, NoOtherLoss
<1> QED  BY <1>6, <1>7

\* SUB-GC tries to take the lock of the collector, and collects.
LEMMA GCTryKeeps ==
  ASSUME IInv, GCTry
  PROVE  IInv'
<1>1. /\ Types /\ PlaceRight /\ DataRight /\ CollectionRight /\ MaskFits
      /\ SignalRight /\ NoteRight /\ RoomRight
  BY DEF IInv, NowRight, Alive, GCTry
<1>2. /\ OfGC(F1) /\ dyn = Inside(F1.dyn) /\ F1 \in Frames /\ stack # <<>> /\ Top = F1
      /\ Fits(F1, F2, F3) /\ Len(stack) \in Nat /\ Len(stack) <= Height(F1)
  BY Now, <1>1 DEF PlaceRight, At, OfGC, GCTry, Top
<1>3. F2.k = "gc" /\ F1.dyn = NoInts(F2.dyn)
  BY <1>2 DEF Fits, OfGC
<1>4. /\ F2 \in Frames /\ Fits(F2, F3, F4) /\ Rest(stack) # <<>> /\ Head(Rest(stack)) = F2
      /\ Len(stack) - 1 <= Height(F2) /\ F1.dyn \in Bindings
  BY Now, <1>3
<1>5. dyn.inhibit /\ ~dyn.ie /\ ~pa /\ ~pai /\ ~data.gbd /\ pc = "gcTry"
  BY <1>1, <1>2, <1>4 DEF Inside, Bindings, DataRight, InPA, GCTry
<1>6. /\ gc' = [gc EXCEPT !.pending = FALSE] /\ gc' \in [pending : BOOLEAN, stop : BOOLEAN]
      /\ ~gc'.pending /\ (gc'.stop <=> gc.stop)
      /\ UNCHANGED <<dyn, ip, pa, pai, data, mask, sigs, other>>
  BY <1>1 DEF Types, GCTry
<1>7. ASSUME stack' \in Seq(Frames), StackRight(stack'), Len(stack') = Len(stack), pc' = "wgLeave",
             F1' = F1, F2'.k = F2.k, F2'.ret = F2.ret, F2'.dyn = F2.dyn, F3' = F3, F4' = F4
      PROVE  IInv'
  <2>1. Types'
    BY <1>1, <1>2, <1>3, <1>5, <1>6, <1>7 DEF Types, Places, Traps
  <2>2. PlaceRight'
    BY <1>1, <1>2, <1>3, <1>5, <1>6, <1>7 DEF PlaceRight, At
  <2>3. DataRight'
    BY <1>1, <1>2, <1>3, <1>5, <1>6, <1>7 DEF DataRight, InPA, Stopping
  <2>4. CollectionRight'
    BY <1>1, <1>2, <1>3, <1>5, <1>6, <1>7 DEF CollectionRight, InPA, Stopping,
         OfGC
  <2>5. MaskFits'
    BY <1>1, <1>2, <1>3, <1>5, <1>6, <1>7 DEF MaskFits, InMaybeGC, OfGC
  <2>6. SignalRight'
    BY <1>1, <1>2, <1>3, <1>5, <1>6, <1>7 DEF SignalRight, InPA, OfGC
  <2>7. NoteRight'
    BY <1>1, <1>2, <1>3, <1>5, <1>6, <1>7 DEF NoteRight, OfGC
  <2>8. RoomRight'
    BY <1>1, <1>2, <1>3, <1>5, <1>6, <1>7 DEF RoomRight, InPA, OfGC
  <2> QED  BY <1>7, <2>1, <2>2, <2>3, <2>4, <2>5, <2>6, <2>7, <2>8 DEF IInv,
       NowRight, NoOtherLoss
<1>8. CASE other # "none"
  <2>1. stack' = stack /\ pc' = "wgLeave"
    BY <1>8 DEF GCTry
  <2>2. /\ stack' \in Seq(Frames) /\ StackRight(stack') /\ Len(stack') = Len(stack)
        /\ F1' = F1 /\ F2' = F2 /\ F3' = F3 /\ F4' = F4
    BY StayNow, <2>1
  <2> QED  BY <1>7, <2>1, <2>2
<1>9. CASE other = "none"
  <2> DEFINE g == [F2 EXCEPT !.x = "T"]
  <2>1. /\ g \in Frames /\ g.k = "gc" /\ g.dyn = F2.dyn /\ g.mask = F2.mask /\ g.ret = F2.ret
        /\ g.x = "T"
    BY <1>3, <1>4 DEF Frames
  <2>2. ~gc.stop
    BY <1>1, <1>9 DEF CollectionRight
  <2>3. stack' = <<F1, g>> \o Rest(Rest(stack)) /\ pc' = "wgLeave"
    BY <1>2, <1>4, <1>9, <2>2 DEF GCTry, Goto, Rest, Under
  <2> HIDE DEF g
  <2>4. Rest(Rest(stack)) \in Seq(Frames)
    <3>1. stack \in Seq(Frames)
      BY <1>1 DEF Types
    <3>2. Rest(stack) \in Seq(Frames)
      BY <1>2, <3>1, PopNth
    <3> QED  BY <1>4, <3>2, PopNth
  <2>5. stack' = Cons(F1, Cons(g, Rest(Rest(stack))))
    BY <1>2, <2>1, <2>3, <2>4, TwoFrames
  <2>6. Fits(g, F3, F4)
    BY <1>3, <1>4, <2>1 DEF Fits
  <2>7. Fits(F1, g, F3)
    BY <1>2, <1>3, <2>1 DEF Fits, OfGC
  <2>8. Height(g) = Height(F2)
    BY <1>3, <2>1 DEF Height, OfGC
  <2>9. /\ stack' \in Seq(Frames) /\ StackRight(stack') /\ Len(stack') = Len(stack)
        /\ F1' = F1 /\ F2' = g /\ F3' = F3 /\ F4' = F4
    BY SwapTwoNow, <1>2, <1>4, <2>1, <2>5, <2>6, <2>7, <2>8
  <2> QED  BY <1>3, <1>7, <2>1, <2>3, <2>9
<1> QED  BY <1>8, <1>9

\* Where the thread can be when deferrable signals are not blocked.
LEMMA Unblocked ==
  ASSUME IInv, Alive, "def" \notin mask
  PROVE  /\ mask = {} /\ ~data.handler /\ ~data.gbd /\ ~ip /\ ~pai
         /\ pc \notin {"pendRest", "pendEnd", "hCheck", "hRet"}
         /\ ~InMaybeGC(F1, F2) /\ F1.k # "pend"
         /\ ~(F1.k = "gc" /\ F1.ret = "maybe_gc")
         /\ OfGC(F1) => F2.ret # "maybe_gc"
         /\ dyn.unb => pc = "throw"
         /\ dyn.ie => pc \in Interruptible /\ Sane(dyn) /\ ~dyn.unb /\ ~dyn.inhibit
<1>1. /\ Types /\ PlaceRight /\ DataRight /\ CollectionRight /\ MaskFits
      /\ SignalRight /\ NoteRight /\ RoomRight
  BY DEF IInv, NowRight
<1>2. /\ F1.k # "none" => Fits(F1, F2, F3)
      /\ F1.k = "none" => F1 = Bottom
      /\ F1.dyn \in Bindings /\ F2.dyn \in Bindings
  BY Now
<1>3. pc \notin {"pendRest", "pendEnd", "hCheck", "hRet"}
  BY <1>1 DEF MaskFits, All
<1>4. pc = "throw" => F1.k = "sig" /\ dyn = InHandler(F1.dyn)
  BY <1>1 DEF PlaceRight, At
<1>5. mask = {} /\ ~data.handler
  <2>1. CASE pc = "throw"
    BY <1>1, <2>1 DEF MaskFits, MaskIf
  <2>2. CASE pc # "throw"
    BY <1>1, <1>3, <2>2 DEF MaskFits, MaskIf
  <2> QED  BY <2>1, <2>2
<1>6. ~data.gbd /\ ~ip /\ ~pai
  <2>1. pc # "throw" => ~data.gbd
    BY <1>1, <1>3, <1>5 DEF MaskFits, MaskIf
  <2>2. data.gbd => pc # "throw"
    BY <1>1 DEF DataRight, InPA
  <2> QED  BY <1>1, <1>5, <2>1, <2>2 DEF DataRight
<1>7. pc # "throw" => ~dyn.unb /\ ~InMaybeGC(F1, F2)
  BY <1>1, <1>3, <1>5 DEF MaskFits, MaskIf
<1>8. ~InMaybeGC(F1, F2)
  BY <1>4, <1>7 DEF InMaybeGC, OfGC
<1>9. F1.k # "pend"
  BY <1>1, <1>3 DEF PlaceRight, At, InLisp, OfGC, Types, Places, Traps, Alive
<1>10. OfGC(F1) => F2.ret # "maybe_gc"
  BY <1>2, <1>8 DEF InMaybeGC, OfGC, Fits
<1>11. ASSUME dyn.ie
       PROVE  pc \in Interruptible /\ Sane(dyn) /\ ~dyn.unb /\ ~dyn.inhibit
  <2>1. pc # "throw"
    BY <1>2, <1>4, <1>11 DEF InHandler, Bindings
  <2>2. pc \notin {"wgLeave", "gcTry", "wgOpen", "gcEnter", "gcAfter"}
    BY <1>1, <1>2, <1>11 DEF PlaceRight, At, Inside, NoInts, Bindings
  <2>3. pc \notin {"wiTrap", "withTrap", "gcTrap", "throwTrap", "hTrap"}
    BY <1>1, <1>6 DEF SignalRight, PlaceRight, At
  <2>4. pc \in Interruptible
    BY <1>1, <1>3, <2>1, <2>2, <2>3 DEF Interruptible, Types, Places, Traps, Alive
  <2>5. pc \in {"run", "paTrap", "wiCheck", "withEnter"} => Sane(dyn)
    BY <1>1 DEF PlaceRight, At, InLisp
  <2>6. ASSUME pc \in {"wgCheck", "wgTrap", "wgUnbind"} PROVE Sane(dyn)
    <3>1. F1.k = "wg" /\ dyn = [F1.dyn EXCEPT !.inwg = TRUE]
      BY <1>1, <2>6 DEF PlaceRight, At
    <3>2. F1.dyn.ie /\ dyn.inhibit = F1.dyn.inhibit /\ dyn.awi = F1.dyn.awi /\ dyn.unb = F1.dyn.unb
      BY <1>2, <1>11, <3>1 DEF Bindings
    <3>3. Sane(F1.dyn)
      BY <1>2, <3>1, <3>2 DEF Fits, InLisp, NoInts, Bindings
    <3> QED  BY <1>11, <3>2, <3>3 DEF Sane
  <2>7. pc \in {"gcStart", "gcCheck", "gcRet", "throwCheck", "land"} => Sane(dyn)
    BY <1>1, <1>2 DEF PlaceRight, At, Fits
  <2>8. Sane(dyn)
    BY <2>4, <2>5, <2>6, <2>7 DEF Interruptible
  <2> QED  BY <1>7, <1>11, <2>1, <2>4, <2>8 DEF Sane
<1> QED  BY <1>3, <1>5, <1>6, <1>7, <1>8, <1>9, <1>10, <1>11 DEF InMaybeGC

\* A deferrable signal arrives: it is put off, or its handler is called.
LEMMA DeferrableSignalKeeps ==
  ASSUME IInv, DeferrableSignal
  PROVE  IInv'
<1>1. /\ Alive /\ "def" \notin mask /\ Len(stack) < MaxDepth /\ sigs' = sigs \ {"def"}
      /\ UNCHANGED <<gc, pa, other>>
  BY DEF DeferrableSignal, HasRoom
<1>2. /\ Types /\ PlaceRight /\ DataRight /\ CollectionRight /\ MaskFits
      /\ SignalRight /\ NoteRight /\ RoomRight
  BY <1>1 DEF IInv, NowRight
<1>3. /\ mask = {} /\ ~data.handler /\ ~data.gbd /\ ~ip /\ ~pai
      /\ pc \notin {"pendRest", "pendEnd", "hCheck", "hRet"}
      /\ ~InMaybeGC(F1, F2) /\ F1.k # "pend"
      /\ ~(F1.k = "gc" /\ F1.ret = "maybe_gc")
      /\ OfGC(F1) => F2.ret # "maybe_gc"
      /\ dyn.unb => pc = "throw"
      /\ dyn.ie => pc \in Interruptible /\ Sane(dyn) /\ ~dyn.unb /\ ~dyn.inhibit
  BY <1>1, Unblocked
<1>4. Len(stack) \in Nat /\ MaxDepth \in Nat /\ dyn \in Bindings /\ Stopping \in BOOLEAN
  BY Now, <1>2 DEF Types, Stopping
<1>5. ASSUME StoreForLater
       PROVE data' \in DataOf /\ data'.handler /\ ~data'.gbd /\ data'.mask = {} /\ mask' = {"def"}
  BY <1>2, <1>3, <1>5 DEF StoreForLater, Types, DataOf
<1>6. CASE /\ MustWait /\ StoreForLater /\ ip' = TRUE /\ UNCHANGED <<stack, dyn, pai>>
           /\ CheckContext(ip \/ data.handler \/ data.gbd, mask \cup {"def"}, pc)
  <2>1. /\ stack' \in Seq(Frames) /\ StackRight(stack') /\ Len(stack') = Len(stack)
        /\ F1' = F1 /\ F2' = F2 /\ F3' = F3 /\ F4' = F4
    BY StayNow, <1>6
  <2>2. ~BadContext(mask \cup {"def"})
    BY <1>3, <1>5, <1>6 DEF BadContext, MustWait
  <2>3. pc' \in {pc, "why"}
    BY <1>3, <1>6, <2>2 DEF CheckContext
  <2>4. dyn.ie => pc \in {"wgCheck", "wgTrap"}
    <3> SUFFICES ASSUME dyn.ie PROVE pc \in {"wgCheck", "wgTrap"}
      OBVIOUS
    <3>1. Stopping /\ ~dyn.inhibit
      BY <1>6 DEF MustWait, InLeavingRace, Stopping
    <3>2. pc \in {"wgOpen", "wgCheck", "wgTrap", "gcStart", "gcEnter"}
      BY <1>2, <1>3, <3>1 DEF CollectionRight
    <3>3. pc \in {"gcStart", "gcEnter"} => F1.k = "gc" /\ F1.ret = "maybe_gc"
      BY <1>2, <1>3, <3>1 DEF CollectionRight, PlaceRight, At
    <3> QED  BY <1>3, <3>2, <3>3 DEF Interruptible
  <2>5. pc = "land" => dyn.ie
    <3>1. pc = "land" => F1.k = "sig" /\ dyn = F1.dyn
      BY <1>2 DEF PlaceRight, At
    <3>2. F1.k = "sig" => F1.dyn.ie
      BY Now DEF Fits
    <3> QED  BY <3>1, <3>2
  <2>6. Types'
    BY <1>1, <1>2, <1>3, <1>5, <1>6, <2>1, <2>3 DEF Types, Places, Traps, All
  <2>7. Alive' => PlaceRight'
    BY <1>1, <1>2, <1>3, <1>5, <1>6, <2>1, <2>3 DEF PlaceRight, At, Alive
  <2>8. Alive' => DataRight'
    BY <1>1, <1>2, <1>3, <1>5, <1>6, <2>1, <2>3 DEF DataRight, InPA, Stopping,
         Alive
  <2>9. Alive' => CollectionRight'
    BY <1>1, <1>2, <1>3, <1>5, <1>6, <2>1, <2>3 DEF CollectionRight, InPA,
         Stopping, OfGC, Alive
  <2>10. Alive' => MaskFits'
    BY <1>1, <1>2, <1>3, <1>5, <1>6, <2>1, <2>3 DEF MaskFits, MaskIf, Alive
  <2>11. Alive' => SignalRight'
    BY <1>1, <1>2, <1>3, <1>5, <1>6, <2>1, <2>3, <2>4, <2>5 DEF SignalRight,
         InPA, Alive
  <2>12. Alive' => NoteRight'
    BY <1>1, <1>2, <1>3, <1>5, <1>6, <2>1, <2>3 DEF NoteRight, Alive
  <2>13. Alive' => RoomRight'
    BY <1>1, <1>2, <1>3, <1>5, <1>6, <2>1, <2>3, <1>4 DEF RoomRight, InPA,
         Alive
  <2> QED  BY <1>1, <2>1, <2>3, <2>6, <2>7, <2>8, <2>9, <2>10, <2>11, <2>12,
       <2>13 DEF IInv, NowRight, NoOtherLoss, Alive
<1>7. CASE /\ ~MustWait /\ pa /\ StoreForLater /\ pai' = TRUE /\ UNCHANGED <<stack, dyn, ip>>
           /\ CheckContext(ip \/ data.handler \/ data.gbd, mask \cup {"def"}, pc)
  <2>1. /\ stack' \in Seq(Frames) /\ StackRight(stack') /\ Len(stack') = Len(stack)
        /\ F1' = F1 /\ F2' = F2 /\ F3' = F3 /\ F4' = F4
    BY StayNow, <1>7
  <2>2. ~BadContext(mask \cup {"def"}) /\ ~WhyPending
    BY <1>3, <1>5, <1>7 DEF BadContext, WhyPending
  <2>3. pc' = pc
    BY <1>3, <1>7, <2>2 DEF CheckContext
  <2>4. pc = "run" /\ dyn.ie /\ ~dyn.unb /\ ~dyn.inhibit /\ ~ip'
    BY <1>2, <1>3, <1>7 DEF DataRight, MustWait
  <2>5. Types'
    BY <1>1, <1>2, <1>3, <1>5, <1>7, <2>1, <2>3, <2>4 DEF Types, Places, Traps,
         All
  <2>6. PlaceRight'
    BY <1>1, <1>2, <1>3, <1>5, <1>7, <2>1, <2>3, <2>4 DEF PlaceRight, At
  <2>7. DataRight'
    BY <1>1, <1>2, <1>3, <1>5, <1>7, <2>1, <2>3, <2>4 DEF DataRight, InPA,
         Stopping
  <2>8. CollectionRight'
    BY <1>1, <1>2, <1>3, <1>5, <1>7, <2>1, <2>3, <2>4 DEF CollectionRight,
         InPA, Stopping, OfGC
  <2>9. MaskFits'
    BY <1>1, <1>2, <1>3, <1>5, <1>7, <2>1, <2>3, <2>4 DEF MaskFits, MaskIf
  <2>10. SignalRight'
    BY <1>1, <1>2, <1>3, <1>5, <1>7, <2>1, <2>3, <2>4 DEF SignalRight, InPA
  <2>11. NoteRight'
    BY <1>1, <1>2, <1>3, <1>5, <1>7, <2>1, <2>3, <2>4 DEF NoteRight
  <2>12. RoomRight'
    BY <1>1, <1>2, <1>3, <1>5, <1>7, <2>1, <2>3, <2>4, <1>4 DEF RoomRight, InPA
  <2> QED  BY <1>1, <2>1, <2>3, <2>5, <2>6, <2>7, <2>8, <2>9, <2>10, <2>11,
       <2>12 DEF IInv, NowRight, NoOtherLoss, Alive
<1>8. CASE /\ ~MustWait /\ ~pa /\ RunHandler(stack, mask, pc) /\ UNCHANGED <<ip, pai, data>>
           /\ CheckContext(ip \/ data.handler \/ data.gbd, mask, "run")
  <2> DEFINE f == Frame("sig", mask, pc, "")
  <2>1. dyn.ie /\ pc \in Interruptible /\ Sane(dyn) /\ ~dyn.unb /\ ~dyn.inhibit
    BY <1>3, <1>8 DEF MustWait
  <2>2. /\ f \in Frames /\ f.k = "sig" /\ f.dyn = dyn /\ f.mask = {} /\ f.ret = pc /\ f.x = ""
        /\ stack' = Cons(f, stack)
    BY <1>2, <1>3, <1>4, <1>8 DEF Frame, Frames, Types, RunHandler, Cons
  <2> HIDE DEF f
  <2>3. mask' = {"def"} /\ dyn' = InHandler(dyn) /\ UNCHANGED <<ip, pai, data>>
    BY <1>8 DEF RunHandler, InHandler
  <2>4. ~BadContext(mask)
    BY <1>3, <2>3 DEF BadContext
  <2>5. pc' \in {"run", "why"} /\ (pc' = "run" => ~Stopping)
    BY <1>3, <1>8, <2>1, <2>4 DEF CheckContext, WhyPending, MustWait, Stopping
  <2>6. Fits(f, F1, F2)
    BY <1>2, <1>3, <2>1, <2>2 DEF Fits, PlaceRight
  <2>7. Len(stack) + 1 <= Height(f)
    <3>1. Height(f) \in Int /\ Height(f) >= MaxDepth
      BY Heights
    <3> QED  BY <1>1, <1>4, <3>1
  <2>8. /\ stack' \in Seq(Frames) /\ StackRight(stack') /\ Len(stack') = Len(stack) + 1
        /\ F1' = f /\ F2' = F1 /\ F3' = F2 /\ F4' = F3
    BY PushNow, <2>2, <2>6, <2>7
  <2>9. dyn' \in Bindings /\ ~dyn'.ie /\ dyn'.unb /\ Sane(dyn') /\ dyn'.inhibit = dyn.inhibit
    BY <1>4, <2>1, <2>3 DEF InHandler, Bindings, Sane
  <2>10. InLisp(dyn', f)
    BY <2>2, <2>3, <2>9 DEF InLisp
  <2>11. Types'
    BY <1>1, <1>2, <1>3, <1>8, <2>1, <2>2, <2>3, <2>5, <2>8, <2>9, <2>10 DEF
         Types, Places, Traps, All
  <2>12. Alive' => PlaceRight'
    BY <1>1, <1>2, <1>3, <1>8, <2>1, <2>2, <2>3, <2>5, <2>8, <2>9, <2>10 DEF
         PlaceRight, At, Alive
  <2>13. Alive' => DataRight'
    BY <1>1, <1>3, <1>8, <2>3 DEF DataRight, InPA, Stopping, Alive
  <2>14. Alive' => CollectionRight'
    BY <1>1, <1>2, <1>3, <1>8, <2>1, <2>2, <2>3, <2>5, <2>8, <2>9, <2>10 DEF
         CollectionRight, InPA, Stopping, OfGC, Alive
  <2>15. Alive' => MaskFits'
    BY <1>1, <1>2, <1>3, <1>8, <2>1, <2>2, <2>3, <2>5, <2>8, <2>9, <2>10 DEF
         MaskFits, MaskIf, Alive
  <2>16. Alive' => SignalRight'
    BY <1>1, <1>2, <1>3, <1>8, <2>1, <2>2, <2>3, <2>5, <2>8, <2>9, <2>10 DEF
         SignalRight, InPA, Alive
  <2>17. Alive' => NoteRight'
    BY <1>1, <1>2, <1>3, <1>8, <2>1, <2>2, <2>3, <2>5, <2>8, <2>9, <2>10 DEF
         NoteRight, OfGC, Alive
  <2>18. Alive' => RoomRight'
    BY <1>1, <1>2, <1>3, <1>8, <2>1, <2>2, <2>3, <2>5, <2>8, <2>9, <2>10 DEF
         RoomRight, InPA, Stopping, Alive
  <2> QED  BY <2>5, <2>8, <2>11, <2>12, <2>13, <2>14, <2>15, <2>16, <2>17,
       <2>18 DEF IInv, NowRight, NoOtherLoss, Alive
<1> QED  BY <1>6, <1>7, <1>8 DEF DeferrableSignal

\* interrupt_handle_pending handles the signal that was put off, if it may.
LEMMA PendRestKeeps ==
  ASSUME IInv, PendRest
  PROVE  IInv'
<1>1. /\ Types /\ PlaceRight /\ DataRight /\ CollectionRight /\ MaskFits
      /\ SignalRight /\ NoteRight /\ RoomRight
  BY DEF IInv, NowRight, Alive, PendRest
<1>2. /\ pc = "pendRest" /\ F1.k = "pend" /\ dyn = F1.dyn /\ Top = F1 /\ F1 \in Frames
      /\ Fits(F1, F2, F3) /\ stack # <<>> /\ dyn \in Bindings
      /\ F2.k # "none" => Fits(F2, F3, F4)
  BY Now, <1>1 DEF PlaceRight, At, PendRest, Top, Types
<1>3. Len(stack) \in Nat /\ MaxDepth \in Nat /\ F2.dyn \in Bindings /\ F3.dyn \in Bindings
  BY Now, NowTypes
<1>4. /\ ~dyn.inhibit /\ At(F1.ret, dyn, F2) /\ F1.ret \in {"run", "wgUnbind", "gcRet", "land"}
      /\ ~(F2.k = "gc" /\ F2.ret = "maybe_gc")
  BY <1>2 DEF Fits
<1>5. /\ ~Stopping /\ ~data.gbd /\ ~pa
      /\ data.handler <=> F1.x = "handler"
      /\ data.handler => ~dyn.unb /\ data.mask = {}
      /\ dyn.ie /\ data.handler => Len(stack) <= MaxDepth + 1
      /\ UNCHANGED <<gc, pa, sigs, other>>
  BY <1>1, <1>2, <1>4 DEF CollectionRight, DataRight, NoteRight, SignalRight,
       RoomRight, InPA, PendRest
<1>6. CASE ~(dyn.ie /\ data.handler)
  <2>1. pc' = "pendEnd" /\ UNCHANGED <<stack, dyn, ip, pai, data, mask>>
    <3>1. data.handler = (F1.x = "handler")
      BY <1>1, <1>5 DEF Types, DataOf
    <3> QED  BY <1>2, <1>5, <1>6, <3>1 DEF PendRest, Goto, Stopping
  <2>2. /\ stack' \in Seq(Frames) /\ StackRight(stack') /\ Len(stack') = Len(stack)
        /\ F1' = F1 /\ F2' = F2 /\ F3' = F3 /\ F4' = F4
    BY StayNow, <2>1
  <2>3. Types'
    BY <1>1, <1>2, <1>4, <1>5, <1>6, <2>1, <2>2 DEF Types, Places, Traps
  <2>4. PlaceRight'
    BY <1>1, <1>2, <1>4, <1>5, <1>6, <2>1, <2>2 DEF PlaceRight, At
  <2>5. DataRight'
    BY <1>1, <1>2, <1>4, <1>5, <1>6, <2>1, <2>2 DEF DataRight, InPA, Stopping
  <2>6. CollectionRight'
    BY <1>1, <1>2, <1>4, <1>5, <1>6, <2>1, <2>2 DEF CollectionRight, InPA,
         Stopping, OfGC
  <2>7. MaskFits'
    BY <1>1, <1>2, <1>4, <1>5, <1>6, <2>1, <2>2 DEF MaskFits
  <2>8. SignalRight'
    BY <1>1, <1>2, <1>4, <1>5, <1>6, <2>1, <2>2 DEF SignalRight, InPA
  <2>9. NoteRight'
    BY <1>1, <1>2, <1>4, <1>5, <1>6, <2>1, <2>2 DEF NoteRight
  <2>10. RoomRight'
    BY <1>1, <1>2, <1>4, <1>5, <1>6, <2>1, <2>2 DEF RoomRight, InPA, Stopping
  <2> QED  BY <2>1, <2>2, <2>3, <2>4, <2>5, <2>6, <2>7, <2>8, <2>9, <2>10 DEF
       IInv, NowRight, NoOtherLoss
<1>7. CASE dyn.ie /\ data.handler
  <2> DEFINE g == [F1 EXCEPT !.mask = data.mask]
             f == Frame("sig", All, "pendEnd", "")
  <2>1. g \in Frames /\ g.k = "pend" /\ g.dyn = dyn /\ g.mask = {} /\ g.ret = F1.ret /\ g.x = F1.x
    BY <1>2, <1>5, <1>7 DEF Frames
  <2>2. f \in Frames /\ f.k = "sig" /\ f.dyn = dyn /\ f.mask = All /\ f.ret = "pendEnd" /\ f.x = ""
    BY <1>2 DEF Frame, Frames, Places, Traps
  <2>3. /\ stack' = Cons(f, Cons(g, Rest(stack)))
        /\ pc' = "run" /\ mask' = {"def"} /\ dyn' = InHandler(dyn)
        /\ ip' = FALSE /\ pai' = FALSE /\ data' = [data EXCEPT !.handler = FALSE]
    BY <1>2, <1>5, <1>7 DEF PendRest, RunHandler, Goto, Cons, Rest, Under,
         InHandler, Stopping
  <2> HIDE DEF f, g
  <2>4. ~OfGC(F2) /\ ~InMaybeGC(F2, F3)
    <3>1. ASSUME OfGC(F2) PROVE FALSE
      <4>1. F2.dyn = NoInts(F3.dyn)
        BY <1>2, <3>1 DEF Fits, OfGC
      <4>2. ~F2.dyn.ie
        BY <1>3, <4>1 DEF NoInts, Bindings
      <4>3. dyn = [F2.dyn EXCEPT !.inwg = TRUE]
        BY <1>4, <3>1 DEF At, InLisp, OfGC
      <4> QED  BY <1>3, <1>7, <4>2, <4>3 DEF Bindings
    <3> QED  BY <1>4, <3>1 DEF InMaybeGC, OfGC
  <2>5. Sane(dyn)
    <3>1. F1.ret = "run" => Sane(dyn)
      BY <1>4 DEF At, InLisp
    <3>2. F1.ret \in {"gcRet", "land"} => Sane(dyn)
      BY <1>2, <1>4 DEF At, Fits
    <3>3. ASSUME F1.ret = "wgUnbind" PROVE Sane(dyn)
      <4>1. F2.k = "wg" /\ dyn = [F2.dyn EXCEPT !.inwg = TRUE]
        BY <1>4, <3>3 DEF At
      <4>2. Sane(F2.dyn)
        BY <1>2, <2>4, <4>1 DEF Fits, InLisp, OfGC
      <4>3. /\ dyn.ie = F2.dyn.ie /\ dyn.awi = F2.dyn.awi /\ dyn.unb = F2.dyn.unb
            /\ dyn.inhibit = F2.dyn.inhibit
        BY <1>3, <4>1 DEF Bindings
      <4> QED  BY <1>4, <4>2, <4>3 DEF Sane
    <3> QED  BY <1>4, <3>1, <3>2, <3>3
  <2>6. Fits(g, F2, F3)
    BY <1>2, <1>4, <1>5, <1>7, <2>1, <2>4 DEF Fits
  <2>7. Fits(f, g, F2)
    BY <1>5, <1>7, <2>1, <2>2, <2>4, <2>5 DEF Fits
  <2>8. Len(stack) <= Height(g) /\ Len(stack) + 1 <= Height(f)
    <3>1. Height(g) = MaxDepth + 3 /\ Height(f) \in Int /\ Height(f) >= MaxDepth + 2
      BY <2>1, <2>2, Heights
    <3>2. Len(stack) <= MaxDepth + 1
      BY <1>5, <1>7
    <3> QED  BY <1>3, <3>1, <3>2
  <2>9. /\ stack' \in Seq(Frames) /\ StackRight(stack') /\ Len(stack') = Len(stack) + 1
        /\ F1' = f /\ F2' = g /\ F3' = F2 /\ F4' = F3
    BY SwapPushNow, <1>2, <2>1, <2>2, <2>3, <2>6, <2>7, <2>8
  <2>10. dyn' \in Bindings /\ ~dyn'.ie /\ dyn'.unb /\ Sane(dyn') /\ ~dyn'.inhibit
    BY <1>2, <1>4, <2>3, <2>5 DEF InHandler, Bindings, Sane
  <2>11. InLisp(dyn', f)
    BY <2>2, <2>3, <2>10 DEF InLisp
  <2>12. data' \in DataOf /\ ~data'.handler /\ ~data'.gbd
    BY <1>1, <1>5, <2>3 DEF Types, DataOf
  <2>13. Types'
    BY <1>1, <1>5, <2>2, <2>3, <2>9, <2>10, <2>11, <2>12 DEF Types, Places,
         Traps, All
  <2>14. PlaceRight'
    BY <1>1, <1>5, <2>2, <2>3, <2>9, <2>10, <2>11, <2>12 DEF PlaceRight, At
  <2>15. DataRight'
    BY <1>1, <1>5, <2>2, <2>3, <2>9, <2>10, <2>11, <2>12 DEF DataRight, InPA,
         Stopping
  <2>16. CollectionRight'
    BY <1>1, <1>5, <2>2, <2>3, <2>9, <2>10, <2>11, <2>12 DEF CollectionRight,
         InPA, Stopping, OfGC
  <2>17. MaskFits'
    BY <1>1, <1>5, <2>2, <2>3, <2>9, <2>10, <2>11, <2>12 DEF MaskFits, MaskIf
  <2>18. SignalRight'
    BY <1>1, <1>5, <2>2, <2>3, <2>9, <2>10, <2>11, <2>12 DEF SignalRight, InPA
  <2>19. NoteRight'
    BY <1>1, <1>5, <2>2, <2>3, <2>9, <2>10, <2>11, <2>12 DEF NoteRight, OfGC
  <2>20. RoomRight'
    BY <1>1, <1>5, <2>2, <2>3, <2>9, <2>10, <2>11, <2>12 DEF RoomRight, InPA,
         Stopping
  <2> QED  BY <2>3, <2>9, <2>13, <2>14, <2>15, <2>16, <2>17, <2>18, <2>19,
       <2>20 DEF IInv, NowRight, NoOtherLoss
<1> QED  BY <1>6, <1>7

\* A trap: interrupt_handle_pending up to the collection that was put off.
LEMMA TrapKeeps ==
  ASSUME IInv, Trap
  PROVE  IInv'
<1> DEFINE m == IF data.gbd THEN data.mask ELSE mask
           p == PendFrame(m)
<1>1. /\ pc \in Traps /\ data' = [data EXCEPT !.gbd = FALSE] /\ UNCHANGED <<ip, pa, sigs>>
      /\ AfterTrap[pc] = IF pc = "wgTrap" THEN "wgUnbind" ELSE IF pc = "gcTrap" THEN "gcRet"
                         ELSE IF pc = "hTrap" THEN "hRet" ELSE IF pc = "throwTrap" THEN "land"
                         ELSE "run"
  BY DEF Trap, AfterTrap, Traps
<1>2. /\ Types /\ PlaceRight /\ DataRight /\ CollectionRight /\ MaskFits
      /\ SignalRight /\ NoteRight /\ RoomRight
  BY <1>1 DEF IInv, NowRight, Alive, Traps
<1>3. /\ F1.k # "none" => Fits(F1, F2, F3) /\ Len(stack) <= Height(F1)
      /\ F1.k = "none" => Len(stack) = 0
      /\ F1.dyn \in Bindings /\ F2.dyn \in Bindings /\ dyn \in Bindings
      /\ Len(stack) \in Nat /\ MaxDepth \in Nat
  BY Now, <1>2 DEF Types
<1>4. pc # "hTrap" /\ ~pa
  BY <1>1, <1>2 DEF PlaceRight, At, DataRight, Traps
<1>5. /\ F1.k # "pend" /\ ~(F1.k = "gc" /\ F1.ret = "maybe_gc")
      /\ pc = "paTrap" => ~OfGC(F1) /\ ~InMaybeGC(F1, F2)
  BY <1>1, <1>2, <1>4 DEF PlaceRight, At, InLisp, OfGC, InMaybeGC, Traps
<1>6. ~dyn.inhibit
  <2>1. pc \in {"wiTrap", "withTrap"} => Sane(dyn) /\ dyn.ie
    BY <1>2 DEF PlaceRight, At, InLisp
  <2>2. pc = "paTrap" => ~dyn.inhibit
    BY <1>2 DEF PlaceRight, At
  <2>3. ASSUME pc = "wgTrap" PROVE ~dyn.inhibit
    <3>1. F1.k = "wg" /\ dyn = [F1.dyn EXCEPT !.inwg = TRUE]
      BY <1>2, <2>3 DEF PlaceRight, At
    <3> QED  BY <1>3, <3>1 DEF Fits, Bindings
  <2>4. pc \in {"gcTrap", "throwTrap"} => (F1.k = "gc" \/ F1.k = "sig") /\ dyn = F1.dyn
    BY <1>2 DEF PlaceRight, At
  <2>5. pc \in {"gcTrap", "throwTrap"} => ~dyn.inhibit
    BY <1>3, <2>4 DEF Fits, Sane
  <2> QED  BY <1>1, <1>4, <2>1, <2>2, <2>3, <2>5 DEF Sane, Traps
<1>7. /\ m = MaskIf(data.handler \/ dyn.unb \/ InMaybeGC(F1, F2)) /\ "gc" \notin m
      /\ data.gbd => ~data.handler
  <2>1. CASE data.gbd
    BY <1>2, <1>4, <1>5, <2>1 DEF DataRight, InPA, MaskIf
  <2>2. CASE ~data.gbd
    BY <1>1, <1>2, <2>2 DEF MaskFits, MaskIf, Traps
  <2> QED  BY <2>1, <2>2
<1>8. /\ m \subseteq All /\ (m = {} \/ m = {"def"})
      /\ m = {} => ~dyn.unb /\ ~InMaybeGC(F1, F2)
      /\ data' \in DataOf /\ (data'.handler <=> data.handler) /\ ~data'.gbd
      /\ data'.mask = data.mask
      /\ data.handler => data.mask = {}
  BY <1>1, <1>2, <1>7 DEF Types, DataOf, MaskIf, All, DataRight
<1>9. /\ p \in Frames /\ p.k = "pend" /\ p.dyn = dyn /\ p.mask = m /\ p.ret = AfterTrap[pc]
      /\ p.x = IF data.handler THEN "handler" ELSE ""
  BY <1>1, <1>3, <1>8 DEF PendFrame, Frame, Frames, Places, Traps
<1> HIDE DEF m, p
<1>10. Fits(p, F1, F2)
  <2>1. p.ret \in {"run", "wgUnbind", "gcRet", "land"} /\ At(p.ret, dyn, F1)
    <3>1. CASE pc \in {"paTrap", "wiTrap", "withTrap"}
      BY <1>1, <1>2, <1>9, <3>1 DEF PlaceRight, At
    <3>2. CASE pc = "wgTrap"
      BY <1>1, <1>2, <1>9, <3>2 DEF PlaceRight, At
    <3>3. CASE pc = "gcTrap"
      BY <1>1, <1>2, <1>9, <3>3 DEF PlaceRight, At
    <3>4. CASE pc = "throwTrap"
      BY <1>1, <1>2, <1>9, <3>4 DEF PlaceRight, At
    <3> QED  BY <1>1, <1>4, <3>1, <3>2, <3>3, <3>4 DEF Traps
  <2> QED  BY <1>5, <1>6, <1>8, <1>9, <2>1 DEF Fits
<1>11. Len(stack) + 1 <= Height(p)
  <2>1. Height(p) = MaxDepth + 3
    BY <1>9, Heights
  <2>2. Height(F1) \in Int /\ Height(F1) <= MaxDepth + 2
    BY <1>5, Heights
  <2>3. Len(stack) <= MaxDepth + 2
    BY <1>3, <2>2
  <2> QED  BY <1>3, <2>1, <2>3
<1>12. data.handler /\ dyn.ie => Len(stack) <= MaxDepth
  <2> SUFFICES ASSUME data.handler, dyn.ie PROVE Len(stack) <= MaxDepth
    OBVIOUS
  <2>1. ~dyn.unb
    BY <1>1, <1>2 DEF SignalRight, Traps
  <2>2. F1.k \in {"sig", "post"} => Len(stack) <= MaxDepth
    BY <1>2 DEF RoomRight
  <2>3. F1.k # "none" /\ ~OfGC(F1) /\ F1.k \in {"wi", "wg", "with", "gc"} => Len(stack) <= MaxDepth
    <3> SUFFICES ASSUME ~OfGC(F1), F1.k \in {"wi", "wg", "with", "gc"}
           PROVE Len(stack) <= MaxDepth
      OBVIOUS
    <3>1. F1.mask = {} /\ F1.ret # "maybe_gc"
      BY <1>3, <1>5 DEF Fits, OfGC
    <3>2. Height(F1) = MaxDepth
      BY <3>1, Heights, NotAll
    <3> QED  BY <1>3, <3>2
  <2>4. ASSUME OfGC(F1) PROVE FALSE
    <3>1. F1.dyn = NoInts(F2.dyn)
      BY <1>3, <2>4 DEF Fits, OfGC
    <3>2. ~F1.dyn.ie
      BY <1>3, <3>1 DEF NoInts, Bindings
    <3>3. dyn = [F1.dyn EXCEPT !.inwg = TRUE]
      BY <1>1, <1>2, <1>4, <2>4 DEF PlaceRight, At, InLisp, OfGC, Traps
    <3> QED  BY <1>3, <3>2, <3>3 DEF Bindings
  <2>5. F1.k = "none" => Len(stack) <= MaxDepth
    BY <1>3
  <2>6. F1.k \in {"wi", "wg", "with", "sig", "pend", "gc", "post", "none"}
    BY NowTypes
  <2> QED  BY <1>5, <2>2, <2>3, <2>4, <2>5, <2>6
<1>13. ASSUME Push(p), mask' = All, pc' = "pendRest", dyn' = dyn, pai' => pai, pai' \in BOOLEAN,
              ~Stopping', Stopping => ~pai', gc' \in [pending : BOOLEAN, stop : BOOLEAN],
              other' \in {"none", "locked", "signalled"}, "gc" \in sigs => other' = "signalled"
       PROVE  IInv'
  <2>1. stack' = Cons(p, stack)
    BY <1>13 DEF Push, Cons
  <2>2. /\ stack' \in Seq(Frames) /\ StackRight(stack') /\ Len(stack') = Len(stack) + 1
        /\ F1' = p /\ F2' = F1 /\ F3' = F2 /\ F4' = F3
    BY PushNow, <1>9, <1>10, <1>11, <2>1
  <2>3. data.handler /\ ~ip => dyn.ie \/ (OfGC(F1) /\ F2.ret = "maybe_gc" /\ F3.dyn.ie)
    BY <1>1, <1>2, <1>5 DEF SignalRight, Traps
  <2>4. pai' => data.handler
    BY <1>2, <1>13 DEF DataRight
  <2>5. data.handler /\ dyn.ie => Len(stack') <= MaxDepth + 1
    BY <1>3, <1>12, <2>2
  <2>6. Types'
    BY <1>1, <1>2, <1>4, <1>6, <1>8, <1>9, <1>13, <2>2 DEF Types, Places,
         Traps, All
  <2>7. PlaceRight'
    BY <1>1, <1>2, <1>4, <1>6, <1>8, <1>9, <1>13, <2>2 DEF PlaceRight, At
  <2>8. DataRight'
    BY <1>1, <1>2, <1>4, <1>6, <1>8, <1>9, <1>13, <2>2, <2>4 DEF DataRight,
         InPA, Stopping
  <2>9. CollectionRight'
    BY <1>1, <1>2, <1>4, <1>6, <1>8, <1>9, <1>13, <2>2 DEF CollectionRight,
         InPA, Stopping, OfGC
  <2>10. MaskFits'
    BY <1>1, <1>2, <1>4, <1>6, <1>8, <1>9, <1>13, <2>2 DEF MaskFits
  <2>11. SignalRight'
    BY <1>1, <1>2, <1>4, <1>6, <1>8, <1>9, <1>13, <2>2, <2>3 DEF SignalRight,
         InPA, Traps
  <2>12. NoteRight'
    BY <1>1, <1>2, <1>4, <1>6, <1>8, <1>9, <1>13, <2>2, <1>5, <1>7 DEF
         NoteRight, OfGC, Traps
  <2>13. RoomRight'
    BY <1>8, <1>9, <1>13, <2>2, <2>5 DEF RoomRight, InPA, Stopping
  <2> QED  BY <1>13, <2>2, <2>6, <2>7, <2>8, <2>9, <2>10, <2>11, <2>12, <2>13
       DEF IInv, NowRight, NoOtherLoss
<1>14. CASE gc.stop
  <2>1. /\ Push(p) /\ mask' = All /\ pc' = "pendRest" /\ dyn' = dyn /\ pai' = FALSE
        /\ gc' = [pending |-> FALSE, stop |-> FALSE] /\ other' = "none"
    BY <1>6, <1>7, <1>14 DEF Trap, TrapOnly, Goto, m, p
  <2>2. "gc" \notin sigs /\ ~Stopping'
    BY <1>2, <1>14, <2>1 DEF CollectionRight, Stopping
  <2> QED  BY <1>13, <2>1, <2>2
<1>15. CASE ~gc.stop /\ ~gc.pending
  <2>1. /\ Push(p) /\ mask' = All /\ pc' = "pendRest" /\ dyn' = dyn
        /\ UNCHANGED <<pai, gc, other>>
    BY <1>6, <1>7, <1>15 DEF Trap, TrapOnly, Goto, m, p
  <2>2. ~Stopping /\ ~Stopping'
    BY <1>15, <2>1 DEF Stopping
  <2> QED  BY <1>2, <1>13, <2>1, <2>2 DEF Types, CollectionRight
<1>16. CASE ~gc.stop /\ gc.pending
  <2> DEFINE bound == IF data.handler THEN NoInts(dyn) ELSE dyn
             f == [Frame("gc", {}, "maybe_gc", "0") EXCEPT !.dyn = bound]
  <2>1. /\ bound \in Bindings /\ bound.inhibit = dyn.inhibit /\ bound.unb = dyn.unb
        /\ data.handler => ~bound.ie
    BY <1>3 DEF NoInts, Bindings
  <2>2. /\ f \in Frames /\ f.k = "gc" /\ f.dyn = bound /\ f.mask = {} /\ f.ret = "maybe_gc"
        /\ f.x = "0"
    BY <1>3, <2>1 DEF Frame, Frames
  <2>3. /\ stack' = <<f, p>> \o stack /\ dyn' = bound /\ pai' = FALSE /\ mask' = {"def"}
        /\ pc' = "gcStart" /\ UNCHANGED <<gc, other>>
    BY <1>6, <1>7, <1>16 DEF Trap, TrapGC, Goto, NoInts, m, p
  <2> HIDE DEF bound, f
  <2>4. stack' = Cons(f, Cons(p, stack))
    BY <1>2, <1>9, <2>2, <2>3, TwoFrames DEF Types
  <2>5. ~OfGC(F1) /\ ~InMaybeGC(F1, F2)
    BY <1>1, <1>2, <1>5, <1>16 DEF CollectionRight, InMaybeGC, OfGC, Traps
  <2>6. Sane(bound)
    <3>1. Sane(dyn)
      <4>1. pc \in {"paTrap", "wiTrap", "withTrap"} => Sane(dyn)
        BY <1>2 DEF PlaceRight, At, InLisp
      <4>2. pc \in {"gcTrap", "throwTrap"} => (F1.k = "gc" \/ F1.k = "sig") /\ dyn = F1.dyn
        BY <1>2 DEF PlaceRight, At
      <4>3. pc \in {"gcTrap", "throwTrap"} => Sane(dyn)
        BY <1>3, <4>2 DEF Fits
      <4>4. ASSUME pc = "wgTrap" PROVE Sane(dyn)
        <5>1. F1.k = "wg" /\ dyn = [F1.dyn EXCEPT !.inwg = TRUE]
          BY <1>2, <4>4 DEF PlaceRight, At
        <5>2. Sane(F1.dyn)
          BY <1>3, <2>5, <5>1 DEF Fits, InLisp, OfGC
        <5>3. /\ dyn.ie = F1.dyn.ie /\ dyn.awi = F1.dyn.awi /\ dyn.unb = F1.dyn.unb
          BY <1>3, <5>1 DEF Bindings
        <5> QED  BY <1>6, <5>2, <5>3 DEF Sane
      <4> QED  BY <1>1, <1>4, <4>1, <4>3, <4>4 DEF Traps
    <3> QED  BY <1>3, <1>6, <3>1 DEF Sane, NoInts, Bindings, bound
  <2>7. p.mask = MaskIf(p.x = "handler" \/ p.dyn.unb)
    BY <1>7, <1>9, <2>5 DEF MaskIf
  <2>8. f.dyn = IF p.x = "handler" THEN NoInts(p.dyn) ELSE p.dyn
    BY <1>9, <2>2 DEF bound
  <2>9. Fits(f, p, F1)
    BY <1>6, <1>9, <2>1, <2>2, <2>5, <2>6, <2>7, <2>8 DEF Fits
  <2>10. Len(stack) < MaxDepth
    <3>1. (pai /\ InPA) \/ pc = "wgTrap"
      BY <1>1, <1>2, <1>6, <1>16 DEF CollectionRight, Stopping, Traps
    <3>2. pc = "wgTrap" => F1.k = "wg" /\ (F1.ret = "run" \/ OfGC(F1))
      BY <1>2, <1>3 DEF PlaceRight, At, Fits, OfGC
    <3> QED  BY <1>2, <1>6, <1>16, <2>5, <3>1, <3>2 DEF RoomRight
  <2>11. Len(stack) + 2 <= Height(f)
    <3>1. Height(f) \in Int /\ Height(f) >= MaxDepth + 1
      BY <2>2, Heights
    <3> QED  BY <1>3, <2>10, <3>1
  <2>12. /\ stack' \in Seq(Frames) /\ StackRight(stack') /\ Len(stack') = Len(stack) + 2
         /\ F1' = f /\ F2' = p /\ F3' = F1 /\ F4' = F2
    BY PushTwoNow, <1>9, <1>10, <1>11, <2>2, <2>4, <2>9, <2>11
  <2>13. data.handler /\ ~ip => dyn.ie
    BY <1>1, <1>2, <1>5, <2>5 DEF SignalRight, Traps
  <2>14. Types'
    BY <1>1, <1>2, <1>4, <1>6, <1>8, <1>9, <1>16, <2>1, <2>2, <2>3, <2>12 DEF
         Types, Places, Traps, All
  <2>15. PlaceRight'
    BY <1>1, <1>2, <1>4, <1>6, <1>8, <1>9, <1>16, <2>1, <2>2, <2>3, <2>12 DEF
         PlaceRight, At
  <2>16. DataRight'
    BY <1>1, <1>2, <1>4, <1>6, <1>8, <1>9, <1>16, <2>1, <2>2, <2>3, <2>12 DEF
         DataRight, InPA, Stopping
  <2>17. CollectionRight'
    BY <1>1, <1>2, <1>4, <1>6, <1>8, <1>9, <1>16, <2>1, <2>2, <2>3, <2>12 DEF
         CollectionRight, InPA, Stopping, OfGC
  <2>18. MaskFits'
    BY <1>1, <1>2, <1>4, <1>6, <1>8, <1>9, <1>16, <2>1, <2>2, <2>3, <2>12 DEF
         MaskFits, MaskIf, InMaybeGC
  <2>19. SignalRight'
    BY <1>1, <1>2, <1>4, <1>6, <1>8, <1>9, <1>16, <2>1, <2>2, <2>3, <2>12,
         <2>13 DEF SignalRight, InPA, Traps
  <2>20. NoteRight'
    BY <1>1, <1>2, <1>4, <1>6, <1>8, <1>9, <1>16, <2>1, <2>2, <2>3, <2>12 DEF
         NoteRight, OfGC
  <2>21. RoomRight'
    BY <1>1, <1>2, <1>4, <1>6, <1>8, <1>9, <1>16, <2>1, <2>2, <2>3, <2>12 DEF
         RoomRight, InPA
  <2> QED  BY <2>3, <2>12, <2>14, <2>15, <2>16, <2>17, <2>18, <2>19, <2>20,
       <2>21 DEF IInv, NowRight, NoOtherLoss
<1> QED  BY <1>14, <1>15, <1>16

\* A frame that unwinding leaves behind, and the one under it: if a handler had
\* not yet to unblock signals in the one, it had not in the other.
LEMMA UnwoundFrame ==
  ASSUME NEW s \in Seq(Frames), StackRight(s), NEW i \in 1..Len(s), i < Len(s),
         ~Nth(s, i).dyn.unb,
         Nth(s, i).ret \in {"run", "paTrap", "wiCheck", "wiTrap", "withEnter", "withTrap"} =>
           Nth(s, i + 1).k = "post"
  PROVE  ~Nth(s, i + 1).dyn.unb
<1> DEFINE f == Nth(s, i)
           g == Nth(s, i + 1)
           h == Nth(s, i + 2)
<1>1. /\ Len(s) \in Nat /\ i \in Nat \ {0} /\ i + 1 \in 1..Len(s) /\ i + 1 \in Nat \ {0}
      /\ i + 2 \in Nat \ {0} /\ (i + 1) + 1 = i + 2
  <2>1. Len(s) \in Nat
    OBVIOUS
  <2> QED  BY <2>1
<1>2. /\ Fits(f, g, h) /\ ~f.dyn.unb
      /\ f.k \in {"wi", "wg", "with", "sig", "pend", "gc", "post", "none"}
  BY <1>1, NthType DEF StackRight
<1>3. g.dyn \in Bindings
  BY <1>1, NthType
<1>4. ASSUME g.k = "post" PROVE ~g.dyn.unb
  <2>1. Fits(g, h, Nth(s, (i + 1) + 2))
    BY <1>1 DEF StackRight
  <2>2. g.dyn = h.dyn /\ h.mask = {} /\ h.k = "pend"
    BY <1>4, <2>1 DEF Fits
  <2>3. h.k = "none" <=> i + 2 > Len(s)
    BY <1>1, NthType
  <2>4. i + 2 \in 1..Len(s)
    BY <1>1, <2>2, <2>3
  <2>5. Fits(h, Nth(s, (i + 2) + 1), Nth(s, (i + 2) + 2))
    BY <2>4 DEF StackRight
  <2> QED  BY <2>2, <2>5 DEF Fits
<1>5. ASSUME f.ret \notin {"run", "paTrap", "wiCheck", "wiTrap", "withEnter", "withTrap"}
      PROVE  ~g.dyn.unb
  <2>1. CASE f.k \in {"wi", "with", "none"}
    BY <1>2, <1>5, <2>1 DEF Fits
  <2>2. CASE f.k = "wg"
    <3>1. f.dyn = NoInts(g.dyn)
      BY <1>2, <1>5, <2>2 DEF Fits
    <3> QED  BY <1>2, <1>3, <3>1 DEF NoInts, Bindings
  <2>3. CASE f.k = "sig"
    <3>1. \/ f.ret = "pendEnd" /\ f.dyn = g.dyn
          \/ f.ret \in Interruptible /\ At(f.ret, f.dyn, g)
      BY <1>2, <2>3 DEF Fits
    <3>2. f.dyn = g.dyn \/ f.dyn = [g.dyn EXCEPT !.inwg = TRUE]
      BY <1>5, <3>1 DEF Interruptible, At
    <3> QED  BY <1>2, <1>3, <3>2 DEF Bindings
  <2>4. CASE f.k = "pend"
    <3>1. f.ret \in {"wgUnbind", "gcRet", "land"} /\ At(f.ret, f.dyn, g)
      BY <1>2, <1>5, <2>4 DEF Fits
    <3>2. f.dyn = g.dyn \/ f.dyn = [g.dyn EXCEPT !.inwg = TRUE]
      BY <3>1 DEF At
    <3> QED  BY <1>2, <1>3, <3>2 DEF Bindings
  <2>5. CASE f.k = "gc"
    <3>1. f.dyn = g.dyn \/ f.dyn = NoInts(g.dyn)
      BY <1>2, <1>5, <2>5 DEF Fits
    <3> QED  BY <1>2, <1>3, <3>1 DEF NoInts, Bindings
  <2>6. CASE f.k = "post"
    BY <1>2, <2>6 DEF Fits
  <2> QED  BY <1>2, <2>1, <2>2, <2>3, <2>4, <2>5, <2>6
<1> QED  BY <1>4, <1>5

\* So none of the frames down to the one that catches had.
LEMMA UnwoundFrames ==
  ASSUME NEW s \in Seq(Frames), StackRight(s), NEW n \in 1..Len(s), ~Nth(s, 1).dyn.unb,
         \A i \in 1..(n - 1) :
           Nth(s, i).ret \in {"run", "paTrap", "wiCheck", "wiTrap", "withEnter", "withTrap"} =>
             Nth(s, i + 1).k = "post"
  PROVE  ~Nth(s, n).dyn.unb
<1>1. Len(s) \in Nat /\ n \in Nat /\ n >= 1 /\ n <= Len(s)
  <2>1. Len(s) \in Nat
    OBVIOUS
  <2> QED  BY <2>1
<1> SUFFICES ASSUME Nth(s, n).dyn.unb PROVE FALSE
  OBVIOUS
<1> DEFINE T == {i \in 1..n : Nth(s, i).dyn.unb}
<1>2. T \subseteq Nat /\ T # {}
  BY <1>1
<1>3. PICK x \in T : \A y \in T : ~(<<y, x>> \in OpToRel(<, Nat))
  BY <1>2, NatLessThanWellFounded, WFMin
<1>4. x \in 1..n /\ Nth(s, x).dyn.unb /\ x # 1
  OBVIOUS
<1>5. \E i \in 1..(n - 1) : x = i + 1
  <2>1. x \in Nat /\ x > 1 /\ x <= n
    BY <1>1, <1>4
  <2>2. x - 1 \in 1..(n - 1) /\ x = (x - 1) + 1
    BY <1>1, <2>1
  <2> QED  BY <2>2
<1>6. PICK i \in 1..(n - 1) : x = i + 1
  BY <1>5
<1>7. i \in Nat /\ i \in 1..n /\ i < x /\ i \in 1..Len(s) /\ i < Len(s) /\ x \in Nat
  BY <1>1, <1>6
<1>8. <<i, x>> \in OpToRel(<, Nat)
  BY <1>7 DEF OpToRel
<1>9. ~Nth(s, i).dyn.unb
  BY <1>3, <1>7, <1>8
<1>10. ~Nth(s, i + 1).dyn.unb
  BY <1>6, <1>7, <1>9, UnwoundFrame
<1> QED  BY <1>4, <1>6, <1>10


\* The handler's unwinding ends in Lisp code that it interrupted.
LEMMA LandKeeps ==
  ASSUME IInv, Land
  PROVE  IInv'
<1>1. /\ Types /\ PlaceRight /\ DataRight /\ CollectionRight /\ MaskFits
      /\ SignalRight /\ NoteRight /\ RoomRight
  BY DEF IInv, NowRight, Alive, Land
<1>2. /\ F1.k = "sig" /\ dyn = F1.dyn /\ stack \in Seq(Frames) /\ StackRight(stack)
      /\ dyn.ie /\ ~dyn.unb /\ ~dyn.inhibit
  BY Now, <1>1 DEF PlaceRight, At, Fits, Sane, IInv, Land
<1>3. PICK n \in 1..Len(stack) :
        /\ CanCatch(n)
        /\ \A i \in 1..(n - 1) : ~CanCatch(i)
        /\ dyn' = stack[n].dyn
        /\ stack' = SubSeq(stack, n + 1, Len(stack))
  BY DEF Land
<1>4. /\ Len(stack) \in Nat /\ n \in Nat \ {0} /\ n + 1 \in Nat \ {0} /\ n + 2 \in Nat \ {0}
      /\ n <= Len(stack)
  <2>1. Len(stack) \in Nat
    BY <1>2
  <2> QED  BY <2>1
<1> DEFINE f == Nth(stack, n)
<1>5. /\ f = stack[n] /\ f \in Frames /\ f.dyn \in Bindings
      /\ f.k \in {"wi", "wg", "with", "sig", "pend", "gc", "post"}
  <2>1. f = stack[n] /\ f \in Frames
    BY <1>2, <1>4, NthType
  <2> QED  BY <2>1 DEF Frames
<1>6. Fits(f, Nth(stack, n + 1), Nth(stack, n + 2))
  BY <1>2 DEF StackRight
<1>7. \A i \in 1..(n - 1) :
        Nth(stack, i).ret \in {"run", "paTrap", "wiCheck", "wiTrap", "withEnter", "withTrap"} =>
          Nth(stack, i + 1).k = "post"
  <2> SUFFICES ASSUME NEW i \in 1..(n - 1),
                      Nth(stack, i).ret \in {"run", "paTrap", "wiCheck", "wiTrap", "withEnter", "withTrap"}
               PROVE  Nth(stack, i + 1).k = "post"
    OBVIOUS
  <2>1. i \in Nat \ {0} /\ i + 1 \in Nat \ {0} /\ i < Len(stack) /\ i + 1 <= Len(stack)
    BY <1>4
  <2>2. Nth(stack, i) = stack[i] /\ Nth(stack, i + 1) = stack[i + 1]
    <3>1. i <= Len(stack)
      BY <1>4, <2>1
    <3> QED  BY <1>2, <2>1, <3>1, NthType
  <2> QED  BY <1>3, <2>1, <2>2 DEF CanCatch
<1>8. ~f.dyn.unb
  <2>1. ~Nth(stack, 1).dyn.unb
    BY <1>2 DEF F1
  <2> QED  BY <1>2, <1>7, <2>1, UnwoundFrames
<1>9. stack' = Drop(stack, n) /\ dyn' = f.dyn /\ dyn' \in Bindings
  BY <1>3, <1>5 DEF Drop
<1>10. /\ stack' \in Seq(Frames) /\ StackRight(stack')
       /\ F1' = Nth(stack, n + 1)
  <2>1. /\ Drop(stack, n) \in Seq(Frames)
        /\ Nth(Drop(stack, n), 1) = Nth(stack, n + 1)
    BY <1>2, DropNth
  <2> QED  BY <1>2, <1>9, <2>1, DropRight DEF F1
<1>11. f.ret \in {"run", "paTrap", "wiCheck", "wiTrap", "withEnter", "withTrap"}
  BY <1>3, <1>5 DEF CanCatch
<1> HIDE DEF f
<1>12. InLisp(dyn', F1')
  <2>1. CASE f.k \in {"wi", "wg", "with", "gc", "post"}
    BY <1>6, <1>9, <1>10, <1>11, <2>1 DEF Fits
  <2>2. CASE f.k = "pend"
    BY <1>6, <1>9, <1>10, <1>11, <2>2 DEF Fits, At
  <2>3. CASE f.k = "sig"
    <3>1. At(f.ret, f.dyn, F1') /\ f.ret \in Interruptible
      BY <1>6, <1>10, <1>11, <2>3 DEF Fits
    <3>2. CASE f.ret = "withEnter"
      BY <1>8, <1>9, <3>1, <3>2 DEF At, InLisp
    <3>3. CASE f.ret # "withEnter"
      BY <1>9, <1>11, <3>1, <3>3 DEF At
    <3> QED  BY <3>2, <3>3
  <2> QED  BY <1>5, <2>1, <2>2, <2>3
<1>13. /\ ~Stopping /\ ~data.handler /\ ~data.gbd /\ ~ip /\ ~pa /\ ~pai /\ mask = {}
       /\ pc' = "run" /\ UNCHANGED <<gc, ip, pa, pai, data, mask, sigs, other>>
  BY <1>1, <1>2 DEF CollectionRight, SignalRight, DataRight, MaskFits, MaskIf, InMaybeGC,
       OfGC, InPA, Land
<1>14. ~OfGC(F1') /\ ~InMaybeGC(F1', F2') /\ F1'.k \notin {"gc", "pend"}
  BY <1>12 DEF InLisp, OfGC, InMaybeGC
<1>15. Types'
  BY <1>1, <1>8, <1>9, <1>10, <1>12, <1>13, <1>14 DEF Types, Places, Traps
<1>16. PlaceRight'
  BY <1>1, <1>8, <1>9, <1>10, <1>12, <1>13, <1>14 DEF PlaceRight, At
<1>17. DataRight'
  BY <1>1, <1>8, <1>9, <1>10, <1>12, <1>13, <1>14 DEF DataRight, InPA,
       Stopping
<1>18. CollectionRight'
  BY <1>1, <1>8, <1>9, <1>10, <1>12, <1>13, <1>14 DEF CollectionRight, InPA,
       Stopping, OfGC
<1>19. MaskFits'
  BY <1>1, <1>8, <1>9, <1>10, <1>12, <1>13, <1>14 DEF MaskFits, MaskIf
<1>20. SignalRight'
  BY <1>1, <1>8, <1>9, <1>10, <1>12, <1>13, <1>14 DEF SignalRight, InPA
<1>21. NoteRight'
  BY <1>1, <1>8, <1>9, <1>10, <1>12, <1>13, <1>14 DEF NoteRight
<1>22. RoomRight'
  BY <1>1, <1>8, <1>9, <1>10, <1>12, <1>13, <1>14 DEF RoomRight, InPA,
       Stopping
<1> QED  BY <1>10, <1>13, <1>15, <1>16, <1>17, <1>18, <1>19, <1>20, <1>21,
     <1>22 DEF IInv, NowRight, NoOtherLoss

------------------------------------------------------------------------------
(* The invariant, and what follows from it.                                    *)

\* A thread starts in Lisp code, with nothing put off.
LEMMA InitRight == Init => IInv
<1> SUFFICES ASSUME Init PROVE IInv
  OBVIOUS
<1>1. stack = <<>> /\ stack \in Seq(Frames) /\ Len(stack) = 0
  BY DEF Init
<1>2. /\ Nth(stack, 1) = Bottom /\ Nth(stack, 2) = Bottom /\ Nth(stack, 3) = Bottom
      /\ StackRight(stack)
  BY <1>1 DEF Nth, StackRight
<1>3. F1 = Bottom /\ F2 = Bottom /\ F3 = Bottom
  BY <1>2 DEF F1, F2, F3
<1>4. Types
  BY <1>1 DEF Init, Types, Places, Bindings, DataOf
<1>5. PlaceRight
  BY <1>3 DEF Init, PlaceRight, At, InLisp, Sane, Start, Bottom
<1>6. DataRight /\ CollectionRight /\ NoOtherLoss
  BY <1>3 DEF Init, DataRight, CollectionRight, Stopping, InPA, OfGC, Bottom, NoOtherLoss
<1>7. MaskFits
  BY <1>3 DEF Init, MaskFits, MaskIf, InMaybeGC, OfGC, Bottom
<1>8. SignalRight /\ NoteRight /\ RoomRight
  BY <1>3 DEF Init, SignalRight, NoteRight, RoomRight, InPA, OfGC, Bottom
<1> QED  BY <1>2, <1>4, <1>5, <1>6, <1>7, <1>8 DEF IInv, NowRight

\* Every step preserves the invariant.
LEMMA NextRight == IInv /\ [Next]_vars => IInv'
<1> SUFFICES ASSUME IInv, [Next]_vars PROVE IInv'
  OBVIOUS
<1>1. CASE EnterPA \/ LeavePA \/ TriggerGC \/ CallGC
  BY <1>1, EnterPAKeeps, LeavePAKeeps, TriggerGCKeeps, CallGCKeeps
<1>2. CASE Open
  BY <1>2, OpenWithoutGcingKeeps, OpenWithoutInterruptsKeeps, OpenWithInterruptsKeeps DEF Open
<1>3. CASE Leave
  BY <1>3, LeaveWithoutGcingKeeps, LeaveWithoutInterruptsKeeps, LeaveWithInterruptsKeeps,
     HandlerReturnKeeps, ThrowKeeps, PostGCReturnKeeps DEF Leave
<1>4. CASE Runtime
  <2>1. CASE UnbindInterrupts \/ CheckAfterGcing \/ UnbindInWithoutGcing \/ CheckAfterInterrupts
             \/ EnterWithInterrupts \/ CheckAfterHandler \/ SigReturn
    BY <2>1, UnbindInterruptsKeeps, CheckAfterGcingKeeps, UnbindInWithoutGcingKeeps,
       CheckAfterInterruptsKeeps, EnterWithInterruptsKeeps, CheckAfterHandlerKeeps,
            SigReturnKeeps
  <2>2. CASE UnbindThrow \/ CheckInThrow \/ Land \/ Trap \/ PendRest \/ PendEnd
    BY <2>2, UnbindThrowKeeps, CheckInThrowKeeps, LandKeeps, TrapKeeps, PendRestKeeps,
         PendEndKeeps
  <2>3. CASE GCStart \/ GCEnter \/ GCTry \/ GCAfter \/ GCCheck \/ GCReturn
    BY <2>3, GCStartKeeps, GCEnterKeeps, GCTryKeeps, GCAfterKeeps, GCCheckKeeps, GCReturnKeeps
  <2> QED  BY <1>4, <2>1, <2>2, <2>3 DEF Runtime
<1>5. CASE DeferrableSignal \/ StopSignal \/ SendSignal \/ OtherGC
  BY <1>5, DeferrableSignalKeeps, StopSignalKeeps, SendSignalKeeps, OtherGCKeeps
<1>6. CASE UNCHANGED vars
  <2>1. /\ stack' = stack /\ pc' = pc /\ dyn' = dyn /\ gc' = gc /\ ip' = ip /\ pa' = pa
        /\ pai' = pai /\ data' = data /\ mask' = mask /\ sigs' = sigs /\ other' = other
    BY <1>6 DEF vars
  <2>2. F1' = F1 /\ F2' = F2 /\ F3' = F3 /\ F4' = F4
    BY StayNow, <2>1
  <2>3. Types' /\ StackRight(stack') /\ NoOtherLoss'
    BY <2>1 DEF IInv, Types, NoOtherLoss
  <2>4. ASSUME Alive'
        PROVE  /\ PlaceRight' /\ DataRight' /\ CollectionRight' /\ MaskFits'
               /\ SignalRight' /\ NoteRight' /\ RoomRight'
    <3>1. /\ PlaceRight /\ DataRight /\ CollectionRight /\ MaskFits
          /\ SignalRight /\ NoteRight /\ RoomRight
      BY <2>1, <2>4 DEF IInv, NowRight, Alive
    <3>2. PlaceRight' /\ MaskFits'
      BY <2>1, <2>2, <3>1 DEF PlaceRight, MaskFits
    <3>3. DataRight' /\ CollectionRight'
      BY <2>1, <2>2, <3>1 DEF DataRight, CollectionRight, Stopping, InPA
    <3>4. SignalRight' /\ NoteRight' /\ RoomRight'
      BY <2>1, <2>2, <3>1 DEF SignalRight, NoteRight, RoomRight, InPA
    <3> QED  BY <3>2, <3>3, <3>4
  <2> QED  BY <2>3, <2>4 DEF IInv, NowRight
<1> QED  BY <1>1, <1>2, <1>3, <1>4, <1>5, <1>6 DEF Next

\* The frames lie on each other as they should, and at each place of the thread
\* only that is put off which the code ahead makes up for.
THEOREM Inductive == Spec => []IInv
<1>1. Init => IInv
  BY InitRight
<1>2. IInv /\ [Next]_vars => IInv'
  BY NextRight
<1> QED  BY <1>1, <1>2, PTL DEF Spec

\* However signals, traps, handlers and collections nest, every variable has its
\* type, and past the frames of the program and of handlers there are at most
\* three of the runtime: none is left behind.
THEOREM TypeCorrect == Spec => []TypeOK
<1>1. IInv => TypeOK
  <2> SUFFICES ASSUME IInv PROVE TypeOK
    OBVIOUS
  <2>1. Types
    BY DEF IInv
  <2>2. /\ Len(stack) \in Nat /\ MaxDepth \in Nat
        /\ stack # <<>> => Len(stack) <= Height(F1)
    BY Now
  <2>3. Height(F1) \in Int /\ Height(F1) <= MaxDepth + 3
    BY Heights
  <2>4. stack = <<>> => Len(stack) = 0
    OBVIOUS
  <2>5. Len(stack) <= MaxDepth + 3
    BY <2>2, <2>3, <2>4
  <2> QED  BY <2>1, <2>5 DEF Types, TypeOK
<1> QED  BY <1>1, Inductive, PTL

\* The checks of the runtime that end the process never fail, but for the two
\* that have a property of their own.
THEOREM NothingElseLost == Spec => []NoOtherLoss
<1>1. IInv => NoOtherLoss
  BY DEF IInv
<1> QED  BY <1>1, Inductive, PTL

\* Lisp code that allows collections and is in no pseudo-atomic section runs
\* with none put off, its own or another thread's.
THEOREM CollectionsAreMadeUpFor == Spec => []NoCollectionForgotten
<1>1. IInv => NoCollectionForgotten
  BY DEF IInv, NowRight, Alive, CollectionRight, DataRight, Stopping, InPA,
         NoCollectionForgotten, Free
<1> QED  BY <1>1, Inductive, PTL

\* Lisp code that allows interrupts and is in no pseudo-atomic section runs with
\* no signal put off.
THEOREM SignalsAreMadeUpFor == Spec => []NoSignalForgotten
<1>1. IInv => NoSignalForgotten
  BY DEF IInv, NowRight, Alive, SignalRight, DataRight, InPA, NoSignalForgotten, Free
<1> QED  BY <1>1, Inductive, PTL

\* Wherever Lisp code runs, deferrable signals are blocked exactly while one is
\* stored, a collection is put off, or a handler has not enabled them, and stop
\* signals are not blocked.
THEOREM MaskIsAlwaysRight == Spec => []MaskIsRight
<1>1. IInv => MaskIsRight
  <2> SUFFICES ASSUME IInv, pc = "run"
               PROVE  mask = IF data.handler \/ data.gbd \/ dyn.unb THEN {"def"} ELSE {}
    BY DEF MaskIsRight
  <2>1. PlaceRight /\ MaskFits
    BY DEF IInv, NowRight, Alive
  <2>2. ~InMaybeGC(F1, F2)
    BY <2>1 DEF PlaceRight, At, InLisp, InMaybeGC, OfGC
  <2> QED  BY <2>1, <2>2 DEF MaskFits, MaskIf
<1> QED  BY <1>1, Inductive, PTL
=====
