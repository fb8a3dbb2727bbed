-------------------------------- MODULE Deferral --------------------------------
(* How one Lisp thread defers what it must not do now (src/src/runtime):       *)
(* interrupt.c defers deferrable signals, stop-the-world.c the stop signal of  *)
(* another thread's collection, gengc.inc the thread's own, and                *)
(* interrupt_handle_pending makes up for all three.  Threads, x86-64, gencgc,  *)
(* no safepoints.                                                              *)
(*                                                                             *)
(* Handlers run with the signals of their sa_mask blocked: what the C code     *)
(* does until it unblocks one is a single step.                                *)
EXTENDS Integers, Sequences

CONSTANT MaxDepth     \* the control stack: regions, handlers and C frames

ASSUME DeferralAssumption == MaxDepth \in Nat

VARIABLES
  pc,
  stack,    \* what the thread is inside of, innermost first: see Frames
  dyn,      \* the variables that code binds: see Bindings
  gc,       \* [pending, stop]: *GC-PENDING*, *STOP-FOR-GC-PENDING*
  ip,       \* *INTERRUPT-PENDING*
  pa, pai,  \* in a pseudo-atomic section; interrupted during it
  data,     \* struct interrupt_data: see DataOf
  mask,     \* the thread's signal mask
  sigs,     \* signals that the kernel has yet to deliver
  other     \* another thread's collection

vars == <<pc, stack, dyn, gc, ip, pa, pai, data, mask, sigs, other>>

\* Every deferrable signal behaves as one signal "def"; SIG_STOP_FOR_GC is "gc".
All == {"def", "gc"}

\* *INTERRUPTS-ENABLED*, *ALLOW-WITH-INTERRUPTS*, *GC-INHIBIT*,
\* *IN-WITHOUT-GCING*, *UNBLOCK-DEFERRABLES-ON-ENABLING-INTERRUPTS-P*.
Bindings == [ie : BOOLEAN, awi : BOOLEAN, inhibit : BOOLEAN,
             inwg : BOOLEAN, unb : BOOLEAN]

\* handler: a signal is stored for later.  gbd: gc_blocked_deferrables.
\* mask: pending_mask, the mask to go back to.
DataOf == [handler : BOOLEAN, gbd : BOOLEAN, mask : SUBSET All]

\* Where the thread is: in Lisp code or at the end of a region; at a trap; in
\* the C code; or dead.
Traps  == {"paTrap", "wiTrap", "withTrap", "wgTrap", "gcTrap", "hTrap", "throwTrap"}
Places == {"run", "wgLeave", "wgOpen", "wgCheck", "wgUnbind", "wiCheck",
           "withEnter", "hCheck", "hRet", "throw", "throwCheck", "land",
           "pendRest", "pendEnd", "gcStart", "gcEnter", "gcTry", "gcAfter",
           "gcCheck", "gcRet", "lost", "why", "pai"} \cup Traps

\* "wi", "wg", "with": WITHOUT-INTERRUPTS, WITHOUT-GCING, WITH-INTERRUPTS.
\* "sig": a Lisp signal handler; "pend": interrupt_handle_pending;
\* "gc": SUB-GC; "post": POST-GC.  dyn and mask are those to go back to, ret the
\* place, x the kind's own note.
Frames == [k : {"wi", "wg", "with", "sig", "pend", "gc", "post"}, dyn : Bindings,
           mask : SUBSET All, ret : Places \cup {"maybe_gc"},
           x : {"", "0", "1", "T", "handler", "block"}]

Top       == Head(stack)
Under     == Tail(stack)
Frame(k, m, r, x) == [k |-> k, dyn |-> dyn, mask |-> m, ret |-> r, x |-> x]
Push(f)   == stack' = <<f>> \o stack
Pop       == stack' = Under
TopIs(k)  == stack # <<>> /\ Top.k = k
HasRoom   == Len(stack) < MaxDepth

\* The next place, unless a check of the runtime fails: lose() ends the process.
Goto(place, bad) == pc' = IF bad THEN "lost" ELSE place
\* "why" and "pai" are two checks that can fail: see the properties.
Alive == pc \notin {"lost", "why", "pai"}

Init ==
  /\ pc = "run"
  /\ stack = <<>>
  /\ dyn = [ie |-> TRUE, awi |-> TRUE, inhibit |-> FALSE, inwg |-> FALSE,
            unb |-> FALSE]
  /\ gc = [pending |-> FALSE, stop |-> FALSE]
  /\ ip = FALSE
  /\ pa = FALSE
  /\ pai = FALSE
  /\ data = [handler |-> FALSE, gbd |-> FALSE, mask |-> {}]
  /\ mask = {}
  /\ sigs = {}
  /\ other = "none"

\* Lisp code of the program runs outside of pseudo-atomic sections.
Free == pc = "run" /\ ~pa

------------------------------------------------------------------------------
(* Pseudo-atomic sections and allocation.                                      *)

\* The entry stores both bits at once.
EnterPA ==
  /\ Free
  /\ pa' = TRUE
  /\ pai' = FALSE
  /\ UNCHANGED <<pc, stack, dyn, gc, ip, data, mask, sigs, other>>

\* One instruction clears the section and sees whether it was interrupted;
\* the next one is the trap.
LeavePA ==
  /\ pa
  /\ pc = "run"
  /\ pa' = FALSE
  /\ pc' = IF pai THEN "paTrap" ELSE "run"
  /\ UNCHANGED <<stack, dyn, gc, ip, pai, data, mask, sigs, other>>

\* Variant: the collection is noted, but signals can still arrive before it.
SaveMaskNoBlock(m) ==
  /\ data' = IF data.handler \/ data.gbd THEN data
             ELSE [data EXCEPT !.gbd = TRUE, !.mask = m]
  /\ mask' = m

\* maybe_save_gc_mask_and_block_deferrables: m is the mask to go back to.
SaveMaskAndBlock(m) ==
  IF data.handler \/ data.gbd
  THEN UNCHANGED data /\ mask' = m
  ELSE /\ data' = [data EXCEPT !.gbd = TRUE, !.mask = m]
       /\ mask' = m \cup {"def"}

\* The allocator finds that it is time for a collection: trigger_gc.
TriggerGC ==
  /\ HasRoom
  /\ pa
  /\ pc = "run"
  /\ ~gc.pending
  /\ gc' = [gc EXCEPT !.pending = TRUE]
  /\ IF dyn.inhibit
     THEN UNCHANGED <<pai, data, mask>>
     ELSE pai' = TRUE /\ SaveMaskAndBlock(mask)
  /\ UNCHANGED <<pc, stack, dyn, ip, pa, sigs, other>>

------------------------------------------------------------------------------
(* A deferrable signal arrives.                                                *)

\* In the end of WITHOUT-GCING, where interrupts are already enabled but the
\* collection that was put off has not been run: in_leaving_without_gcing_race_p.
InLeavingRace ==
  /\ dyn.inwg
  /\ dyn.ie
  /\ ~dyn.inhibit
  /\ gc.pending \/ gc.stop

\* store_signal_data_for_later, and the mask of the interrupted context.
StoreForLater ==
  /\ data' = [data EXCEPT !.handler = TRUE, !.mask = mask]
  /\ mask' = mask \cup {"def"}

\* check_interrupt_context_or_lose, after the decision; ctx is the mask of the
\* interrupted context.  "GC_PENDING, but why?" is apart from the other checks.
WhyPending == /\ gc.pending \/ gc.stop
              /\ ~(pai' \/ dyn.inhibit \/ InLeavingRace)
BadContext(ctx) ==
  \/ data'.handler /\ ~(~dyn.ie \/ pai' \/ InLeavingRace)
  \/ pai' /\ ~(gc.pending \/ gc.stop \/ data'.handler)
  \/ ip' /\ (~data'.handler \/ data'.gbd)
  \/ IF ip' \/ data'.handler \/ data'.gbd
     THEN "def" \notin ctx
     ELSE ctx # {}

CheckContext(bad, ctx, place) ==
  pc' = IF bad \/ BadContext(ctx) THEN "lost" ELSE IF WhyPending THEN "why" ELSE place

MustWait == ~dyn.ie \/ InLeavingRace

\* interrupt_handle_now calls the Lisp handler, which starts in
\* INVOKE-INTERRUPTION: interrupts are off, but may be turned on again.
RunHandler(under, m, r) ==
  /\ stack' = <<Frame("sig", m, r, "")>> \o under
  /\ mask' = {"def"}
  /\ dyn' = [dyn EXCEPT !.ie = FALSE, !.unb = TRUE]

\* can_handle_now and maybe_now_maybe_later.
DeferrableSignal ==
  LET bad == ip \/ data.handler \/ data.gbd IN
  /\ Alive
  /\ HasRoom
  /\ "def" \in sigs \ mask
  /\ sigs' = sigs \ {"def"}
  /\ \/ /\ MustWait
        /\ StoreForLater
        /\ ip' = TRUE
        /\ UNCHANGED <<stack, dyn, pai>>
        /\ CheckContext(bad, mask \cup {"def"}, pc)
     \/ /\ ~MustWait /\ pa
        /\ StoreForLater
        /\ pai' = TRUE
        /\ UNCHANGED <<stack, dyn, ip>>
        /\ CheckContext(bad, mask \cup {"def"}, pc)
     \/ /\ ~MustWait /\ ~pa
        /\ RunHandler(stack, mask, pc)
        /\ UNCHANGED <<ip, pai, data>>
        /\ CheckContext(bad, mask, "run")
  /\ UNCHANGED <<gc, pa, other>>

------------------------------------------------------------------------------
(* The stop signal of another thread's collection arrives.                     *)

\* sig_stop_for_gc_handler stops the thread, which goes on with mask m when the
\* collection is over.  Pending collections are satisfied.
StopHere(m) ==
  /\ gc' = [pending |-> FALSE, stop |-> FALSE]
  /\ IF data.gbd
     THEN /\ pai' = FALSE
          /\ mask' = data.mask
          /\ data' = [data EXCEPT !.gbd = FALSE]
     ELSE /\ mask' = m
          /\ UNCHANGED <<pai, data>>

\* Variant: with collections inhibited the signal is dropped.
StopSignalDropped ==
  /\ Alive
  /\ "gc" \in sigs \ mask
  /\ sigs' = sigs \ {"gc"}
  /\ \/ /\ dyn.inhibit
        /\ UNCHANGED <<gc, pai, data, mask, other>>
     \/ /\ ~dyn.inhibit /\ pa
        /\ gc' = [gc EXCEPT !.stop = TRUE]
        /\ pai' = TRUE
        /\ SaveMaskAndBlock(mask)
        /\ UNCHANGED other
     \/ /\ ~dyn.inhibit /\ ~pa
        /\ StopHere(mask)
        /\ other' = "none"
  /\ UNCHANGED <<pc, stack, dyn, ip, pa>>

StopSignal ==
  /\ Alive
  /\ "gc" \in sigs \ mask
  /\ sigs' = sigs \ {"gc"}
  /\ \/ /\ dyn.inhibit
        /\ gc' = [gc EXCEPT !.stop = TRUE]
        /\ UNCHANGED <<pai, data, mask, other>>
     \/ /\ ~dyn.inhibit /\ pa
        /\ gc' = [gc EXCEPT !.stop = TRUE]
        /\ pai' = TRUE
        /\ SaveMaskAndBlock(mask)
        /\ UNCHANGED other
     \/ /\ ~dyn.inhibit /\ ~pa
        /\ StopHere(mask)
        /\ other' = "none"
  /\ UNCHANGED <<pc, stack, dyn, ip, pa>>

------------------------------------------------------------------------------
(* Making up for what was deferred: interrupt_handle_pending.                  *)

\* Where the thread goes on after a trap.
AfterTrap == [paTrap |-> "run", wiTrap |-> "run", withTrap |-> "run",
              wgTrap |-> "wgUnbind", gcTrap |-> "gcRet", hTrap |-> "hRet",
              throwTrap |-> "land"]

\* m is the mask to go back to.
PendFrame(m) == Frame("pend", m, AfterTrap[pc],
                      IF data.handler THEN "handler" ELSE "")

\* Call maybe_gc; interrupts are off if a handler is pending.  m is the mask of
\* the context.
TrapGC(m) ==
  LET bound == IF data.handler THEN [dyn EXCEPT !.ie = FALSE, !.awi = FALSE]
               ELSE dyn IN
  /\ stack' = <<[Frame("gc", {}, "maybe_gc", "0") EXCEPT !.dyn = bound],
                PendFrame(m)>> \o stack
  /\ dyn' = bound
  /\ pai' = FALSE
  /\ mask' = {"def"}

TrapOnly(m, bad) ==
  /\ Push(PendFrame(m))
  /\ mask' = All
  /\ Goto("pendRest", bad)
  /\ UNCHANGED dyn

\* interrupt_handle_pending up to the collection, which comes first.
Trap ==
  LET m   == IF data.gbd THEN data.mask ELSE mask
      bad == \/ data.gbd /\ (data.handler \/ dyn.inhibit)
             \/ ~dyn.inhibit /\ "gc" \in m IN
  /\ pc \in DOMAIN AfterTrap
  /\ data' = [data EXCEPT !.gbd = FALSE]
  /\ \/ /\ ~dyn.inhibit /\ ~gc.stop /\ gc.pending
        /\ TrapGC(m)
        /\ Goto("gcStart", bad)
        /\ UNCHANGED <<gc, other>>
     \/ /\ ~dyn.inhibit /\ gc.stop
        /\ gc' = [pending |-> FALSE, stop |-> FALSE]
        /\ other' = "none"
        /\ pai' = FALSE
        /\ TrapOnly(m, bad)
     \/ /\ dyn.inhibit \/ (~gc.stop /\ ~gc.pending)
        /\ TrapOnly(m, bad)
        /\ UNCHANGED <<pai, gc, other>>
  /\ UNCHANGED <<ip, pa, sigs>>

\* After the collection: no collection may be left, and the deferred signal is
\* handled if interrupts are enabled.
PendRest ==
  LET bad == /\ ~dyn.inhibit
             /\ \/ gc.pending \/ gc.stop
                \/ data.handler # (Top.x = "handler") IN
  /\ pc = "pendRest"
  /\ \/ /\ dyn.ie /\ data.handler
        /\ ip' = FALSE
        /\ pai' = FALSE
        /\ data' = [data EXCEPT !.handler = FALSE]
        /\ RunHandler(<<[Top EXCEPT !.mask = data.mask]>> \o Under, All, "pendEnd")
        /\ Goto("run", bad)
     \/ /\ ~(dyn.ie /\ data.handler)
        /\ Goto("pendEnd", bad)
        /\ UNCHANGED <<stack, dyn, ip, pai, data, mask>>
  /\ UNCHANGED <<gc, pa, sigs, other>>

PendEnd ==
  /\ pc = "pendEnd"
  /\ pc' = IF pai THEN "pai" ELSE Top.ret
  /\ mask' = Top.mask
  /\ Pop
  /\ UNCHANGED <<dyn, gc, ip, pa, pai, data, sigs, other>>

------------------------------------------------------------------------------
(* SUB-GC and maybe_gc.                                                        *)

\* GC called by the program; gen is 0 or higher.  A call with collections
\* inhibited only notes it.
CallGC ==
  /\ Free
  /\ HasRoom
  /\ \/ /\ dyn.inhibit
        /\ gc' = [gc EXCEPT !.pending = TRUE]
        /\ UNCHANGED <<pc, stack>>
     \/ /\ ~dyn.inhibit
        /\ \E gen \in {"0", "1"} : Push(Frame("gc", {}, "run", gen))
        /\ pc' = "gcStart"
        /\ UNCHANGED gc
  /\ UNCHANGED <<dyn, ip, pa, pai, data, mask, sigs, other>>

\* WITHOUT-INTERRUPTS and WITHOUT-GCING around the collection.
GCStart ==
  /\ pc = "gcStart"
  /\ dyn' = [dyn EXCEPT !.ie = FALSE, !.awi = FALSE]
  /\ pc' = "gcEnter"
  /\ UNCHANGED <<stack, gc, ip, pa, pai, data, mask, sigs, other>>

GCEnter ==
  /\ pc = "gcEnter"
  /\ Push(Frame("wg", {}, "gcAfter", ""))
  /\ dyn' = [dyn EXCEPT !.inhibit = TRUE, !.inwg = TRUE]
  /\ pc' = "gcTry"
  /\ UNCHANGED <<gc, ip, pa, pai, data, mask, sigs, other>>

\* With the lock of the collector the world is stopped, the heap collected and
\* the world started; otherwise this thread will be stopped soon.
GCTry ==
  /\ pc = "gcTry"
  /\ gc' = [gc EXCEPT !.pending = FALSE]
  /\ \/ /\ other = "none"
        /\ stack' = <<Top, [Head(Under) EXCEPT !.x = "T"]>> \o Tail(Under)
        /\ Goto("wgLeave", gc.stop)
     \/ /\ other # "none"
        /\ pc' = "wgLeave"
        /\ UNCHANGED stack
  /\ UNCHANGED <<dyn, ip, pa, pai, data, mask, sigs, other>>

\* A collection of generation 0 that another thread got ahead of is over;
\* any other one tries again.
GCAfter ==
  /\ pc = "gcAfter"
  /\ IF Top.x = "1"
     THEN pc' = "gcEnter" /\ UNCHANGED dyn
     ELSE pc' = "gcCheck" /\ dyn' = Top.dyn
  /\ UNCHANGED <<stack, gc, ip, pa, pai, data, mask, sigs, other>>

\* The end of SUB-GC's WITHOUT-INTERRUPTS.
GCCheck ==
  /\ pc = "gcCheck"
  /\ pc' = IF dyn.ie /\ ip THEN "gcTrap" ELSE "gcRet"
  /\ UNCHANGED <<stack, dyn, gc, ip, pa, pai, data, mask, sigs, other>>

\* maybe_gc runs POST-GC in the interrupted context's mask if this thread did
\* the collection and interrupts are or may be enabled.
GCReturn ==
  LET pend == Head(Under) IN
  /\ pc = "gcRet"
  /\ \/ /\ Top.ret = "run"
        /\ Pop
        /\ pc' = "run"
        /\ UNCHANGED <<dyn, mask>>
     \/ /\ Top.ret # "run"
        /\ Top.x = "T" /\ (dyn.ie \/ dyn.awi) /\ "def" \notin pend.mask
        /\ stack' = <<Frame("post", {}, "pendRest", "")>> \o Under
        /\ mask' = pend.mask
        /\ Goto("run", "gc" \in pend.mask)
        /\ UNCHANGED dyn
     \/ /\ Top.ret # "run"
        /\ ~(Top.x = "T" /\ (dyn.ie \/ dyn.awi) /\ "def" \notin pend.mask)
        /\ Pop
        /\ dyn' = pend.dyn
        /\ mask' = All
        /\ pc' = "pendRest"
  /\ UNCHANGED <<gc, ip, pa, pai, data, sigs, other>>

PostGCReturn ==
  /\ Free
  /\ TopIs("post")
  /\ Pop
  /\ mask' = All
  /\ pc' = "pendRest"
  /\ UNCHANGED <<dyn, gc, ip, pa, pai, data, sigs, other>>

------------------------------------------------------------------------------
(* WITHOUT-GCING, WITHOUT-INTERRUPTS and WITH-INTERRUPTS in Lisp code.  Each   *)
(* ends as it does here whether its body returns or unwinds.                   *)

OpenWithoutGcing ==
  /\ Free
  /\ HasRoom
  /\ ~dyn.inhibit
  /\ Push(Frame("wg", {}, "run", ""))
  /\ dyn' = [dyn EXCEPT !.inwg = TRUE, !.ie = FALSE, !.awi = FALSE,
                        !.inhibit = TRUE]
  /\ UNCHANGED <<pc, gc, ip, pa, pai, data, mask, sigs, other>>

\* Collections are possible again before interrupts are ...
LeaveWithoutGcing ==
  /\ pc = "wgLeave" \/ (Free /\ TopIs("wg"))
  /\ dyn' = [dyn EXCEPT !.inhibit = FALSE]
  /\ pc' = "wgOpen"
  /\ UNCHANGED <<stack, gc, ip, pa, pai, data, mask, sigs, other>>

UnbindInterrupts ==
  /\ pc = "wgOpen"
  /\ dyn' = [Top.dyn EXCEPT !.inwg = TRUE]
  /\ pc' = "wgCheck"
  /\ UNCHANGED <<stack, gc, ip, pa, pai, data, mask, sigs, other>>

\* Variant: the stop signal is not made up for.
CheckAfterGcingNoStop ==
  /\ pc = "wgCheck"
  /\ pc' = IF ip \/ gc.pending THEN "wgTrap" ELSE "wgUnbind"
  /\ UNCHANGED <<stack, dyn, gc, ip, pa, pai, data, mask, sigs, other>>

\* Variant: only a collection is made up for.
CheckAfterGcingNoSignal ==
  /\ pc = "wgCheck"
  /\ pc' = IF gc.pending \/ gc.stop THEN "wgTrap" ELSE "wgUnbind"
  /\ UNCHANGED <<stack, dyn, gc, ip, pa, pai, data, mask, sigs, other>>

\* ... and *IN-WITHOUT-GCING* is still bound when it sees what was put off.
CheckAfterGcing ==
  /\ pc = "wgCheck"
  /\ pc' = IF ip \/ gc.pending \/ gc.stop THEN "wgTrap" ELSE "wgUnbind"
  /\ UNCHANGED <<stack, dyn, gc, ip, pa, pai, data, mask, sigs, other>>

\* Variant: the binding is undone but its frame is left.
UnbindNoPop ==
  /\ pc = "wgUnbind"
  /\ dyn' = Top.dyn
  /\ pc' = Top.ret
  /\ UNCHANGED stack
  /\ UNCHANGED <<gc, ip, pa, pai, data, mask, sigs, other>>

UnbindInWithoutGcing ==
  /\ pc = "wgUnbind"
  /\ dyn' = Top.dyn
  /\ pc' = Top.ret
  /\ Pop
  /\ UNCHANGED <<gc, ip, pa, pai, data, mask, sigs, other>>

OpenWithoutInterrupts ==
  /\ Free
  /\ HasRoom
  /\ Push(Frame("wi", {}, "run", ""))
  /\ dyn' = [dyn EXCEPT !.ie = FALSE, !.awi = FALSE]
  /\ UNCHANGED <<pc, gc, ip, pa, pai, data, mask, sigs, other>>

LeaveWithoutInterrupts ==
  /\ Free
  /\ TopIs("wi")
  /\ dyn' = Top.dyn
  /\ pc' = IF Top.dyn.ie THEN "wiCheck" ELSE "run"
  /\ Pop
  /\ UNCHANGED <<gc, ip, pa, pai, data, mask, sigs, other>>

CheckAfterInterrupts ==
  /\ pc = "wiCheck"
  /\ pc' = IF ip THEN "wiTrap" ELSE "run"
  /\ UNCHANGED <<stack, dyn, gc, ip, pa, pai, data, mask, sigs, other>>

\* WITH-INTERRUPTS, or WITH-LOCAL-INTERRUPTS directly inside WITHOUT-INTERRUPTS.
OpenWithInterrupts ==
  /\ Free
  /\ HasRoom
  /\ \E local \in {FALSE} \cup {TopIs("wi")} :
       LET allow == IF local THEN Top.dyn.awi ELSE dyn.awi
           on    == IF local THEN allow ELSE dyn.ie \/ allow IN
       /\ dyn' = [dyn EXCEPT !.ie = on, !.awi = allow]
       /\ pc' = IF allow /\ ~dyn.ie THEN "withEnter" ELSE "run"
  /\ Push(Frame("with", {}, "run", ""))
  /\ UNCHANGED <<gc, ip, pa, pai, data, mask, sigs, other>>

\* with-deferrable-signals-unblocked: in a handler the signals are unblocked.
EnterWithInterrupts ==
  /\ pc = "withEnter"
  /\ Goto(IF ip THEN "withTrap" ELSE "run",
          dyn.unb /\ (data.handler \/ "gc" \in mask))
  /\ IF dyn.unb
     THEN /\ mask' = mask \ {"def"}
          /\ dyn' = [dyn EXCEPT !.unb = FALSE]
          /\ stack' = <<[Top EXCEPT !.x = "block"]>> \o Under
     ELSE UNCHANGED <<stack, dyn, mask>>
  /\ UNCHANGED <<gc, ip, pa, pai, data, sigs, other>>

LeaveWithInterrupts ==
  /\ Free
  /\ TopIs("with")
  /\ dyn' = Top.dyn
  /\ mask' = IF Top.x = "block" THEN mask \cup {"def"} ELSE mask
  /\ Pop
  /\ UNCHANGED <<pc, gc, ip, pa, pai, data, sigs, other>>

------------------------------------------------------------------------------
(* A Lisp handler ends: INVOKE-INTERRUPTION.                                   *)

HandlerReturn ==
  /\ Free
  /\ TopIs("sig")
  /\ dyn' = Top.dyn
  /\ pc' = "hCheck"
  /\ UNCHANGED <<stack, gc, ip, pa, pai, data, mask, sigs, other>>

CheckAfterHandler ==
  /\ pc = "hCheck"
  /\ pc' = IF ip THEN "hTrap" ELSE "hRet"
  /\ UNCHANGED <<stack, dyn, gc, ip, pa, pai, data, mask, sigs, other>>

SigReturn ==
  /\ pc = "hRet"
  /\ mask' = Top.mask
  /\ pc' = Top.ret
  /\ Pop
  /\ UNCHANGED <<dyn, gc, ip, pa, pai, data, sigs, other>>

\* Variant: the handler unwinds with the signals blocked.
ThrowStillBlocked ==
  /\ Free
  /\ TopIs("sig")
  /\ pc' = "throw"
  /\ UNCHANGED <<stack, dyn, gc, ip, pa, pai, data, mask, sigs, other>>

\* The handler unwinds: no sigreturn will restore the mask.
Throw ==
  /\ Free
  /\ TopIs("sig")
  /\ mask' = IF dyn.unb THEN {} ELSE mask
  /\ pc' = "throw"
  /\ UNCHANGED <<stack, dyn, gc, ip, pa, pai, data, sigs, other>>

UnbindThrow ==
  /\ pc = "throw"
  /\ dyn' = Top.dyn
  /\ pc' = "throwCheck"
  /\ UNCHANGED <<stack, gc, ip, pa, pai, data, mask, sigs, other>>

CheckInThrow ==
  /\ pc = "throwCheck"
  /\ pc' = IF ip THEN "throwTrap" ELSE "land"
  /\ UNCHANGED <<stack, dyn, gc, ip, pa, pai, data, mask, sigs, other>>

\* The unwinding goes on past the C frames and the cleanups that the handler
\* interrupted, to the innermost Lisp code that can catch it.
CanCatch(n) ==
  /\ stack[n].ret \in {"run", "paTrap", "wiCheck", "wiTrap", "withEnter", "withTrap"}
  /\ n < Len(stack) => stack[n + 1].k # "post"

Land ==
  /\ pc = "land"
  /\ \E n \in 1..Len(stack) :
       /\ CanCatch(n)
       /\ \A i \in 1..(n - 1) : ~CanCatch(i)
       /\ dyn' = stack[n].dyn
       /\ stack' = SubSeq(stack, n + 1, Len(stack))
  /\ pc' = "run"
  /\ UNCHANGED <<gc, ip, pa, pai, data, mask, sigs, other>>

------------------------------------------------------------------------------
(* The rest of the process.                                                    *)

SendSignal ==
  /\ sigs' = sigs \cup {"def"}
  /\ UNCHANGED <<pc, stack, dyn, gc, ip, pa, pai, data, mask, other>>

\* Another thread takes the collector's lock, then signals this one and waits.
OtherGC ==
  /\ \/ /\ other = "none"
        /\ other' = "locked"
        /\ UNCHANGED sigs
     \/ /\ other = "locked"
        /\ other' = "signalled"
        /\ sigs' = sigs \cup {"gc"}
  /\ UNCHANGED <<pc, stack, dyn, gc, ip, pa, pai, data, mask>>

Open  == OpenWithoutGcing \/ OpenWithoutInterrupts \/ OpenWithInterrupts
Leave == \/ LeaveWithoutGcing \/ LeaveWithoutInterrupts \/ LeaveWithInterrupts
         \/ HandlerReturn \/ Throw \/ PostGCReturn
\* The steps of the runtime and of the regions' ends, and of traps.
Runtime == \/ UnbindInterrupts \/ CheckAfterGcing \/ UnbindInWithoutGcing
           \/ CheckAfterInterrupts \/ EnterWithInterrupts
           \/ CheckAfterHandler \/ SigReturn
           \/ UnbindThrow \/ CheckInThrow \/ Land
           \/ Trap \/ PendRest \/ PendEnd
           \/ GCStart \/ GCEnter \/ GCTry \/ GCAfter \/ GCCheck \/ GCReturn

Next == \/ EnterPA \/ LeavePA \/ TriggerGC \/ CallGC
        \/ Open \/ Leave \/ Runtime
        \/ DeferrableSignal \/ StopSignal
        \/ SendSignal \/ OtherGC

Spec == Init /\ [][Next]_vars

\* The thread runs, the kernel delivers what is not blocked, and the other
\* thread goes on to signal this one.
Fairness == /\ WF_vars(Runtime) /\ WF_vars(LeavePA)
            /\ SF_vars(StopSignal) /\ SF_vars(DeferrableSignal)
            /\ WF_vars(OtherGC)

LiveSpec == Spec /\ Fairness

------------------------------------------------------------------------------
(* Properties.                                                                 *)

\* Everything has its type, and past the frames that the program or a signal
\* adds come only so many of the runtime: none is left behind.
TypeOK ==
  /\ pc \in Places
  /\ stack \in Seq(Frames)
  /\ Len(stack) <= MaxDepth + 3
  /\ dyn \in Bindings
  /\ gc \in [pending : BOOLEAN, stop : BOOLEAN]
  /\ {ip, pa, pai} \subseteq BOOLEAN
  /\ data \in DataOf
  /\ mask \subseteq All
  /\ sigs \subseteq All
  /\ other \in {"none", "locked", "signalled"}

\* WITHOUT-GCING ends without a race (its comment says): no signal finds a
\* collection pending that nothing explains.
PendingIsExplained == pc # "why"

\* The stop handler tidies up after a collection that it satisfies (its comment
\* says): no trap ends with the thread marked as interrupted.
TrapClearsInterrupted == pc # "pai"

\* No other check of the runtime fails, whatever arrives when: the runtime's
\* lose() calls in can_handle_now, interrupt_handle_pending, unblocking and
\* SUB-GC are never reached.
NoOtherLoss == pc # "lost"

\* Lisp code that can be stopped does not run on with a collection put off.
NoCollectionForgotten == Free /\ ~dyn.inhibit => ~gc.pending /\ ~gc.stop

\* Nor with a signal put off, once interrupts are enabled.
NoSignalForgotten == Free /\ dyn.ie => ~data.handler /\ ~ip

\* Lisp code runs with deferrable signals blocked only while one is stored, a
\* collection is put off, or in a handler that has not enabled them; and with
\* stop signals never blocked.
MaskIsRight ==
  pc = "run" => mask = IF data.handler \/ data.gbd \/ dyn.unb THEN {"def"} ELSE {}

AtTop == Free /\ stack = <<>>

\* A thread that leaves its regions and handlers again and again stops for every
\* collection of another thread.
StopsForGC == []<>AtTop => []<>(other # "signalled")
==============================================================================
