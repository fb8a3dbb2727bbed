-------------------------------- MODULE Gencgc --------------------------------
(* The generational copying collector (src/src/runtime/gencgc.c) with its      *)
(* conservative roots, soft card marks and weak pointers, on x86-64.           *)
(*                                                                             *)
(* A page is one card and holds Cap objects of one unit and one reference.     *)
(* The world is stopped while it runs (StopTheWorld), so that a mutator only   *)
(* sees a collection as one step, between any two of its instructions.         *)
EXTENDS Integers, Sequences, FiniteSets

CONSTANTS
  NPages, Cap,   \* page_table_pages, and the objects that fit on a page
  Ids, NoId,     \* identities of objects, for the abstract heap only
  Roots,         \* cells that are scavenged (static space, thread-local values)
  Registers,     \* the program's registers, which pin what they point to
  MaxJunk,       \* bound: words on the stack that only look like pointers
  Oldest,        \* HIGHEST_NORMAL_GENERATION
  NumNewAreas,   \* NUM_NEW_AREAS
  Kinds,         \* what the program allocates: see New
  Requests       \* the generations that it asks to collect

ASSUME GencgcAssumption ==
  /\ NPages \in Nat /\ Cap \in Nat \ {0} /\ Oldest \in Nat
  /\ NumNewAreas \in Nat \ {0}
  /\ IsFiniteSet(Roots)
  /\ NoId \notin Ids
  /\ Roots \cap Registers = {}
  /\ Kinds \subseteq {"cons", "mixed", "weak", "large"}
  /\ MaxJunk \in Nat /\ Requests \subseteq 0..(Oldest + 1)

NotCollecting == [gen |-> 0, last |-> 0, more |-> FALSE]

VARIABLES
  heap,     \* the page table, the pages and the collector's globals: see Heap
  reg,      \* register -> address
  storing,  \* a store whose card is marked and whose word is not yet written
  pc,
  gc        \* the locals of collect_garbage

vars == <<heap, reg, storing, pc, gc>>

------------------------------------------------------------------------------
(* Pages and words.                                                            *)

Pages == 1..NPages
Nil   == 0
Addrs == 1..(NPages * Cap)

Addr(p, i) == (p - 1) * Cap + i
Page(a)    == ((a - 1) \div Cap) + 1
Slot(a)    == ((a - 1) % Cap) + 1

Scratch     == Oldest + 1
Generations == 0..Scratch

Object(i, weak, r) == [tag |-> "object", id |-> i, weak |-> weak, ref |-> r]
Forward(a)         == [tag |-> "forward", to |-> a]
Filler             == [tag |-> "filler"]

Cells == [tag : {"object"}, id : Ids, weak : BOOLEAN, ref : Addrs \cup {Nil}]
         \cup [tag : {"forward"}, to : Addrs] \cup {Filler}

Marks     == {"marked", "clear", "sticky"}
PageTypes == {"free", "cons", "mixed", "large"}

\* A page that holds nothing; the generation that it keeps decides nothing.
\* "fill" counts what was written to the page, in an open region too.
FreePage == [type |-> "free", gen |-> 0, mark |-> "marked", fill |-> 0]

Closed == [page |-> 0, start |-> 0]

Init ==
  /\ heap = [page   |-> [p \in Pages |-> FreePage],
             word   |-> [a \in Addrs |-> Filler],
             bytes  |-> [g \in Generations |-> 0],
             from   |-> -1,                \* from_space and new_space
             new    |-> 0,
             region |-> [t \in {"cons", "mixed"} |-> Closed],
             areas  |-> <<>>,              \* new_areas
             below  |-> 0,                 \* record_new_regions_below
             pinned |-> {},                \* pinned_objects
             chain  |-> {},                \* weak_pointer_chain
             root   |-> [r \in Roots |-> Nil],
             lost   |-> FALSE,             \* an assertion failed
             full   |-> FALSE]             \* the heap is exhausted
  /\ reg = [x \in Registers |-> Nil]
  /\ storing = <<>>
  /\ pc = "run"
  /\ gc = NotCollecting

At(h, a) == h.word[a]

Put(h, a, w) == [h EXCEPT !.word[a] = w]

SetRef(h, a, r) == [h EXCEPT !.word[a].ref = r]

Open(h, p) == \E t \in {"cons", "mixed"} : h.region[t].page = p

\* page_words_used, which does not count what an open region holds.
Used(h, p) == IF Open(h, p)
              THEN (CHOOSE r \in {h.region[t] : t \in {"cons", "mixed"}} : r.page = p).start
              ELSE h.page[p].fill

\* "a" is below the used part of its page, and so the address of a word.
InUse(h, a) == /\ a # Nil
               /\ h.page[Page(a)].type # "free"
               /\ Slot(a) <= Used(h, Page(a))

Lose(h) == [h EXCEPT !.lost = TRUE]
Check(h, assertion) == IF assertion THEN h ELSE Lose(h)

\* "n" units of space change their generation.
Account(h, from, to, n) == [h EXCEPT !.bytes[from] = @ - n, !.bytes[to] = @ + n]

\* FoldLeft of SequencesExt as a recursive function, which TLC evaluates faster.
Fold(op(_, _), base, s) ==
  LET f[n \in 0..Len(s)] == IF n = 0 THEN base ELSE op(f[n - 1], s[n]) IN f[Len(s)]

EachPage(op(_, _), h) == Fold(op, h, [p \in Pages |-> p])
AddrSeq == [a \in Addrs |-> a]
EachAddr(op(_, _), h) == Fold(op, h, AddrSeq)

SetMarks(h, P, mark) ==
  [h EXCEPT !.page = [p \in Pages |-> IF p \in P THEN [@[p] EXCEPT !.mark = mark] ELSE @[p]]]

\* The cells of these pages.
CellsIn(h, P) == {a \in Addrs : Page(a) \in P /\ Slot(a) <= h.page[Page(a)].fill}

\* Pages go from one space to another, and the space that they use with them.
SetGens(h, P, gen) ==
  [h EXCEPT !.page = [p \in Pages |-> IF p \in P THEN [@[p] EXCEPT !.gen = gen] ELSE @[p]]]

MovePages(h, P) ==
  Account(SetGens(h, P, h.new), h.from, h.new, Cardinality(CellsIn(h, P)))

------------------------------------------------------------------------------
(* Allocation.                                                                 *)

\* page_extensible_p.
Extensible(h, p, type, g) ==
  /\ h.page[p].type = type
  /\ h.page[p].gen = g
  /\ ~Open(h, p)
  /\ h.page[p].mark = "marked"

Fits(h, type, g) ==
  {p \in Pages : \/ h.page[p].type = "free"
                 \/ Extensible(h, p, type, g) /\ h.page[p].fill < Cap}

\* find_single_page, without the hint where to start.
FindPage(h, type, g) == CHOOSE p \in Fits(h, type, g) : \A q \in Fits(h, type, g) : p <= q

\* Variant: what is copied is not recorded.
AddAreaNot(h, a, n) == h

\* add_new_area: an area that goes on where one of the last 8 ends extends it.
AddArea(h, a, n) ==
  LET follows == {i \in DOMAIN h.areas :
                    /\ i > Len(h.areas) - 8
                    /\ h.areas[i].start + h.areas[i].size = a}
      last == CHOOSE j \in follows : \A k \in follows : k <= j
  IN  IF Page(a) >= h.below \/ Len(h.areas) >= NumNewAreas THEN h
      ELSE IF follows # {} THEN [h EXCEPT !.areas[last].size = @ + n]
      ELSE [h EXCEPT !.areas = Append(@, [start |-> a, size |-> n])]

\* gc_close_region, for a region in which something was allocated.
CloseRegion(h, type) ==
  LET r == h.region[type]
      n == h.page[r.page].fill - r.start
      closed == [h EXCEPT !.region[type] = Closed, !.bytes[h.new] = @ + n]
  IN  IF r.page = 0 THEN h ELSE AddArea(closed, Addr(r.page, r.start + 1), n)

CloseRegions(h) == CloseRegion(CloseRegion(h, "cons"), "mixed")

\* gc_alloc_new_region.
OpenRegion(h, type) ==
  LET p == FindPage(h, type, h.new)
  IN  IF Fits(h, type, h.new) = {} THEN [h EXCEPT !.full = TRUE]
      ELSE [h EXCEPT !.region[type] = [page |-> p, start |-> h.page[p].fill],
                     !.page[p].type = type, !.page[p].gen = h.new]

\* An object goes where the page has been filled to.
Place(h, p, w) ==
  [Put(h, Addr(p, h.page[p].fill + 1), w) EXCEPT !.page[p].fill = @ + 1]

\* gc_general_alloc: the object is written where the result's "to" says.
Allocate(h, type, w) ==
  LET r    == h.region[type]
      room == r.page # 0 /\ h.page[r.page].fill < Cap
      place(g, p) == IF g.full THEN [heap |-> g, to |-> Nil]
                     ELSE [heap |-> Place(g, p, w), to |-> Addr(p, g.page[p].fill + 1)]
      into(g) == place(g, g.region[type].page)
  IN  into(IF room THEN h ELSE OpenRegion(CloseRegion(h, type), type))

------------------------------------------------------------------------------
(* Scavenging.  Each operator returns the heap, or the heap and the address    *)
(* "to" that replaces the reference it was given.                              *)

Forwarded(h, a) == At(h, a).tag = "forward"

\* from_space_p.
InFromSpace(h, a) == h.page[Page(a)].gen = h.from /\ a \notin h.pinned

\* gc_copy_object, and the forwarding pointer that it leaves.
Copy(h, a) ==
  LET leave(c) == IF c.heap.full THEN c
                  ELSE [heap |-> Put(c.heap, a, Forward(c.to)), to |-> c.to]
  IN  leave(Allocate(h, h.page[Page(a)].type, At(h, a)))

\* trans_list copies the list of which "a" is the first cons.
CopyList(h, a) ==
  LET link(l, c) ==
        IF c.heap.full THEN [heap |-> c.heap, last |-> l.last, done |-> TRUE]
        ELSE [heap |-> SetRef(c.heap, l.last, c.to), last |-> c.to, done |-> FALSE]
      next(l, n) ==
        LET cdr == At(l.heap, l.last).ref
        IN  IF \/ l.done \/ cdr = Nil
               \/ l.heap.page[Page(cdr)].type # "cons"
               \/ ~InFromSpace(l.heap, cdr)
            THEN [l EXCEPT !.done = TRUE]
            ELSE IF Forwarded(l.heap, cdr)
            THEN [l EXCEPT !.done = TRUE, !.heap = SetRef(@, l.last, At(@, cdr).to)]
            ELSE link(l, Copy(l.heap, cdr))
      rest(first) ==
        IF first.heap.full THEN first
        ELSE [heap |-> Fold(next, [heap |-> first.heap, last |-> first.to, done |-> FALSE],
                                AddrSeq).heap,
              to   |-> first.to]
  IN  rest(Copy(h, a))

\* copy_potential_large_object: the page changes its generation.
Promote(h, p) == AddArea(MovePages(h, {p}), Addr(p, 1), h.page[p].fill)

\* scav1.
Scav1(h, a) ==
  IF a = Nil \/ h.full THEN [heap |-> h, to |-> a]
  ELSE IF h.page[Page(a)].gen # h.from THEN [heap |-> h, to |-> a]
  ELSE IF Forwarded(h, a) THEN [heap |-> h, to |-> At(h, a).to]
  ELSE IF a \in h.pinned THEN [heap |-> h, to |-> a]
  ELSE CASE h.page[Page(a)].type = "large" -> [heap |-> Promote(h, Page(a)), to |-> a]
         [] h.page[Page(a)].type = "cons"  -> CopyList(h, a)
         [] h.page[Page(a)].type = "mixed" -> Copy(h, a)

\* scav_weakptr: a pointer whose object may be garbage goes on the chain.
ScavWeak(h, x) ==
  LET r == At(h, x).ref
  IN  IF x \in h.chain \/ r = Nil \/ ~InFromSpace(h, r) THEN h
      ELSE IF Forwarded(h, r) THEN SetRef(h, x, At(h, r).to)
      ELSE [h EXCEPT !.chain = @ \cup {x}]

\* One object of heap_scavenge.
Scavenge(h, x) ==
  LET w         == At(h, x)
      update(s) == IF s.heap.full THEN s.heap ELSE SetRef(s.heap, x, s.to)
  IN  IF h.full \/ w.tag # "object" THEN h
      ELSE IF w.weak THEN ScavWeak(h, x)
      ELSE update(Scav1(h, w.ref))

\* heap_scavenge.
ScavengeRange(h, start, n) == Fold(Scavenge, h, [i \in 1..n |-> start + i - 1])

ScavengePage(h, p) == ScavengeRange(h, Addr(p, 1), Used(h, p))

------------------------------------------------------------------------------
(* Roots.                                                                      *)

\* unprotect_oldspace.
UnprotectOldspace(h) ==
  IF h.from = 0 THEN h
  ELSE SetMarks(h, {p \in Pages : h.page[p].gen = h.from /\ h.page[p].fill # 0}, "marked")

\* impart_mark_stickiness, in the collection of generation 0.
ImpartStickiness(h, words) ==
  SetMarks(h, {p \in {Page(a) : a \in {b \in words : InUse(h, b)}} :
                 h.from = 0 /\ h.page[p].gen # 0 /\ h.page[p].mark = "marked"}, "sticky")

\* conservative_root_p, and what refine_ambiguous_roots leaves.
ConservativeRoots(h, words) ==
  {a \in words : /\ InUse(h, a)
                 /\ h.page[Page(a)].gen = h.from
                 /\ At(h, a).tag = "object"}

Single(h, p) == h.page[p].type = "large"

\* move_pinned_pages_to_newspace: large objects are pinned by their page.
MovePinnedPages(h, pins) == MovePages(h, {Page(a) : a \in {b \in pins : Single(h, Page(b))}})

\* pin_object, for the other objects.
PinObjects(h, pins) == [h EXCEPT !.pinned = {a \in pins : ~Single(h, Page(a))}]

\* conservative_stack_scan.  Besides the registers, the stack has words that may
\* point anywhere.
StackScan(h, regs, junk) ==
  LET sticky == ImpartStickiness(h, regs)
      pins   == ConservativeRoots(sticky, regs \cup junk)
  IN  MovePinnedPages(PinObjects(sticky, pins), pins)

\* The order of the roots does not matter.
RootSeq == CHOOSE s \in [1..Cardinality(Roots) -> Roots] :
             \A r \in Roots : \E i \in DOMAIN s : s[i] = r

ScavengeRoots(h) ==
  LET update(s, r)   == IF s.heap.full THEN s.heap ELSE [s.heap EXCEPT !.root[r] = s.to]
      scavenge(g, r) == update(Scav1(g, g.root[r]), r)
  IN  Fold(scavenge, h, RootSeq)

\* descriptors_scavenge: a reference is dirty if it leads to a younger object,
\* or to the scratch generation.  What it finds in from_space will be in
\* new_space.
DirtyDescriptors(h, p) ==
  \E x \in {Addr(p, i) : i \in 1..Used(h, p)} :
    /\ At(h, x).tag = "object" /\ At(h, x).ref # Nil
    /\ LET raw == h.page[Page(At(h, x).ref)].gen
           g   == IF raw = h.from THEN h.new ELSE raw
       IN  g < h.page[p].gen \/ g = Scratch

\* ptr_ok_to_writeprotect, for an object of generation gen that leads to r.
PointerOk(h, r, gen) ==
  LET g == h.page[Page(r)].gen
  IN  ~((g < gen \/ g = Scratch) /\ (Open(h, Page(r)) \/ InUse(h, r)))

\* range_dirty_p.
DirtyRange(h, p) ==
  \E x \in {Addr(p, i) : i \in 1..Used(h, p)} :
    /\ At(h, x).tag = "object" /\ At(h, x).ref # Nil
    /\ ~PointerOk(h, At(h, x).ref, h.page[p].gen)

\* Variant: a card is cleaned although a register points to it.
ScavengeCardNotSticky(h, p) ==
  LET dirty(s) == IF h.page[p].type = "mixed" THEN DirtyRange(s, p) ELSE DirtyDescriptors(h, p)
      after(s) == IF dirty(s) THEN s ELSE [s EXCEPT !.page[p].mark = "clear"]
  IN  after(ScavengePage(h, p))

\* scan_boxed_root_cards_non_spanning for conses and large vectors, and
\* scan_mixed_root_cards.
ScavengeCard(h, p) ==
  LET dirty(s) == IF h.page[p].type = "mixed" THEN DirtyRange(s, p) ELSE DirtyDescriptors(h, p)
      after(s) == IF dirty(s) \/ h.page[p].mark = "sticky" THEN s
                  ELSE [s EXCEPT !.page[p].mark = "clear"]
  IN  after(ScavengePage(h, p))

\* scavenge_root_gens.
ScavengeRootGens(h, from) ==
  LET scavenge(g, p) ==
        IF /\ g.page[p].type # "free" /\ g.page[p].gen \in from..Oldest
           /\ Used(g, p) # 0 /\ g.page[p].mark # "clear"
        THEN ScavengeCard(g, p) ELSE g
  IN  EachPage(scavenge, h)

\* scavenge_pinned_ranges, in the order of the addresses.
ScavengePinned(h) ==
  EachAddr(LAMBDA g, a : IF a \in g.pinned THEN Scavenge(g, a) ELSE g, h)

------------------------------------------------------------------------------
(* New space.                                                                  *)

\* newspace_full_scavenge: areas are recorded up to the page it is at.
FullScavenge(h) ==
  LET scavenge(g, p) ==
        IF /\ g.page[p].type # "free" /\ g.page[p].gen = g.new
           /\ Used(g, p) # 0 /\ g.page[p].mark # "clear"
        THEN ScavengePage([g EXCEPT !.below = p + 1], p) ELSE g
  IN  [EachPage(scavenge, h) EXCEPT !.below = NPages + 1]

\* One round of the loop of scavenge_newspace.
ScavengeAreas(h) ==
  LET taken == [h EXCEPT !.areas = <<>>]
      area(g, a) == ScavengeRange(g, a.start, a.size)
  IN  CloseRegions(IF Len(h.areas) >= NumNewAreas THEN FullScavenge(taken)
                   ELSE Fold(area, taken, h.areas))

\* scavenge_newspace.  A round without an object saved is the last one.
ScavengeNewspace(h) ==
  LET empty(g)    == Check(g, g.areas = <<>>)
      round(g, k) == IF g.areas = <<>> THEN g ELSE ScavengeAreas(g)
      rounds(g)   == Fold(round, g, <<0>> \o AddrSeq)
      end(g)      == [Check(g, g.full \/ g.areas = <<>>) EXCEPT !.areas = <<>>, !.below = 0]
  IN  end(rounds(CloseRegions(FullScavenge(empty(CloseRegions(h))))))

\* Variant: every weak pointer on the chain breaks.
SmashAll(h) ==
  [h EXCEPT !.word = [x \in Addrs |-> IF x \in h.chain THEN [@[x] EXCEPT !.ref = Nil] ELSE @[x]],
            !.chain = {}]

\* smash_weak_pointers: nothing else can be on the chain.
SmashWeakPointers(h) ==
  LET ref(x)  == At(h, x).ref
      old     == {x \in h.chain : InFromSpace(h, ref(x))}
      saved(r) == IF Forwarded(h, r) THEN At(h, r).to ELSE Nil
  IN  [Check(h, \A x \in h.chain \ old : h.page[Page(ref(x))].gen = h.new)
         EXCEPT !.word = [x \in Addrs |-> IF x \in old THEN [@[x] EXCEPT !.ref = saved(ref(x))]
                                          ELSE @[x]],
                !.chain = {}]

Wipe(word, A) == [a \in Addrs |-> IF a \in A THEN Filler ELSE word[a]]

PinnedPages(h) == {Page(a) : a \in h.pinned}

\* Variant: the page goes to new space and the bytes stay in from space.
ObliterateUncounted(h) == SetGens(h, PinnedPages(h), h.new)

\* obliterate_nonpinned_words: a page with pins goes to new space whole.
Obliterate(h) ==
  [MovePages(h, PinnedPages(h)) EXCEPT
     !.word = Wipe(@, {a \in Addrs : Page(a) \in PinnedPages(h)} \ h.pinned)]

OldPages(h) == {p \in Pages : h.page[p].gen = h.from}

\* Variant: what is freed is still counted.
FreeUncounted(h) ==
  [h EXCEPT !.page = [p \in Pages |-> IF p \in OldPages(h) THEN FreePage ELSE @[p]],
            !.word = Wipe(@, {a \in Addrs : Page(a) \in OldPages(h)})]

\* free_oldspace.
FreeOldspace(h) ==
  [h EXCEPT !.bytes[h.from] = @ - Cardinality(CellsIn(h, OldPages(h))),
            !.page = [p \in Pages |-> IF p \in OldPages(h) THEN FreePage ELSE @[p]],
            !.word = Wipe(@, {a \in Addrs : Page(a) \in OldPages(h)})]

\* Without a promotion, the scratch generation becomes the one collected.
Lower(h) ==
  LET moved == SetGens(h, {p \in Pages : h.page[p].gen = Scratch}, h.from)
  IN  IF h.new # Scratch THEN h
      ELSE Account(Check(moved, h.bytes[h.from] = 0), Scratch, h.from, h.bytes[Scratch])

------------------------------------------------------------------------------
(* The program.                                                                *)

Idle == pc = "run" /\ storing = <<>>

WordsOf(p) == {Addr(p, i) : i \in 1..heap.page[p].fill}
Objects    == {a \in UNION {WordsOf(p) : p \in Pages} : At(heap, a).tag = "object"}

FreshIds   == Ids \ {w.id : w \in {heap.word[a] : a \in Objects}}

\* gc_alloc_large takes pages of its own.
LargePages(h) == {p \in Pages : h.page[p].type = "free"}

\* lisp_alloc for register x: a "cons" or "mixed" object, a "weak" pointer, which
\* is a mixed object, or a "large" one.
\* Its reference is nothing, or what register y points to.
New(x, y, i, kind) ==
  /\ Idle
  /\ kind = "weak" => reg[y] # Nil
  /\ LET type == IF kind = "weak" THEN "mixed" ELSE kind
         fits == IF type = "large" THEN LargePages(heap)
                 ELSE Fits(heap, type, 0)
         p    == CHOOSE q \in fits : \A r \in fits : q <= r
         a    == Addr(p, heap.page[p].fill + 1)
         w    == Object(i, kind = "weak", reg[y])
     IN  /\ fits # {}
         /\ heap' = [heap EXCEPT !.page[p].type = type, !.page[p].gen = 0,
                                 !.page[p].fill = @ + 1, !.word[a] = w, !.bytes[0] = @ + 1]
         /\ reg' = [reg EXCEPT ![x] = a]
  /\ UNCHANGED <<storing, pc, gc>>

\* Read the reference of the object in y.
Load(x, y) ==
  /\ Idle
  /\ reg[y] # Nil
  /\ reg' = [reg EXCEPT ![x] = At(heap, reg[y]).ref]
  /\ UNCHANGED <<heap, storing, pc, gc>>

LoadRoot(x, r) ==
  /\ Idle
  /\ reg' = [reg EXCEPT ![x] = heap.root[r]]
  /\ UNCHANGED <<heap, storing, pc, gc>>

StoreRoot(r, x) ==
  /\ Idle
  /\ heap' = [heap EXCEPT !.root[r] = reg[x]]
  /\ UNCHANGED <<reg, storing, pc, gc>>

Forget(x) ==
  /\ Idle
  /\ reg' = [reg EXCEPT ![x] = Nil]
  /\ UNCHANGED <<heap, storing, pc, gc>>

\* Variant: the store leaves the card alone.
MarkNothing(x, y) ==
  /\ Idle
  /\ x # y
  /\ reg[x] # Nil
  /\ ~At(heap, reg[x]).weak
  /\ storing' = <<x, y>>
  /\ UNCHANGED <<heap, reg, pc, gc>>

\* A store marks the card of the object first ...
MarkCard(x, y) ==
  /\ Idle
  /\ x # y
  /\ reg[x] # Nil
  /\ ~At(heap, reg[x]).weak
  /\ heap' = [heap EXCEPT !.page[Page(reg[x])].mark = "marked"]
  /\ storing' = <<x, y>>
  /\ UNCHANGED <<reg, pc, gc>>

\* ... and writes the word later.
Write ==
  /\ pc = "run"
  /\ storing # <<>>
  /\ heap' = SetRef(heap, reg[storing[1]], reg[storing[2]])
  /\ storing' = <<>>
  /\ UNCHANGED <<reg, pc, gc>>

------------------------------------------------------------------------------
(* A collection.                                                               *)

\* The start of garbage_collect_generation.
FlipSpaces(h, gen, raise) ==
  LET spaces == [h EXCEPT !.from = gen, !.new = IF raise THEN gen + 1 ELSE Scratch]
  IN  UnprotectOldspace(Check(spaces, raise \/ h.bytes[Scratch] = 0))

\* garbage_collect_generation.
CollectGeneration(h, gen, raise, junk) ==
  LET regs   == {reg[x] : x \in Registers} \ {Nil}
      pinned == StackScan(FlipSpaces(h, gen, raise), regs, junk)
      roots  == ScavengeRootGens(ScavengeRoots(pinned), gen + 1 + IF raise THEN 1 ELSE 0)
      end(saved) ==
        IF saved.full THEN [h EXCEPT !.full = TRUE]
        ELSE [Lower(FreeOldspace(Obliterate(SmashWeakPointers(saved)))) EXCEPT !.pinned = {}]
  IN  end(ScavengeNewspace(ScavengePinned(roots)))

\* write_protect_generation_pages.
WriteProtect(h, g) ==
  SetMarks(h, {p \in Pages : /\ h.page[p].type # "free" /\ h.page[p].gen = g
                             /\ h.page[p].fill # 0 /\ h.page[p].mark # "sticky"}, "clear")

\* Variant: sticky marks stay.
UnstickNothing(h) == h

\* The end of sticky marks.
UnstickMarks(h) ==
  SetMarks(h, {p \in Pages : h.page[p].mark = "sticky"}, "marked")

\* Variant: generation 0 is protected as well.
ProtectNursery(h, g) ==
  LET empty == \A i \in Generations : i < g => h.bytes[i] = 0
  IN  [UnstickMarks(WriteProtect(Check(h, empty), g)) EXCEPT !.from = -1, !.new = 0]

\* The end of collect_garbage after generation g and those below it.
Protect(h, g) ==
  LET empty == \A i \in Generations : i < g => h.bytes[i] = 0
      done  == IF g > 0 THEN WriteProtect(Check(h, empty), g) ELSE h
  IN  [UnstickMarks(done) EXCEPT !.from = -1, !.new = 0]

\* Words that look like pointers to objects of the generation.
Junk(gen) ==
  {S \in SUBSET ConservativeRoots([heap EXCEPT !.from = gen], Addrs) :
     Cardinality(S) <= MaxJunk}

\* The loop of collect_garbage(last) at generation gen.  The generation is raised
\* if one after it is to be collected, if it is due by its age, or if space is
\* low: then the next one is collected too.  So it is if it was filled and is old
\* enough.
Collect(last, gen, more) ==
  \E raise, more2, old \in BOOLEAN :
    /\ IF more \/ gen >= Oldest THEN ~raise /\ ~more2
       ELSE /\ gen < last => raise /\ ~more2
            /\ more2 => raise /\ gen = last
    /\ old => raise /\ ~more2 /\ gen + 1 >= last /\ gen + 1 <= Oldest
    /\ \E junk \in Junk(gen) : \E h \in {CollectGeneration(heap, gen, raise, junk)} :
         IF gen + 1 <= Oldest /\ (gen + 1 < last \/ more2 \/ old) /\ ~h.full
         THEN /\ heap' = h
              /\ pc' = "collect"
              /\ gc' = [gen |-> gen + 1, last |-> last, more |-> more2]
         ELSE /\ heap' = IF h.full THEN h ELSE Protect(h, IF raise THEN gen + 1 ELSE gen)
              /\ pc' = IF h.full THEN "exhausted" ELSE "run"
              /\ gc' = NotCollecting

CollectGarbage(last) ==
  /\ pc = "run"
  /\ Collect(last, 0, FALSE)
  /\ UNCHANGED <<reg, storing>>

NextGeneration ==
  /\ pc = "collect"
  /\ Collect(gc.last, gc.gen, gc.more)
  /\ UNCHANGED <<reg, storing>>

Program ==
  \/ \E x, y \in Registers : Load(x, y) \/ MarkCard(x, y)
  \/ \E i \in FreshIds, x, y \in Registers, k \in Kinds : New(x, y, i, k)
  \/ \E x \in Registers, r \in Roots : LoadRoot(x, r) \/ StoreRoot(r, x)
  \/ \E x \in Registers : Forget(x)
  \/ Write

Next == Program \/ NextGeneration \/ \E last \in Requests : CollectGarbage(last)

Spec == Init /\ [][Next]_vars

------------------------------------------------------------------------------
(* Properties.                                                                 *)

TypeOK ==
  /\ \A p \in Pages :
       /\ heap.page[p].type \in PageTypes
       /\ heap.page[p].gen \in Generations
       /\ heap.page[p].mark \in Marks
       /\ heap.page[p].fill \in 0..Cap
  /\ heap.word \in [Addrs -> Cells]
  /\ heap.pinned \cup heap.chain \subseteq Addrs
  /\ pc \in {"run", "collect", "exhausted"}
  /\ pc = "run" => \A p \in Pages : heap.page[p].gen # Scratch /\ heap.page[p].mark # "sticky"

\* No assertion of the collector fails and no object is left without a place:
\* new space is empty where it must be, what a weak pointer leads to is either
\* garbage or saved, from space is empty at the end, and what is younger than
\* the pages that get protected is empty.
NeverLoses == ~heap.lost

\* verify_pointer, after a collection: no object, dead ones included, and no
\* root leads to a free page, to unallocated space, to a forwarding pointer or
\* to a filler.
HeapVerifies ==
  pc = "run" =>
    \A a \in ({At(heap, x).ref : x \in Objects} \cup {heap.root[r] : r \in Roots}
              \cup {reg[x] : x \in Registers}) \ {Nil} :
      InUse(heap, a) /\ At(heap, a).tag = "object"

\* A reference to a younger object is on a marked card, and so is one that the
\* program is about to write: it marked the card before the collection.
CardsCover ==
  pc = "run" =>
    /\ \A x \in Objects : LET r == At(heap, x).ref IN
         r # Nil /\ heap.page[Page(r)].gen < heap.page[Page(x)].gen
         => heap.page[Page(x)].mark = "marked"
    /\ storing # <<>> => LET x == reg[storing[1]]
                             r == reg[storing[2]] IN
         r # Nil /\ heap.page[Page(r)].gen < heap.page[Page(x)].gen
         => heap.page[Page(x)].mark = "marked"

\* The count of a generation's bytes is what its pages hold: promotion of the
\* next generation and the assertions of the collector are decided by it.
CountsRight ==
  pc = "run" => \A g \in Generations :
    heap.bytes[g] = Cardinality(UNION {WordsOf(p) : p \in {q \in Pages : heap.page[q].gen = g}})

------------------------------------------------------------------------------
(* The refinement: what the program sees is the graph of what it can reach.    *)

IsObject(a) == Slot(a) <= heap.page[Page(a)].fill /\ At(heap, a).tag = "object"

\* The identity of what "a" leads to; "dangling" if it leads nowhere.
Identity(a) == IF a = Nil THEN NoId ELSE IF IsObject(a) THEN At(heap, a).id ELSE "dangling"

Reachable ==
  LET live(S) == {a \in S : a # Nil /\ IsObject(a)}
      found[n \in Nat] ==
        IF n = 0 THEN live({heap.root[r] : r \in Roots} \cup {reg[x] : x \in Registers})
        ELSE UNION {{a} \cup live({At(heap, a).ref}) : a \in found[n - 1]}
  IN  found[Cardinality(Ids) - 1]

\* An object that is in two places is not a graph, and maps to none.
ObjectGraph ==
  LET record(w)     == [id |-> w.id, weak |-> w.weak, ref |-> Identity(w.ref)]
      graph(places) == LET found == {record(At(heap, a)) : a \in places}
                       IN  IF Cardinality(found) = Cardinality(places) THEN found ELSE {}
  IN  UNION {graph(places) : places \in {Reachable}}

Abs == INSTANCE AbstractHeap WITH
  Cells  <- Roots \cup Registers,
  cell   <- {<<r, Identity(heap.root[r])>> : r \in Roots}
            \cup {<<x, Identity(reg[x])>> : x \in Registers},
  object <- ObjectGraph

\* Collections change nothing that the program can see but weak pointers to what
\* it cannot reach.
ImplementsHeap == Abs!Spec
==============================================================================
