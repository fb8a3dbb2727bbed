------------------------------ MODULE GencgcInv ------------------------------
(* What holds inside a collection, between any two steps of the collector: the *)
(* inductive invariants from which GencgcProofs derives the properties of      *)
(* Gencgc.                                                                     *)
EXTENDS Gencgc

Regions == {"cons", "mixed"}

Heaps ==
  [page   : [Pages -> [type : PageTypes, gen : Generations, mark : Marks, fill : 0..Cap]],
   word   : [Addrs -> Cells],
   bytes  : [Generations -> Int],
   from   : Int,
   new    : Generations,
   region : [Regions -> [page : {0} \cup Pages, start : 0..Cap]],
   areas  : Seq([start : Int, size : Nat]),
   below  : Int,
   pinned : SUBSET Addrs,
   chain  : SUBSET Addrs,
   root   : [Roots -> Addrs \cup {Nil}],
   lost   : BOOLEAN,
   full   : BOOLEAN]

\* Cell(h, a): something was written at "a".
Cell(h, a)  == a \in Addrs /\ Slot(a) <= h.page[Page(a)].fill
Gen(h, a)   == h.page[Page(a)].gen
Mark(h, a)  == h.page[Page(a)].mark
IsObj(h, a) == Cell(h, a) /\ h.word[a].tag = "object"
IsFwd(h, a) == Cell(h, a) /\ h.word[a].tag = "forward"
Target(h, r) == r = Nil \/ (Cell(h, r) /\ h.word[r].tag # "filler")

\* What a collection keeps: it is not in from space.
Kept(h, a) == Cell(h, a) /\ ~InFromSpace(h, a)

CellsOf(h, g) == {a \in Addrs : Gen(h, a) = g /\ Slot(a) <= Used(h, Page(a))}

FreeOK(h) == \A p \in Pages : h.page[p].type = "free" => h.page[p] = FreePage

RefsOK(h) == /\ \A x \in Addrs : IsObj(h, x) => Target(h, h.word[x].ref)
             /\ \A r \in Roots : Target(h, h.root[r])

BytesOK(h) == \A g \in Generations : h.bytes[g] = Cardinality(CellsOf(h, g))

------------------------------------------------------------------------------
(* Inside a collection.                                                        *)

SpacesOK(h) == /\ h.from \in 0..Oldest
               /\ h.new \in {h.from + 1, Scratch}

RegionsOK(h) == \A t \in Regions :
  LET r == h.region[t] IN
  \/ r = Closed
  \/ /\ r.page # 0
     /\ h.page[r.page].type = t
     /\ h.page[r.page].gen = h.new
     /\ h.page[r.page].mark = "marked"
     /\ r.start <= h.page[r.page].fill

ForwardsOK(h) == \A a \in Addrs : IsFwd(h, a) =>
  /\ InFromSpace(h, a)
  /\ h.page[Page(a)].type # "large"
  /\ IsObj(h, h.word[a].to)
  /\ Gen(h, h.word[a].to) = h.new

PinnedOK(h) == \A a \in h.pinned :
  IsObj(h, a) /\ Gen(h, a) = h.from /\ h.page[Page(a)].type # "large"

ChainOK(h) == \A x \in h.chain :
  /\ IsObj(h, x) /\ Kept(h, x) /\ h.word[x].weak
  /\ LET r == h.word[x].ref IN
     r # Nil /\ Gen(h, r) \in {h.from, h.new} /\ r \notin h.pinned

GensOK(h) == \A a \in Addrs : Cell(h, a) =>
  Gen(h, a) >= h.from /\ (Gen(h, a) = Scratch => h.new = Scratch)

ScratchOK(h) == \A p \in Pages : h.page[p].gen = Scratch => h.new = Scratch

\* An object on a clean card leads to nothing younger.
CleanOK(h) == \A x \in Addrs :
  IsObj(h, x) /\ Gen(h, x) # h.from /\ Mark(h, x) = "clear" =>
    LET r == h.word[x].ref IN r = Nil \/ (Gen(h, x) <= Gen(h, r) /\ Gen(h, r) <= Oldest)

MarksOK(h) == \A a \in Addrs :
  Cell(h, a) /\ Gen(h, a) \in {h.from, Scratch} => Mark(h, a) # "clear"

InAreas(areas, x) ==
  \E i \in DOMAIN areas : areas[i].start <= x /\ x < areas[i].start + areas[i].size

AreasOK(h) == \A x \in Int : InAreas(h.areas, x) => Cell(h, x) /\ Gen(h, x) = h.new

Mid(h) ==
  /\ h \in Heaps
  /\ FreeOK(h) /\ SpacesOK(h) /\ RegionsOK(h) /\ ForwardsOK(h) /\ RefsOK(h)
  /\ PinnedOK(h) /\ ChainOK(h) /\ GensOK(h) /\ BytesOK(h) /\ CleanOK(h)
  /\ MarksOK(h) /\ AreasOK(h) /\ ScratchOK(h)

\* What is to be scavenged: it is kept and leads to from space.
Unclean(h) == {x \in Addrs : /\ IsObj(h, x) /\ Kept(h, x)
                             /\ h.word[x].ref # Nil /\ InFromSpace(h, h.word[x].ref)
                             /\ ~(h.word[x].weak /\ x \in h.chain)}

\* What will be scavenged, if pages from b on are.
Due(h, b) == {x \in Addrs :
  /\ Cell(h, x) /\ Gen(h, x) = h.new
  /\ \/ Len(h.areas) >= NumNewAreas
     \/ InAreas(h.areas, x)
     \/ Slot(x) > Used(h, Page(x))
     \/ Page(x) >= b}

Movable(h) == {a \in Addrs : IsObj(h, a) /\ InFromSpace(h, a)}

\* A reference that does not lead to from space stays.
Fixed(h, a) == /\ IsObj(h, a) /\ Kept(h, a)
               /\ h.word[a].ref = Nil \/ Gen(h, h.word[a].ref) # h.from

\* Every step of the collector, up to the end of scavenging.
Sweep(h, g) ==
  /\ g.from = h.from /\ g.new = h.new /\ g.pinned = h.pinned /\ g.lost = h.lost
  /\ h.full => g.full
  /\ \A a \in Addrs : Cell(h, a) =>
       /\ Cell(g, a)
       /\ \/ Gen(g, a) = Gen(h, a)
          \/ (Gen(h, a) = h.from /\ Gen(g, a) = h.new)
       /\ g.page[Page(a)].type = h.page[Page(a)].type
       /\ Mark(h, a) = "sticky" => Mark(g, a) = "sticky"
       /\ Kept(h, a) => /\ g.word[a].tag = h.word[a].tag
                        /\ IsObj(h, a) => g.word[a].weak = h.word[a].weak
       /\ Fixed(h, a) => g.word[a].ref = h.word[a].ref
  /\ \A a \in Addrs : Cell(g, a) /\ ~Cell(h, a) => Gen(g, a) = h.new
  /\ Movable(g) \subseteq Movable(h)

\* A step that moves nothing records nothing: the last round makes no area.
Grow(h, g) ==
  /\ Sweep(h, g)
  /\ g.root = h.root
  /\ ~g.full /\ Movable(g) = Movable(h) => g.areas = h.areas /\ g.region = h.region

\* Between the changes of record_new_regions_below.
Work(h, g) ==
  /\ Grow(h, g)
  /\ g.below = h.below
  /\ h.below = 0 => g.areas = h.areas
  /\ Due(h, h.below) \subseteq Due(g, h.below)
  /\ Unclean(g) \subseteq Unclean(h) \cup Due(g, h.below)

\* The objects in X were scavenged: they are clean, or due again.
Swept(h, g, X) ==
  /\ Mid(g) /\ Work(h, g)
  /\ ~g.full => \A x \in X : x \in Unclean(g) => x \in Due(g, h.below)

\* What the scavenging of one reference does: what is copied or promoted is due.
Step(h, g) ==
  /\ g.from = h.from /\ g.new = h.new /\ g.pinned = h.pinned /\ g.lost = h.lost
  /\ g.chain = h.chain /\ g.root = h.root /\ g.below = h.below
  /\ h.full => g.full
  /\ h.below = 0 => g.areas = h.areas
  /\ \A a \in Addrs : Cell(h, a) =>
       /\ Cell(g, a)
       /\ g.page[Page(a)].type = h.page[Page(a)].type
       /\ Mark(g, a) = Mark(h, a)
       /\ \/ Gen(g, a) = Gen(h, a)
          \/ /\ Gen(h, a) = h.from /\ Gen(g, a) = h.new
             /\ h.page[Page(a)].type = "large" /\ a \in Due(g, h.below)
       /\ Kept(h, a) \/ h.page[Page(a)].type = "large" => g.word[a] = h.word[a]
  /\ \A a \in Addrs : Cell(g, a) /\ ~Cell(h, a) => a \in Due(g, h.below)
  /\ Due(h, h.below) \subseteq Due(g, h.below)
  /\ Movable(g) \subseteq Movable(h)

Ext(h, g) ==
  /\ Step(h, g)
  /\ ~g.full /\ Movable(g) = Movable(h) => g.areas = h.areas /\ g.region = h.region

------------------------------------------------------------------------------
(* Between collections.                                                        *)

\* No collection is under way.
Quiet(h) == /\ h.region = [t \in Regions |-> Closed] /\ h.areas = <<>> /\ h.below = 0
            /\ h.pinned = {} /\ h.chain = {} /\ ~h.lost /\ ~h.full

\* Every cell is an object, or a filler; no forwarding pointers.
NoForwards(h) == \A a \in Addrs : ~IsFwd(h, a)

\* A reference to something younger is not on a clean card.
CoverOK(h) == \A x \in Addrs : IsObj(h, x) =>
  LET r == h.word[x].ref IN
  r # Nil /\ Gen(h, r) < Gen(h, x) => Mark(h, x) # "clear"

NurseryOK(h) == \A a \in Addrs : Cell(h, a) /\ Gen(h, a) = 0 => Mark(h, a) # "clear"

NoScratch(h) == \A p \in Pages : h.page[p].gen # Scratch

Rest(h) ==
  /\ h \in Heaps
  /\ FreeOK(h) /\ RefsOK(h) /\ BytesOK(h)
  /\ Quiet(h) /\ NoForwards(h) /\ CoverOK(h) /\ NurseryOK(h) /\ NoScratch(h)

\* Generations below g are empty.
Empty(h, g) == \A a \in Addrs : Cell(h, a) => Gen(h, a) >= g

\* The registers are objects or nothing.
RegsOK(h) == \A x \in Registers : reg[x] = Nil \/ IsObj(h, reg[x])

\* The store that is under way, on a card with mark m.
PendingOK(h, m) ==
  storing # <<>> =>
    LET x == reg[storing[1]]
        r == reg[storing[2]]
    IN  /\ x # Nil
        /\ r # Nil /\ Gen(h, r) < Gen(h, x) => Mark(h, x) = m

\* In every state: nothing was lost; between collections, and between two
\* generations of one collection, the heap is at rest (see Rest) and registers
\* lead to objects; the card of a store that waits for its write is marked while
\* the program runs and sticky while collect_garbage does; and what
\* collect_garbage has done so far has emptied the generations below gc.gen.
StateOK ==
  /\ reg \in [Registers -> Addrs \cup {Nil}]
  /\ storing = <<>> \/ storing \in Registers \X Registers
  /\ heap \in Heaps /\ pc \in {"run", "collect", "exhausted"}
  /\ ~heap.lost
  /\ pc # "exhausted" => Rest(heap) /\ RegsOK(heap)
  /\ pc = "run" => /\ \A p \in Pages : heap.page[p].mark # "sticky"
                   /\ PendingOK(heap, "marked")
                   /\ gc = NotCollecting
  /\ pc = "collect" => /\ gc.gen \in 1..Oldest /\ Empty(heap, gc.gen)
                       /\ gc.last \in 0..(Oldest + 1) /\ gc.more \in BOOLEAN
                       /\ gc.more => gc.gen > gc.last
                       /\ PendingOK(heap, "sticky")
=============================================================================
