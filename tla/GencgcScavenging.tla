-------------------------- MODULE GencgcScavenging ---------------------------
(* Scavenging: of objects, ranges of words, roots, cards of older pages and     *)
(* pinned objects, and then of new space until nothing new is recorded.  At the *)
(* end nothing that is kept leads to from space.                               *)
EXTENDS GencgcCopying

------------------------------------------------------------------------------
(* What scavenging keeps, and what is left to do.                           *)

\* What is kept stays kept.
LEMMA KeptStays ==
  ASSUME NEW h, Mid(h), NEW g, Sweep(h, g), NEW a, Kept(h, a)
  PROVE  Kept(g, a) /\ (IsObj(h, a) <=> IsObj(g, a))
<1>1. a \in Addrs /\ Cell(h, a) /\ (Gen(h, a) # h.from \/ a \in h.pinned)
  BY DEF Kept, Cell, InFromSpace, Gen
<1>2. /\ Cell(g, a) /\ g.from = h.from /\ g.pinned = h.pinned
      /\ Gen(h, a) # h.from => Gen(g, a) # h.from
      /\ g.word[a].tag = h.word[a].tag
  BY <1>1 DEF Sweep
<1> QED BY <1>1, <1>2 DEF Kept, InFromSpace, Gen, IsObj

\* What scavenging never undoes, over two steps.
LEMMA SweepTrans ==
  ASSUME NEW h, Mid(h), NEW g, Sweep(h, g), NEW k, Sweep(g, k)
  PROVE  Sweep(h, k)
<1>1. h.from # h.new
  BY SpacesDiffer
<1>2. ASSUME NEW a \in Addrs, Cell(h, a)
      PROVE  /\ Cell(k, a)
             /\ \/ Gen(k, a) = Gen(h, a)
                \/ (Gen(h, a) = h.from /\ Gen(k, a) = h.new)
             /\ k.page[Page(a)].type = h.page[Page(a)].type
             /\ Mark(h, a) = "sticky" => Mark(k, a) = "sticky"
             /\ Kept(h, a) => /\ k.word[a].tag = h.word[a].tag
                              /\ IsObj(h, a) => k.word[a].weak = h.word[a].weak
             /\ Fixed(h, a) => k.word[a].ref = h.word[a].ref
  <2>1. /\ Cell(g, a)
        /\ \/ Gen(g, a) = Gen(h, a)
           \/ (Gen(h, a) = h.from /\ Gen(g, a) = h.new)
        /\ g.page[Page(a)].type = h.page[Page(a)].type
        /\ Mark(h, a) = "sticky" => Mark(g, a) = "sticky"
        /\ Kept(h, a) => /\ g.word[a].tag = h.word[a].tag
                         /\ IsObj(h, a) => g.word[a].weak = h.word[a].weak
        /\ g.from = h.from /\ g.new = h.new
    BY <1>2 DEF Sweep
  <2>2. /\ Cell(k, a)
        /\ \/ Gen(k, a) = Gen(g, a)
           \/ (Gen(g, a) = g.from /\ Gen(k, a) = g.new)
        /\ k.page[Page(a)].type = g.page[Page(a)].type
        /\ Mark(g, a) = "sticky" => Mark(k, a) = "sticky"
        /\ Kept(g, a) => /\ k.word[a].tag = g.word[a].tag
                         /\ IsObj(g, a) => k.word[a].weak = g.word[a].weak
    BY <2>1 DEF Sweep
  <2>3. Kept(h, a) => Kept(g, a) /\ (IsObj(h, a) <=> IsObj(g, a))
    BY KeptStays
  <2>4. Fixed(h, a) => k.word[a].ref = h.word[a].ref
    <3> SUFFICES ASSUME Fixed(h, a) PROVE Fixed(g, a) /\ g.word[a].ref = h.word[a].ref
      BY <1>2, <2>1 DEF Sweep
    <3> DEFINE r == h.word[a].ref
    <3>1. IsObj(h, a) /\ Kept(h, a) /\ (r = Nil \/ Gen(h, r) # h.from)
      BY DEF Fixed
    <3>2. g.word[a].ref = r
      BY <1>2 DEF Sweep
    <3>3. r = Nil \/ (Cell(h, r) /\ r \in Addrs)
      BY <3>1 DEF Mid, RefsOK, Target, Cell
    <3> HIDE DEF r
    <3>4. r = Nil \/ Gen(g, r) # g.from
      BY <1>1, <3>1, <3>3 DEF Sweep
    <3> QED BY <2>3, <3>1, <3>2, <3>4 DEF Fixed, r
  <2> QED BY <1>1, <2>1, <2>2, <2>3, <2>4
<1>3. Movable(k) \subseteq Movable(h)
  BY DEF Sweep
<1>4. /\ k.from = h.from /\ k.new = h.new /\ k.pinned = h.pinned /\ k.lost = h.lost
      /\ h.full => k.full
  BY DEF Sweep
<1>5. ASSUME NEW a \in Addrs, Cell(k, a), ~Cell(h, a) PROVE Gen(k, a) = h.new
  BY <1>5 DEF Sweep
<1> QED BY <1>2, <1>3, <1>4, <1>5 DEF Sweep

\* Two steps that record nothing unless they move something, as one.
LEMMA GrowTrans ==
  ASSUME NEW h, Mid(h), NEW g, Grow(h, g), NEW k, Grow(g, k)
  PROVE  Grow(h, k)
<1>1. Sweep(h, g) /\ Sweep(g, k) /\ k.root = h.root
  BY DEF Grow
<1>2. Sweep(h, k)
  BY <1>1, SweepTrans
<1>3. ~k.full /\ Movable(k) = Movable(h) => k.areas = h.areas /\ k.region = h.region
  <2> SUFFICES ASSUME ~k.full, Movable(k) = Movable(h)
               PROVE  k.areas = h.areas /\ k.region = h.region
    OBVIOUS
  <2>1. Movable(g) \subseteq Movable(h) /\ Movable(k) \subseteq Movable(g) /\ ~g.full
    BY <1>1 DEF Sweep
  <2>2. Movable(g) = Movable(h) /\ Movable(k) = Movable(g)
    BY <2>1
  <2> QED BY <2>1, <2>2 DEF Grow
<1> QED BY <1>1, <1>2, <1>3 DEF Grow

\* Scavenging goes on from what is due.
LEMMA WorkTrans ==
  ASSUME NEW h, Mid(h), NEW g, Work(h, g), NEW k, Work(g, k)
  PROVE  Work(h, k)
<1>1. Grow(h, g) /\ Grow(g, k)
  BY DEF Work
<1>2. Grow(h, k)
  BY <1>1, GrowTrans
<1>3. /\ k.below = h.below /\ Due(h, h.below) \subseteq Due(k, h.below)
      /\ Unclean(k) \subseteq Unclean(h) \cup Due(k, h.below)
      /\ h.below = 0 => k.areas = h.areas
  BY DEF Work
<1> QED BY <1>2, <1>3 DEF Work

\* What was scavenged first and what was scavenged then.
LEMMA SweptTrans ==
  ASSUME NEW h, Mid(h), NEW g, NEW X, Swept(h, g, X), NEW k, NEW Y, Swept(g, k, Y)
  PROVE  Swept(h, k, X \cup Y)
<1>1. Work(h, g) /\ Work(g, k) /\ Mid(k)
  BY DEF Swept
<1>2. Work(h, k)
  BY <1>1, WorkTrans
<1>3. g.below = h.below /\ (g.full => k.full)
  BY <1>1 DEF Work, Grow, Sweep
<1>4. ASSUME ~k.full, NEW x \in X \cup Y, x \in Unclean(k) PROVE x \in Due(k, h.below)
  <2>1. CASE x \in Y
    BY <1>3, <1>4, <2>1 DEF Swept
  <2>2. CASE x \in X
    <3>1. x \in Unclean(g) \/ x \in Due(k, h.below)
      BY <1>1, <1>3, <1>4 DEF Work
    <3>2. x \in Unclean(g) => x \in Due(g, h.below)
      BY <1>3, <1>4, <2>2 DEF Swept
    <3> QED BY <1>1, <1>3, <3>1, <3>2 DEF Work
  <2> QED BY <1>4, <2>1, <2>2
<1> QED BY <1>1, <1>2, <1>4 DEF Swept

\* Doing nothing is scavenging.
LEMMA WorkSame == ASSUME NEW h PROVE Work(h, h) /\ Sweep(h, h) /\ Grow(h, h)
  BY DEF Work, Grow, Sweep

\* Scavenging one reference is work.
LEMMA ExtWork ==
  ASSUME NEW h, Mid(h), NEW g, Ext(h, g)
  PROVE  Work(h, g)
<1>1. Step(h, g)
  BY DEF Ext
<1>2. Unclean(g) \subseteq Unclean(h) \cup Due(g, h.below)
  BY <1>1, StepUnclean
<1>3. Sweep(h, g)
  BY <1>1 DEF Step, Sweep, Fixed, Due
<1> QED BY <1>1, <1>2, <1>3 DEF Work, Grow, Ext, Step

\* Writing a reference that leads out of from space is work.
LEMMA SetRefWork ==
  ASSUME NEW h, Mid(h), NEW x \in Addrs, IsObj(h, x), Kept(h, x), x \notin h.chain,
         NEW r, r = Nil \/ (IsObj(h, r) /\ Kept(h, r)),
         Gen(h, x) # h.from /\ Mark(h, x) = "clear"
           => r = Nil \/ (Gen(h, x) <= Gen(h, r) /\ Gen(h, r) <= Oldest),
         Fixed(h, x) => r = h.word[x].ref
  PROVE  LET g == SetRef(h, x, r)
         IN  Mid(g) /\ Work(h, g) /\ x \notin Unclean(g) /\ g.full = h.full
<1> DEFINE g == SetRef(h, x, r)
<1>1. /\ Mid(g) /\ g.full = h.full
      /\ IsObj(g, x) /\ g.word[x].tag = "object"
      /\ g.word[x].weak = h.word[x].weak /\ g.word[x].ref = r
      /\ \A y \in Addrs : y # x => g.word[y] = h.word[y]
      /\ \A y : IsObj(g, y) <=> IsObj(h, y)
      /\ Movable(g) = Movable(h)
      /\ Unclean(g) = Unclean(h) \ {x}
      /\ g.page = h.page /\ g.from = h.from /\ g.new = h.new /\ g.below = h.below
      /\ g.region = h.region /\ g.areas = h.areas /\ g.pinned = h.pinned
      /\ g.chain = h.chain /\ g.root = h.root /\ g.lost = h.lost
  BY SetRefOK
<1> HIDE DEF g
<1>2. /\ \A y : /\ Cell(g, y) <=> Cell(h, y)
                /\ Gen(g, y) = Gen(h, y) /\ Mark(g, y) = Mark(h, y)
      /\ Due(g, h.below) = Due(h, h.below)
  BY <1>1, SamePages
<1>3. \A y \in Addrs : g.word[y].tag = h.word[y].tag /\ g.word[y].weak = h.word[y].weak
  BY <1>1 DEF IsObj
<1>3a. \A y \in Addrs : Fixed(h, y) => g.word[y].ref = h.word[y].ref
  BY <1>1
<1>4. Sweep(h, g)
  BY <1>1, <1>2, <1>3, <1>3a DEF Sweep
<1>5. Work(h, g)
  BY <1>1, <1>2, <1>4 DEF Work, Grow
<1> QED BY <1>1, <1>5 DEF g

\* Objects on clean cards lead to nothing in from space.
LEMMA CleanFrom ==
  ASSUME NEW h, Mid(h), NEW x \in Addrs, IsObj(h, x), Mark(h, x) = "clear", Gen(h, x) # h.from,
         h.word[x].ref # Nil
  PROVE  Gen(h, h.word[x].ref) # h.from
<1> DEFINE r == h.word[x].ref
<1>1. Gen(h, x) <= Gen(h, r)
  BY DEF Mid, CleanOK
<1>2. Cell(h, r) /\ r \in Addrs /\ Cell(h, x)
  BY DEF Mid, RefsOK, Target, Cell, IsObj
<1> HIDE DEF r
<1>3. Gen(h, x) \in Int /\ Gen(h, r) \in Int /\ h.from \in Int
  BY <1>2, SpacesDiffer, PageSlot, PageType DEF Gen, Generations, Mid
<1>4. Gen(h, x) >= h.from
  BY <1>2 DEF Mid, GensOK
<1> QED BY <1>1, <1>3, <1>4 DEF r

------------------------------------------------------------------------------
(* heap_scavenge.                                                           *)

\* A weak pointer waits until it is known what is saved.
LEMMA ChainedOK ==
  ASSUME NEW h, Mid(h), NEW x \in Addrs, IsObj(h, x), Kept(h, x), h.word[x].weak,
         h.word[x].ref # Nil, InFromSpace(h, h.word[x].ref)
  PROVE  LET g == [h EXCEPT !.chain = @ \cup {x}]
         IN  Mid(g) /\ Work(h, g) /\ x \notin Unclean(g) /\ g.full = h.full
<1> DEFINE S == h.chain \cup {x}
           g == [h EXCEPT !.chain = S]
<1>1. h \in Heaps /\ S \in SUBSET Addrs
  BY DEF Mid, Heaps
<1> HIDE DEF S
<1>2. /\ g \in Heaps
      /\ g.page = h.page /\ g.word = h.word /\ g.bytes = h.bytes /\ g.from = h.from
      /\ g.new = h.new /\ g.region = h.region /\ g.areas = h.areas /\ g.below = h.below
      /\ g.pinned = h.pinned /\ g.chain = S /\ g.root = h.root
      /\ g.lost = h.lost /\ g.full = h.full
  BY <1>1 DEF Heaps
<1> HIDE DEF g
<1>3. /\ \A y : /\ Cell(g, y) <=> Cell(h, y)
                /\ Gen(g, y) = Gen(h, y) /\ Mark(g, y) = Mark(h, y)
                /\ InFromSpace(g, y) <=> InFromSpace(h, y)
                /\ Kept(g, y) <=> Kept(h, y)
                /\ g.page[Page(y)].type = h.page[Page(y)].type
      /\ \A k : CellsOf(g, k) = CellsOf(h, k)
      /\ Due(g, h.below) = Due(h, h.below)
      /\ FreeOK(g) /\ SpacesOK(g) /\ RegionsOK(g) /\ GensOK(g) /\ MarksOK(g) /\ AreasOK(g) /\ ScratchOK(g)
  BY <1>2, SamePages DEF Mid
<1>4. \A y : (IsObj(g, y) <=> IsObj(h, y)) /\ (IsFwd(g, y) <=> IsFwd(h, y)) /\ (Target(g, y) <=> Target(h, y))
  BY <1>2, <1>3 DEF IsObj, IsFwd, Target
<1>5. ForwardsOK(g) /\ RefsOK(g) /\ PinnedOK(g) /\ BytesOK(g) /\ CleanOK(g)
  <2>1. ForwardsOK(g)
    BY <1>2, <1>3, <1>4 DEF Mid, ForwardsOK
  <2>2. RefsOK(g)
    BY <1>2, <1>4 DEF Mid, RefsOK
  <2>3. PinnedOK(g)
    BY <1>2, <1>3, <1>4 DEF Mid, PinnedOK
  <2>4. BytesOK(g)
    BY <1>2, <1>3 DEF Mid, BytesOK
  <2>5. CleanOK(g)
    BY <1>2, <1>3, <1>4 DEF Mid, CleanOK
  <2> QED BY <2>1, <2>2, <2>3, <2>4, <2>5
<1>6. ChainOK(g)
  <2> SUFFICES ASSUME NEW y \in S
               PROVE  /\ IsObj(h, y) /\ Kept(h, y) /\ h.word[y].weak
                      /\ LET r == h.word[y].ref IN
                         r # Nil /\ Gen(h, r) \in {h.from, h.new} /\ r \notin h.pinned
    BY <1>2, <1>3, <1>4 DEF ChainOK
  <2>1. CASE y = x
    BY <2>1 DEF InFromSpace, Gen
  <2>2. CASE y \in h.chain
    BY <2>2 DEF Mid, ChainOK
  <2> QED BY <2>1, <2>2 DEF S
<1>7. Mid(g)
  BY <1>2, <1>3, <1>5, <1>6 DEF Mid
<1>8. Movable(g) = Movable(h)
  BY <1>3, <1>4 DEF Movable
<1>9. Unclean(g) \subseteq Unclean(h) /\ x \notin Unclean(g)
  BY <1>2, <1>3, <1>4 DEF Unclean, S
<1>10. Work(h, g)
  BY <1>2, <1>3, <1>8, <1>9 DEF Work, Grow, Sweep
<1> QED BY <1>2, <1>7, <1>9, <1>10 DEF g, S

\* scav_weakptr.
LEMMA ScavWeakOK ==
  ASSUME NEW h, Mid(h), NEW x \in Addrs, IsObj(h, x), Kept(h, x), h.word[x].weak
  PROVE  LET g == ScavWeak(h, x)
         IN  Mid(g) /\ Work(h, g) /\ x \notin Unclean(g) /\ g.full = h.full
<1> DEFINE r == h.word[x].ref
           g == ScavWeak(h, x)
<1>1. CASE x \in h.chain \/ r = Nil \/ ~InFromSpace(h, r)
  <2>1. g = h
    BY <1>1 DEF ScavWeak, At
  <2>2. x \notin Unclean(h)
    BY <1>1 DEF Unclean
  <2> QED BY <2>1, <2>2, WorkSame
<1>2. CASE ~(x \in h.chain \/ r = Nil \/ ~InFromSpace(h, r))
  <2>1. x \notin h.chain /\ r # Nil /\ InFromSpace(h, r)
    BY <1>2
  <2>2. Cell(h, r) /\ h.word[r].tag # "filler" /\ r \in Addrs
    BY <2>1 DEF Mid, RefsOK, Target, Cell
  <2>3. CASE Forwarded(h, r)
    <3> DEFINE to == h.word[r].to
               k == SetRef(h, x, to)
    <3>1. g = k
      BY <1>2, <2>3 DEF ScavWeak, At
    <3>2. IsFwd(h, r)
      BY <2>2, <2>3 DEF Forwarded, At, IsFwd
    <3>3. IsObj(h, to) /\ Kept(h, to)
      BY <2>2, <3>2, SpacesDiffer, NewKept DEF Mid, ForwardsOK, IsObj
    <3>4. ~(Gen(h, x) # h.from /\ Mark(h, x) = "clear")
      BY <2>1, CleanFrom DEF InFromSpace, Gen
    <3>4a. ~Fixed(h, x)
      BY <2>1 DEF Fixed, InFromSpace, Gen
    <3> HIDE DEF g, to
    <3>5. Mid(k) /\ Work(h, k) /\ x \notin Unclean(k) /\ k.full = h.full
      BY <2>1, <3>3, <3>4, <3>4a, SetRefWork
    <3> QED BY <3>1, <3>5 DEF g
  <2>4. CASE ~Forwarded(h, r)
    <3> DEFINE k == [h EXCEPT !.chain = @ \cup {x}]
    <3>1. g = k
      BY <1>2, <2>4 DEF ScavWeak, At
    <3> HIDE DEF g
    <3>2. LET e == [h EXCEPT !.chain = @ \cup {x}]
          IN  Mid(e) /\ Work(h, e) /\ x \notin Unclean(e) /\ e.full = h.full
      BY <2>1, ChainedOK
    <3> QED BY <3>1, <3>2 DEF g
  <2> QED BY <2>3, <2>4
<1> QED BY <1>1, <1>2

\* Every object of heap_scavenge is clean afterwards.
LEMMA ScavengeOK ==
  ASSUME NEW h, Mid(h), NEW x \in Addrs, Kept(h, x)
  PROVE  LET g == Scavenge(h, x)
         IN  Mid(g) /\ Work(h, g) /\ (~g.full => x \notin Unclean(g))
<1> DEFINE w == h.word[x]
           g == Scavenge(h, x)
<1>1. CASE h.full \/ w.tag # "object"
  <2>1. g = h
    BY <1>1 DEF Scavenge, At
  <2>2. w.tag # "object" => x \notin Unclean(h)
    BY DEF Unclean, IsObj
  <2> QED BY <1>1, <2>1, <2>2, WorkSame
<1>2. CASE ~(h.full \/ w.tag # "object")
  <2>1. IsObj(h, x) /\ ~h.full
    BY <1>2 DEF Kept, IsObj
  <2>2. CASE w.weak
    <3>1. g = ScavWeak(h, x)
      BY <1>2, <2>2 DEF Scavenge, At
    <3> HIDE DEF g
    <3> QED BY <2>1, <2>2, <3>1, ScavWeakOK DEF g
  <2>3. CASE ~w.weak
    <3> DEFINE s == Scav1(h, w.ref)
               k == s.heap
               f == SetRef(k, x, s.to)
    <3>1. g = IF k.full THEN k ELSE f
      BY <1>2, <2>3 DEF Scavenge, At
    <3>2. Target(h, w.ref)
      BY <2>1 DEF Mid, RefsOK
    <3>3. /\ Mid(k) /\ Ext(h, k)
          /\ ~k.full => /\ ~h.full
                        /\ s.to = Nil \/ (IsObj(k, s.to) /\ Kept(k, s.to))
          /\ w.ref = Nil \/ Gen(h, w.ref) # h.from => k = h /\ s.to = w.ref
          /\ w.ref # Nil /\ Gen(k, w.ref) # h.from => s.to = w.ref
      <4> HIDE DEF w
      <4> QED BY <3>2, Scav1OK
    <3> HIDE DEF s
    <3>4. Work(h, k)
      BY <3>3, ExtWork
    <3>5. CASE k.full
      BY <3>1, <3>3, <3>4, <3>5
    <3>6. CASE ~k.full
      <4>1. Kept(k, x) /\ IsObj(k, x)
        BY <2>1, <3>4, KeptStays DEF Work, Grow
      <4>2. x \notin k.chain
        BY <2>3, <3>3 DEF Mid, ChainOK, Ext, Step
      <4>3. Gen(k, x) # k.from /\ Mark(k, x) = "clear"
              => s.to = Nil \/ (Gen(k, x) <= Gen(k, s.to) /\ Gen(k, s.to) <= Oldest)
        <5> SUFFICES ASSUME Gen(k, x) # k.from, Mark(k, x) = "clear", s.to # Nil
                     PROVE  Gen(k, x) <= Gen(k, s.to) /\ Gen(k, s.to) <= Oldest
          OBVIOUS
        <5>1. Mark(h, x) = "clear" /\ Cell(h, x)
          BY <2>1, <3>3 DEF Ext, Step, IsObj
        <5>2. Gen(h, x) # h.from
          BY <5>1 DEF Mid, MarksOK
        <5>3. w.ref = Nil \/ Gen(h, w.ref) # h.from
          BY <2>1, <5>1, <5>2, CleanFrom
        <5>4. k = h /\ s.to = w.ref
          BY <3>3, <5>3
        <5> QED BY <2>1, <5>1, <5>2, <5>4 DEF Mid, CleanOK
      <4>3a. Fixed(k, x) => s.to = k.word[x].ref
        <5> SUFFICES ASSUME Fixed(k, x) PROVE s.to = k.word[x].ref
          OBVIOUS
        <5>1. k.word[x] = h.word[x] /\ k.from = h.from
          BY <2>1, <3>3 DEF Ext, Step, IsObj
        <5>2. w.ref = Nil \/ Gen(k, w.ref) # h.from
          BY <5>1 DEF Fixed
        <5> QED BY <3>3, <5>1, <5>2
      <4>4. Mid(f) /\ Work(k, f) /\ x \notin Unclean(f) /\ f.full = k.full
        <5> DEFINE r == s.to
        <5>1. r = Nil \/ (IsObj(k, r) /\ Kept(k, r))
          BY <3>3, <3>6
        <5>2. Gen(k, x) # k.from /\ Mark(k, x) = "clear"
                => r = Nil \/ (Gen(k, x) <= Gen(k, r) /\ Gen(k, r) <= Oldest)
          BY <4>3
        <5>3. Mid(k)
          BY <3>3
        <5>5. Fixed(k, x) => r = k.word[x].ref
          BY <4>3a
        <5> HIDE DEF r, k
        <5>4. LET e == SetRef(k, x, r)
              IN  Mid(e) /\ Work(k, e) /\ x \notin Unclean(e) /\ e.full = k.full
          BY <4>1, <4>2, <5>1, <5>2, <5>3, <5>5, SetRefWork
        <5> QED BY <5>4 DEF r
      <4>5. Work(h, f)
        <5> HIDE DEF f, k
        <5> QED BY <3>4, <4>4, WorkTrans
      <4> HIDE DEF f
      <4> QED BY <3>1, <3>6, <4>4, <4>5
    <3> QED BY <3>5, <3>6
  <2> QED BY <2>2, <2>3
<1> QED BY <1>1, <1>2

\* Nothing has been scavenged at first.
LEMMA SweptNone == ASSUME NEW h, Mid(h) PROVE Swept(h, h, {})
  BY WorkSame DEF Swept

\* The next object of a range.
LEMMA ScavengeNext ==
  ASSUME NEW h, Mid(h), NEW X, NEW g, Swept(h, g, X), NEW x \in Addrs, Kept(h, x)
  PROVE  Swept(h, Scavenge(g, x), X \cup {x})
<1> DEFINE k == Scavenge(g, x)
<1>1. Mid(g) /\ Sweep(h, g)
  BY DEF Swept, Work, Grow
<1>2. Kept(g, x)
  BY <1>1, KeptStays
<1>3. Mid(k) /\ Work(g, k) /\ (~k.full => x \notin Unclean(k))
  BY <1>1, <1>2, ScavengeOK
<1>4. Swept(g, k, {x})
  BY <1>3 DEF Swept
<1> HIDE DEF k
<1>5. Swept(h, k, X \cup {x})
  BY <1>4, SweptTrans
<1> QED BY <1>5 DEF k

\* heap_scavenge.
LEMMA ScavengeRangeOK ==
  ASSUME NEW h, Mid(h), NEW a \in Int, NEW n \in Nat,
         \A x \in Int : a <= x /\ x < a + n => x \in Addrs /\ Kept(h, x)
  PROVE  Swept(h, ScavengeRange(h, a, n), {x \in Int : a <= x /\ x < a + n})
<1> DEFINE s    == [i \in 1..n |-> a + i - 1]
           X(i) == {x \in Int : a <= x /\ x < a + i}
           J == [i \in 0..n |-> {g \in Heaps : Swept(h, g, X(i))}]
           O == [i \in 1..n |-> [g \in J[i - 1] |-> Scavenge(g, s[i])]]
           Is(f) == f = [i \in 0..n |-> IF i = 0 THEN h ELSE Scavenge(f[i - 1], s[i])]
           F == CHOOSE f : Is(f)
<1>1. Len(s) = n /\ \A i \in 1..n : s[i] = a + i - 1
  OBVIOUS
<1>2. ScavengeRange(h, a, n) = F[n]
  BY <1>1 DEF ScavengeRange, Fold
<1> HIDE DEF s
<1>3. h \in J[0]
  <2>1. X(0) = {}
    OBVIOUS
  <2> HIDE DEF X
  <2> QED BY <2>1, SweptNone DEF Mid
<1>4. ASSUME NEW i \in 1..n, NEW g \in J[i - 1] PROVE Scavenge(g, s[i]) \in J[i]
  <2> DEFINE x == s[i]
             k == Scavenge(g, x)
  <2>1. Swept(h, g, X(i - 1)) /\ i \in 0..n /\ i - 1 \in 0..n
    OBVIOUS
  <2>2. x \in Int /\ a <= x /\ x < a + n
    BY <1>1
  <2>3. X(i) = X(i - 1) \cup {x}
    <3>1. \A y \in Int : a <= y /\ y < a + i <=> (a <= y /\ y < a + (i - 1)) \/ y = a + i - 1
      OBVIOUS
    <3>2. x = a + i - 1
      BY <1>1
    <3> HIDE DEF x
    <3> QED BY <2>2, <3>1, <3>2
  <2> HIDE DEF X
  <2>4. Swept(h, k, X(i - 1) \cup {x})
    BY <2>1, <2>2, ScavengeNext
  <2>5. k \in Heaps
    BY <2>4 DEF Swept, Mid
  <2> HIDE DEF k, x
  <2>6. Swept(h, k, X(i))
    BY <2>3, <2>4
  <2> QED BY <2>1, <2>5, <2>6 DEF k, x
<1>5. \E f : Is(f)
  <2>1. \A i \in 1..n : \A g \in J[i - 1] : O[i][g] = Scavenge(g, s[i]) /\ O[i][g] \in J[i]
    BY <1>4
  <2> HIDE DEF J, O
  <2>2. \E f : Folds(f, n, h, O) /\ \A i \in 0..n : f[i] \in J[i]
    BY <1>3, <2>1, Folding
  <2>3. PICK f : /\ f = [i \in 0..n |-> IF i = 0 THEN h ELSE O[i][f[i - 1]]]
                 /\ \A i \in 0..n : f[i] \in J[i]
    BY <2>2 DEF Folds
  <2>4. \A i \in 0..n : i # 0 => O[i][f[i - 1]] = Scavenge(f[i - 1], s[i])
    <3> SUFFICES ASSUME NEW i \in 0..n, i # 0 PROVE O[i][f[i - 1]] = Scavenge(f[i - 1], s[i])
      OBVIOUS
    <3>1. i \in 1..n /\ i - 1 \in 0..n
      OBVIOUS
    <3> QED BY <2>1, <2>3, <3>1
  <2>5. Is(f)
    BY <2>3, <2>4
  <2> QED BY <2>5
<1>6. Is(F)
  BY <1>5
<1> HIDE DEF F
<1>7. F[0] = h /\ \A i \in 1..n : F[i] = Scavenge(F[i - 1], s[i])
  BY <1>6
<1>8. \A i \in 0..n : F[i] \in J[i]
  <2> HIDE DEF J, Is
  <2> QED BY <1>3, <1>4, <1>7, Folded
<1>9. F[n] \in J[n]
  BY <1>8
<1> QED BY <1>2, <1>9

\* What is used of a page.
LEMMA ScavengePageOK ==
  ASSUME NEW h, Mid(h), NEW p \in Pages,
         \A x \in Addrs : Page(x) = p /\ Slot(x) <= Used(h, p) => Kept(h, x)
  PROVE  Swept(h, ScavengePage(h, p), {x \in Addrs : Page(x) = p /\ Slot(x) <= Used(h, p)})
<1> DEFINE a == Addr(p, 1)
           n == Used(h, p)
           X == {x \in Int : a <= x /\ x < a + n}
           Y == {x \in Addrs : Page(x) = p /\ Slot(x) <= n}
<1>1. n \in Nat /\ 0 + n <= Cap
  <2>1. n \in 0..h.page[p].fill
    BY UsedBound DEF Mid
  <2>2. h.page[p].fill \in Nat /\ h.page[p].fill <= Cap
    BY PageType DEF Mid
  <2> HIDE DEF n
  <2> QED BY <2>1, <2>2, GencgcAssumption
<1>2. a \in Int
  <2>1. 1 \in 1..Cap
    BY GencgcAssumption
  <2> QED BY <2>1, AddrOf DEF Addrs
<1>3. \A x \in Int : a <= x /\ x < a + n <=> x \in Addrs /\ Page(x) = p /\ Slot(x) <= n
  <2> HIDE DEF n
  <2>1. \A x \in Int : Addr(p, 0 + 1) <= x /\ x < Addr(p, 0 + 1) + n
          <=> x \in Addrs /\ Page(x) = p /\ 0 < Slot(x) /\ Slot(x) <= 0 + n
    BY <1>1, AddrRange
  <2>2. \A x \in Addrs : Slot(x) \in 1..Cap
    BY PageSlot
  <2> QED BY <1>1, <2>1, <2>2
<1>4. X = Y
  <2>1. \A x \in Addrs : x \in Int
    BY DEF Addrs
  <2> HIDE DEF a, n
  <2> QED BY <1>3, <2>1
<1>5. \A x \in Int : a <= x /\ x < a + n => x \in Addrs /\ Kept(h, x)
  BY <1>3
<1> HIDE DEF a, n
<1>6. Swept(h, ScavengeRange(h, a, n), X)
  BY <1>1, <1>2, <1>5, ScavengeRangeOK
<1>7. ScavengePage(h, p) = ScavengeRange(h, a, n)
  BY DEF ScavengePage, a, n
<1> HIDE DEF X
<1>8. Swept(h, ScavengePage(h, p), Y)
  BY <1>4, <1>6, <1>7
<1> QED BY <1>8 DEF n

------------------------------------------------------------------------------
(* Roots.                                                                   *)

\* Every root has its turn.
LEMMA RootsOrdered ==
  /\ Cardinality(Roots) \in Nat /\ Len(RootSeq) = Cardinality(Roots)
  /\ \A i \in 1..Cardinality(Roots) : RootSeq[i] \in Roots
  /\ \A r \in Roots : \E i \in 1..Cardinality(Roots) : RootSeq[i] = r
<1> DEFINE N == Cardinality(Roots)
           Is(s) == s \in [1..N -> Roots] /\ \A r \in Roots : \E i \in DOMAIN s : s[i] = r
<1>1. N \in Nat /\ ExistsBijection(1..N, Roots)
  BY GencgcAssumption, FS_CardinalityType
<1> HIDE DEF N
<1>2. PICK s \in [1..N -> Roots] : \A r \in Roots : \E i \in 1..N : s[i] = r
  BY <1>1 DEF ExistsBijection, Bijection, Surjection
<1>3. \E s0 \in [1..N -> Roots] : \A r \in Roots : \E i \in DOMAIN s0 : s0[i] = r
  BY <1>2
<1>4. RootSeq \in [1..N -> Roots] /\ \A r \in Roots : \E i \in DOMAIN RootSeq : RootSeq[i] = r
  BY <1>3 DEF RootSeq, N
<1>5. Len(RootSeq) = N /\ DOMAIN RootSeq = 1..N
  BY <1>1, <1>4
<1> QED BY <1>1, <1>4, <1>5 DEF N

\* A heap in which only the roots differ.
LEMMA RootsOnly ==
  ASSUME NEW h, Mid(h), NEW R \in [Roots -> Addrs \cup {Nil}], \A r \in Roots : Target(h, R[r])
  PROVE  LET g == [h EXCEPT !.root = R]
         IN  /\ Mid(g) /\ Sweep(h, g) /\ g.root = R /\ g.full = h.full
             /\ g.below = h.below /\ g.areas = h.areas
             /\ \A x : (IsObj(g, x) <=> IsObj(h, x)) /\ (Kept(g, x) <=> Kept(h, x))
<1> DEFINE g == [h EXCEPT !.root = R]
<1>1. h \in Heaps
  BY DEF Mid
<1>2. /\ g \in Heaps
      /\ g.page = h.page /\ g.word = h.word /\ g.bytes = h.bytes /\ g.from = h.from
      /\ g.new = h.new /\ g.region = h.region /\ g.areas = h.areas /\ g.below = h.below
      /\ g.pinned = h.pinned /\ g.chain = h.chain /\ g.root = R
      /\ g.lost = h.lost /\ g.full = h.full
  BY <1>1 DEF Heaps
<1> HIDE DEF g
<1>3. /\ \A y : /\ Cell(g, y) <=> Cell(h, y)
                /\ Gen(g, y) = Gen(h, y) /\ Mark(g, y) = Mark(h, y)
                /\ InFromSpace(g, y) <=> InFromSpace(h, y)
                /\ Kept(g, y) <=> Kept(h, y)
                /\ g.page[Page(y)].type = h.page[Page(y)].type
      /\ \A k : CellsOf(g, k) = CellsOf(h, k)
      /\ FreeOK(g) /\ SpacesOK(g) /\ RegionsOK(g) /\ GensOK(g) /\ MarksOK(g) /\ AreasOK(g) /\ ScratchOK(g)
  BY <1>2, SamePages DEF Mid
<1>4. \A y : (IsObj(g, y) <=> IsObj(h, y)) /\ (IsFwd(g, y) <=> IsFwd(h, y)) /\ (Target(g, y) <=> Target(h, y))
  BY <1>2, <1>3 DEF IsObj, IsFwd, Target
<1>5. ForwardsOK(g)
  BY <1>2, <1>3, <1>4 DEF Mid, ForwardsOK
<1>6. RefsOK(g)
  BY <1>2, <1>4 DEF Mid, RefsOK
<1>7. PinnedOK(g)
  BY <1>2, <1>3, <1>4 DEF Mid, PinnedOK
<1>8. BytesOK(g)
  BY <1>2, <1>3 DEF Mid, BytesOK
<1>9. CleanOK(g)
  BY <1>2, <1>3, <1>4 DEF Mid, CleanOK
<1>10. ChainOK(g)
  BY <1>2, <1>3, <1>4 DEF Mid, ChainOK
<1>11. Mid(g)
  BY <1>2, <1>3, <1>5, <1>6, <1>7, <1>8, <1>9, <1>10 DEF Mid
<1>12. Movable(g) = Movable(h)
  BY <1>3, <1>4 DEF Movable
<1>13. Sweep(h, g)
  BY <1>2, <1>3, <1>12 DEF Sweep
<1> QED BY <1>2, <1>3, <1>4, <1>11, <1>13 DEF g

\* Where the first n roots lead is saved.
RootsSaved(g, n) ==
  \A i \in 1..n : LET a == g.root[RootSeq[i]]
                  IN  a = Nil \/ (IsObj(g, a) /\ Kept(g, a))

\* The roots are scavenged.
Rooted(h, g, n) ==
  /\ Mid(g) /\ Sweep(h, g)
  /\ g.below = h.below
  /\ h.below = 0 => g.areas = h.areas
  /\ ~g.full => RootsSaved(g, n)

\* scav1 of one root.
LEMMA ScavengeRoot ==
  ASSUME NEW h, Mid(h), NEW g, NEW i \in 1..Cardinality(Roots), Rooted(h, g, i - 1)
  PROVE  LET r == RootSeq[i]
             s == Scav1(g, g.root[r])
         IN  Rooted(h, IF s.heap.full THEN s.heap ELSE [s.heap EXCEPT !.root[r] = s.to], i)
<1> DEFINE r == RootSeq[i]
           a == g.root[r]
           s == Scav1(g, a)
           k == s.heap
           R == [k.root EXCEPT ![r] = s.to]
           e == [k EXCEPT !.root = R]
<1>1. r \in Roots /\ Mid(g) /\ g \in Heaps
  BY RootsOrdered DEF Rooted, Mid
<1>2. Target(g, a)
  BY <1>1 DEF Mid, RefsOK
<1>3. /\ Mid(k) /\ Ext(g, k)
      /\ ~k.full => /\ ~g.full
                    /\ s.to = Nil \/ (IsObj(k, s.to) /\ Kept(k, s.to))
  <2> HIDE DEF a
  <2> QED BY <1>1, <1>2, Scav1OK
<1> HIDE DEF s
<1>4. Work(g, k) /\ k \in Heaps
  BY <1>1, <1>3, ExtWork DEF Mid
<1>5. /\ Sweep(g, k) /\ k.root = g.root /\ k.below = g.below
      /\ g.below = 0 => k.areas = g.areas
  BY <1>4 DEF Work, Grow
<1>6. /\ Sweep(h, k) /\ k.below = h.below
      /\ h.below = 0 => k.areas = h.areas
  BY <1>5, SweepTrans DEF Rooted
<1>7. CASE k.full
  <2>1. Rooted(h, k, i)
    BY <1>3, <1>6, <1>7 DEF Rooted
  <2> QED BY <1>7, <2>1 DEF s
<1>8. CASE ~k.full
  <2>1. s.to \in Addrs \cup {Nil} /\ Target(k, s.to)
    <3>1. s.to = Nil \/ IsObj(k, s.to)
      BY <1>3, <1>8
    <3> QED BY <3>1 DEF Target, IsObj, Cell
  <2>2. /\ R \in [Roots -> Addrs \cup {Nil}]
        /\ \A q \in Roots : R[q] = IF q = r THEN s.to ELSE g.root[q]
    BY <1>1, <1>4, <1>5, <2>1 DEF Heaps
  <2> HIDE DEF R
  <2>3. \A q \in Roots : Target(k, R[q])
    <3>1. \A q \in Roots : Target(k, k.root[q])
      BY <1>3 DEF Mid, RefsOK
    <3> QED BY <1>5, <2>1, <2>2, <3>1
  <2>4. /\ Mid(e) /\ Sweep(k, e) /\ e.root = R /\ e.full = k.full
        /\ e.below = k.below /\ e.areas = k.areas
        /\ \A x : (IsObj(e, x) <=> IsObj(k, x)) /\ (Kept(e, x) <=> Kept(k, x))
    BY <1>3, <2>2, <2>3, RootsOnly
  <2>5. Sweep(h, e)
    <3> HIDE DEF e, k
    <3> QED BY <1>6, <2>4, SweepTrans
  <2>6. RootsSaved(e, i)
    <3> SUFFICES ASSUME NEW j \in 1..i
                 PROVE  LET b == R[RootSeq[j]] IN b = Nil \/ (IsObj(k, b) /\ Kept(k, b))
      BY <2>4 DEF RootsSaved
    <3>0. j \in 1..Cardinality(Roots) /\ RootSeq[j] \in Roots
      BY RootsOrdered
    <3>1. CASE RootSeq[j] = r
      BY <1>3, <1>8, <2>2, <3>0, <3>1
    <3>2. CASE RootSeq[j] # r
      <4> DEFINE b == g.root[RootSeq[j]]
      <4>1. R[RootSeq[j]] = b
        BY <2>2, <3>0, <3>2
      <4>2. j \in 1..(i - 1)
        <5>1. j # i
          BY <3>2
        <5> QED BY <5>1
      <4>3. b = Nil \/ (IsObj(g, b) /\ Kept(g, b))
        BY <1>3, <1>8, <4>2 DEF Rooted, RootsSaved
      <4> HIDE DEF b
      <4>4. b = Nil \/ (IsObj(k, b) /\ Kept(k, b))
        BY <1>1, <1>5, <4>3, KeptStays
      <4> QED BY <4>1, <4>4
    <3> QED BY <3>1, <3>2
  <2> HIDE DEF e
  <2>7. Rooted(h, e, i)
    BY <1>6, <2>4, <2>5, <2>6 DEF Rooted
  <2>8. [k EXCEPT !.root[r] = s.to] = e
    BY DEF e, R
  <2> QED BY <1>8, <2>7, <2>8 DEF s
<1> QED BY <1>7, <1>8 DEF s

\* After that no root leads to from space.
LEMMA ScavengeRootsOK ==
  ASSUME NEW h, Mid(h)
  PROVE  Rooted(h, ScavengeRoots(h), Cardinality(Roots))
<1> DEFINE N == Cardinality(Roots)
           update(s, r)   == IF s.heap.full THEN s.heap ELSE [s.heap EXCEPT !.root[r] = s.to]
           scavenge(g, r) == update(Scav1(g, g.root[r]), r)
           J == [i \in 0..N |-> {g \in Heaps : Rooted(h, g, i)}]
           O == [i \in 1..N |-> [g \in J[i - 1] |-> scavenge(g, RootSeq[i])]]
           Is(f) == f = [i \in 0..N |-> IF i = 0 THEN h ELSE scavenge(f[i - 1], RootSeq[i])]
           F == CHOOSE f : Is(f)
<1>1. N \in Nat /\ Len(RootSeq) = N
  BY RootsOrdered
<1> HIDE DEF N
<1>2. ScavengeRoots(h) = F[N]
  BY <1>1 DEF ScavengeRoots, Fold
<1> HIDE DEF scavenge
<1>3. h \in J[0]
  <2>1. Rooted(h, h, 0)
    BY WorkSame DEF Rooted, RootsSaved
  <2>2. 0 \in 0..N
    BY <1>1
  <2> QED BY <2>1, <2>2 DEF Mid
<1>4. ASSUME NEW i \in 1..N, NEW g \in J[i - 1] PROVE scavenge(g, RootSeq[i]) \in J[i]
  <2> DEFINE k == scavenge(g, RootSeq[i])
  <2>1. Rooted(h, g, i - 1) /\ i \in 0..N /\ i - 1 \in 0..N
    BY <1>1
  <2>2. Rooted(h, k, i)
    <3> HIDE DEF J
    <3> QED BY <2>1, ScavengeRoot DEF scavenge, N
  <2>3. k \in Heaps
    BY <2>2 DEF Rooted, Mid
  <2> QED BY <2>1, <2>2, <2>3
<1>5. \E f : Is(f)
  <2>1. \A i \in 1..N : \A g \in J[i - 1] : O[i][g] = scavenge(g, RootSeq[i]) /\ O[i][g] \in J[i]
    BY <1>4
  <2> HIDE DEF J, O
  <2>2. \E f : Folds(f, N, h, O) /\ \A i \in 0..N : f[i] \in J[i]
    BY <1>1, <1>3, <2>1, Folding
  <2>3. PICK f : /\ f = [i \in 0..N |-> IF i = 0 THEN h ELSE O[i][f[i - 1]]]
                 /\ \A i \in 0..N : f[i] \in J[i]
    BY <2>2 DEF Folds
  <2>4. \A i \in 0..N : i # 0 => O[i][f[i - 1]] = scavenge(f[i - 1], RootSeq[i])
    <3> SUFFICES ASSUME NEW i \in 0..N, i # 0 PROVE O[i][f[i - 1]] = scavenge(f[i - 1], RootSeq[i])
      OBVIOUS
    <3>1. i \in 1..N /\ i - 1 \in 0..N
      BY <1>1
    <3> QED BY <2>1, <2>3, <3>1
  <2>5. Is(f)
    BY <2>3, <2>4
  <2> QED BY <2>5
<1>6. Is(F)
  BY <1>5
<1> HIDE DEF F
<1>7. F[0] = h /\ \A i \in 1..N : F[i] = scavenge(F[i - 1], RootSeq[i])
  BY <1>1, <1>6
<1>8. \A i \in 0..N : F[i] \in J[i]
  <2> HIDE DEF J, Is
  <2> QED BY <1>1, <1>3, <1>4, <1>7, Folded
<1>9. F[N] \in J[N]
  BY <1>1, <1>8
<1>10. Rooted(h, F[N], N)
  BY <1>1, <1>9
<1> QED BY <1>2, <1>10 DEF N

------------------------------------------------------------------------------
(* scavenge_root_gens.                                                      *)

\* A card is cleaned.
LEMMA ClearMark ==
  ASSUME NEW h, Mid(h), NEW s, Mid(s), Work(h, s), NEW p \in Pages,
         h.page[p].mark # "sticky", s.page[p].type # "free",
         s.page[p].gen # s.from, s.page[p].gen # s.new, s.page[p].gen # Scratch,
         \A x \in Addrs : IsObj(s, x) /\ Page(x) = p =>
           LET r == s.word[x].ref
           IN  r = Nil \/ (s.page[p].gen <= Gen(s, r) /\ Gen(s, r) <= Oldest)
  PROVE  LET g == [s EXCEPT !.page[p].mark = "clear"]
         IN  /\ Mid(g) /\ Work(h, g) /\ g.full = s.full
             /\ Unclean(g) = Unclean(s) /\ \A b : Due(g, b) = Due(s, b)
<1> DEFINE c == [s.page[p] EXCEPT !.mark = "clear"]
           P == [s.page EXCEPT ![p] = c]
           g == [s EXCEPT !.page = P]
<1>1. s \in Heaps
  BY DEF Mid
<1>2. s.page[p] \in [type : PageTypes, gen : Generations, mark : Marks, fill : 0..Cap]
  BY <1>1, PageType
<1>3. /\ c \in [type : PageTypes, gen : Generations, mark : Marks, fill : 0..Cap]
      /\ c.type = s.page[p].type /\ c.gen = s.page[p].gen /\ c.fill = s.page[p].fill
      /\ c.mark = "clear"
  BY <1>2 DEF Marks
<1> HIDE DEF c
<1>4. /\ P \in [Pages -> [type : PageTypes, gen : Generations, mark : Marks, fill : 0..Cap]]
      /\ P[p] = c /\ \A q \in Pages : q # p => P[q] = s.page[q]
  BY <1>1, <1>3 DEF Heaps
<1> HIDE DEF P
<1>5. /\ g \in Heaps
      /\ g.page = P /\ g.word = s.word /\ g.bytes = s.bytes /\ g.from = s.from
      /\ g.new = s.new /\ g.region = s.region /\ g.areas = s.areas /\ g.below = s.below
      /\ g.pinned = s.pinned /\ g.chain = s.chain /\ g.root = s.root
      /\ g.lost = s.lost /\ g.full = s.full
  BY <1>1, <1>4 DEF Heaps
<1> HIDE DEF g
<1>6. \A q \in Pages : /\ g.page[q].type = s.page[q].type /\ g.page[q].gen = s.page[q].gen
                       /\ g.page[q].fill = s.page[q].fill
                       /\ q # p => g.page[q] = s.page[q]
  BY <1>3, <1>4, <1>5
<1>7. \A q \in Pages : Used(g, q) = Used(s, q)
  <2> SUFFICES ASSUME NEW q \in Pages PROVE Used(g, q) = Used(s, q)
    OBVIOUS
  <2>1. g.page[q].fill = s.page[q].fill /\ g.region = s.region
    BY <1>5, <1>6
  <2> QED BY <2>1 DEF Used, Open
<1>8. /\ \A x \in Addrs : /\ Gen(g, x) = Gen(s, x)
                          /\ g.page[Page(x)].type = s.page[Page(x)].type
                          /\ Used(g, Page(x)) = Used(s, Page(x))
                          /\ Page(x) # p => Mark(g, x) = Mark(s, x)
      /\ \A x : Cell(g, x) <=> Cell(s, x)
  BY <1>6, <1>7, PageSlot DEF Gen, Cell, Mark
<1>9. /\ \A x : (IsObj(g, x) <=> IsObj(s, x)) /\ (IsFwd(g, x) <=> IsFwd(s, x)) /\ (Target(g, x) <=> Target(s, x))
      /\ \A x \in Addrs : (InFromSpace(g, x) <=> InFromSpace(s, x)) /\ (Kept(g, x) <=> Kept(s, x))
      /\ \A x : Kept(g, x) <=> Kept(s, x)
  BY <1>5, <1>8 DEF IsObj, IsFwd, Target, InFromSpace, Kept, Gen, Cell
<1>10. \A k : CellsOf(g, k) = CellsOf(s, k)
  BY <1>8 DEF CellsOf
<1>11. \A b : Due(g, b) = Due(s, b)
  BY <1>5, <1>8 DEF Due
<1>12. \A x \in Addrs : Page(x) = p => Gen(s, x) = s.page[p].gen
  BY DEF Gen
<1>20. FreeOK(g)
  BY <1>6 DEF Mid, FreeOK
<1>21. SpacesOK(g)
  BY <1>5 DEF Mid, SpacesOK
<1>22. RegionsOK(g)
  <2> SUFFICES ASSUME NEW t \in Regions, s.region[t] # Closed, NEW q, q = s.region[t].page
               PROVE  /\ q # 0 /\ g.page[q].type = t /\ g.page[q].gen = g.new
                      /\ g.page[q].mark = "marked" /\ s.region[t].start <= g.page[q].fill
    BY <1>5 DEF RegionsOK
  <2>1. /\ q # 0 /\ s.page[q].type = t /\ s.page[q].gen = s.new
        /\ s.page[q].mark = "marked" /\ s.region[t].start <= s.page[q].fill
    BY DEF Mid, RegionsOK
  <2>2. q \in Pages /\ q # p
    BY <1>1, <2>1, RegionType
  <2> QED BY <1>5, <1>6, <2>1, <2>2
<1>23. ForwardsOK(g)
  <2> SUFFICES ASSUME NEW a \in Addrs, IsFwd(s, a)
               PROVE  /\ InFromSpace(s, a) /\ s.page[Page(a)].type # "large"
                      /\ IsObj(s, s.word[a].to) /\ Gen(g, s.word[a].to) = s.new
    BY <1>5, <1>8, <1>9 DEF ForwardsOK
  <2>1. /\ InFromSpace(s, a) /\ s.page[Page(a)].type # "large"
        /\ IsObj(s, s.word[a].to) /\ Gen(s, s.word[a].to) = s.new
    BY DEF Mid, ForwardsOK
  <2> QED BY <1>8, <2>1 DEF IsObj, Cell
<1>24. RefsOK(g)
  BY <1>5, <1>9 DEF Mid, RefsOK
<1>25. PinnedOK(g)
  BY <1>1, <1>5, <1>8, <1>9 DEF Mid, PinnedOK, IsObj, Cell
<1>26. ChainOK(g)
  <2> SUFFICES ASSUME NEW x \in s.chain
               PROVE  /\ IsObj(s, x) /\ Kept(s, x) /\ s.word[x].weak
                      /\ LET r == s.word[x].ref IN
                         r # Nil /\ Gen(g, r) \in {s.from, s.new} /\ r \notin s.pinned
    BY <1>5, <1>9 DEF ChainOK
  <2> DEFINE r == s.word[x].ref
  <2>1. /\ IsObj(s, x) /\ Kept(s, x) /\ s.word[x].weak
        /\ r # Nil /\ Gen(s, r) \in {s.from, s.new} /\ r \notin s.pinned
    BY DEF Mid, ChainOK
  <2>2. r \in Addrs
    BY <2>1 DEF Mid, RefsOK, Target, Cell, IsObj
  <2> QED BY <1>8, <2>1, <2>2
<1>27. GensOK(g)
  BY <1>5, <1>8 DEF Mid, GensOK
<1>28. BytesOK(g)
  BY <1>5, <1>10 DEF Mid, BytesOK
<1>29. CleanOK(g)
  <2> SUFFICES ASSUME NEW x \in Addrs, IsObj(s, x), Gen(s, x) # s.from, Mark(g, x) = "clear",
                      NEW r, r = s.word[x].ref, r # Nil
               PROVE  Gen(s, x) <= Gen(g, r) /\ Gen(g, r) <= Oldest
    BY <1>5, <1>8, <1>9 DEF CleanOK
  <2>1. r \in Addrs
    BY DEF Mid, RefsOK, Target, Cell
  <2>2. Gen(g, r) = Gen(s, r)
    BY <1>8, <2>1
  <2>3. CASE Page(x) = p
    BY <1>12, <2>2, <2>3
  <2>4. CASE Page(x) # p
    BY <1>8, <2>2, <2>4 DEF Mid, CleanOK
  <2> QED BY <2>3, <2>4
<1>30. MarksOK(g)
  <2> SUFFICES ASSUME NEW a \in Addrs, Cell(s, a), Gen(s, a) \in {s.from, Scratch}
               PROVE  Mark(g, a) # "clear"
    BY <1>5, <1>8 DEF MarksOK
  <2>1. Page(a) # p
    BY <1>12
  <2> QED BY <1>8, <2>1 DEF Mid, MarksOK
<1>31. AreasOK(g)
  BY <1>5, <1>8 DEF Mid, AreasOK, Cell
<1>32. ScratchOK(g)
  BY <1>5, <1>6 DEF Mid, ScratchOK
<1>33. Mid(g)
  BY <1>5, <1>20, <1>21, <1>22, <1>23, <1>24, <1>25, <1>26, <1>27, <1>28, <1>29, <1>30, <1>31, <1>32 DEF Mid
<1>40. Movable(g) = Movable(s)
  BY <1>9 DEF Movable
<1>41. Unclean(g) = Unclean(s)
  <2>1. \A x \in Addrs : IsObj(s, x) => s.word[x].ref = Nil \/ s.word[x].ref \in Addrs
    BY DEF Mid, RefsOK, Target, Cell
  <2> QED BY <1>5, <1>9, <2>1 DEF Unclean
<1>42. Sweep(h, g)
  <2>1. Sweep(h, s)
    BY DEF Work, Grow
  <2>2. /\ g.from = h.from /\ g.new = h.new /\ g.pinned = h.pinned /\ g.lost = h.lost
        /\ h.full => g.full
    BY <1>5, <2>1 DEF Sweep
  <2>3. ASSUME NEW a \in Addrs, Cell(h, a), Mark(h, a) = "sticky" PROVE Mark(g, a) = "sticky"
    BY <1>8, <2>1, <2>3 DEF Sweep, Mark
  <2>4. ASSUME NEW a \in Addrs, Cell(h, a)
        PROVE  /\ Cell(g, a)
               /\ \/ Gen(g, a) = Gen(h, a)
                  \/ (Gen(h, a) = h.from /\ Gen(g, a) = h.new)
               /\ g.page[Page(a)].type = h.page[Page(a)].type
               /\ Kept(h, a) => /\ g.word[a].tag = h.word[a].tag
                                /\ IsObj(h, a) => g.word[a].weak = h.word[a].weak
               /\ Fixed(h, a) => g.word[a].ref = h.word[a].ref
    BY <1>5, <1>8, <2>1, <2>4 DEF Sweep
  <2>5. \A a \in Addrs : Cell(g, a) /\ ~Cell(h, a) => Gen(g, a) = h.new
    BY <1>8, <2>1 DEF Sweep
  <2>6. Movable(g) \subseteq Movable(h)
    BY <1>40, <2>1 DEF Sweep
  <2> QED BY <2>2, <2>3, <2>4, <2>5, <2>6 DEF Sweep
<1>43. Work(h, g)
  BY <1>5, <1>11, <1>40, <1>41, <1>42 DEF Work, Grow
<1>44. [s EXCEPT !.page[p].mark = "clear"] = g
  BY DEF g, P, c
<1> QED BY <1>5, <1>11, <1>33, <1>41, <1>43, <1>44

\* The objects of page p.
OnPage(h, p) == {x \in Addrs : Page(x) = p /\ Slot(x) <= h.page[p].fill}

\* The cells that a page is scavenged for.
LEMMA PageCells ==
  ASSUME NEW p \in Pages, NEW n \in Nat, n <= Cap, NEW x
  PROVE  x \in {Addr(p, i) : i \in 1..n} <=> x \in Addrs /\ Page(x) = p /\ Slot(x) <= n
<1>1. ASSUME x \in {Addr(p, i) : i \in 1..n} PROVE x \in Addrs /\ Page(x) = p /\ Slot(x) <= n
  <2>1. PICK i \in 1..n : x = Addr(p, i)
    BY <1>1
  <2>2. i \in 1..Cap /\ i <= n
    BY <2>1, GencgcAssumption
  <2> QED BY <2>1, <2>2, AddrOf
<1>2. ASSUME x \in Addrs, Page(x) = p, Slot(x) <= n PROVE x \in {Addr(p, i) : i \in 1..n}
  <2>1. Slot(x) \in 1..n /\ Addr(p, Slot(x)) = x
    BY <1>2, PageSlot
  <2> QED BY <2>1
<1> QED BY <1>1, <1>2

\* A page of an older generation is not open.
LEMMA NotOpen ==
  ASSUME NEW h, Mid(h), NEW p \in Pages, h.page[p].gen # h.new
  PROVE  ~Open(h, p) /\ Used(h, p) = h.page[p].fill
<1>1. ~Open(h, p)
  <2> SUFFICES ASSUME NEW t \in Regions, h.region[t].page = p PROVE FALSE
    BY DEF Open, Regions
  <2>1. h.region[t] # Closed
    BY NilFacts DEF Closed
  <2> QED BY <2>1 DEF Mid, RegionsOK
<1> QED BY <1>1, UsedClosed

\* scan_boxed_root_cards_non_spanning and scan_mixed_root_cards.
LEMMA ScavengeCardOK ==
  ASSUME NEW h, Mid(h), NEW p \in Pages, Used(h, p) # 0,
         h.page[p].gen > h.from, h.page[p].gen <= Oldest, h.page[p].gen # h.new
  PROVE  Swept(h, ScavengeCard(h, p), OnPage(h, p))
<1> DEFINE G == h.page[p].gen
           s == ScavengePage(h, p)
           X == OnPage(h, p)
           g == [s EXCEPT !.page[p].mark = "clear"]
           large == DirtyDescriptors(h, p)
           mixed == DirtyRange(s, p)
           dirty == IF h.page[p].type = "mixed" THEN mixed ELSE large
<1>1. /\ h \in Heaps /\ Mid(h) /\ h.from \in Int /\ h.new \in Int
      /\ G \in Int /\ G > h.from /\ G <= Oldest /\ G # h.new /\ Oldest \in Nat
      /\ h.page[p].fill \in Nat /\ h.page[p].fill <= Cap
  BY SpacesDiffer, PageType, GencgcAssumption DEF Mid, Generations, Scratch
<1>2. ~Open(h, p) /\ Used(h, p) = h.page[p].fill /\ h.page[p].fill # 0
  BY NotOpen
<1>3. \A x \in Addrs : Page(x) = p /\ Slot(x) <= h.page[p].fill
                       => Cell(h, x) /\ Gen(h, x) = G /\ Kept(h, x)
  <2> SUFFICES ASSUME NEW x \in Addrs, Page(x) = p, Slot(x) <= h.page[p].fill
               PROVE  Cell(h, x) /\ Gen(h, x) = G /\ Kept(h, x)
    OBVIOUS
  <2>1. Cell(h, x) /\ Gen(h, x) = G
    BY DEF Cell, Gen
  <2>2. G # h.from
    BY <1>1
  <2> QED BY <2>1, <2>2, NewKept
<1>4. Swept(h, s, X)
  <2> HIDE DEF G
  <2>1. Swept(h, s, {x \in Addrs : Page(x) = p /\ Slot(x) <= Used(h, p)})
    BY <1>2, <1>3, ScavengePageOK
  <2> QED BY <1>2, <2>1 DEF OnPage
<1> HIDE DEF s
<1>5. Mid(s) /\ Work(h, s) /\ Sweep(h, s) /\ s.from = h.from /\ s.new = h.new
  BY <1>4 DEF Swept, Work, Grow, Sweep
<1>6. PICK b \in Addrs : Page(b) = p /\ Cell(h, b)
  <2>1. 1 \in 1..Cap /\ 1 <= h.page[p].fill
    BY <1>1, <1>2, GencgcAssumption
  <2>2. Addr(p, 1) \in Addrs /\ Page(Addr(p, 1)) = p /\ Slot(Addr(p, 1)) = 1
    BY <2>1, AddrOf
  <2> QED BY <2>1, <2>2 DEF Cell
<1>7. /\ s.page[p].gen = G /\ s.page[p].type = h.page[p].type
      /\ Cell(s, b) /\ s.page[p].fill \in Nat /\ s.page[p].fill <= Cap
  <2>1. /\ Cell(s, b) /\ s.page[p].type = h.page[p].type
        /\ s.page[p].gen = h.page[p].gen \/ h.page[p].gen = h.from
    BY <1>5, <1>6 DEF Sweep, Gen
  <2>2. s.page[p].gen = G
    BY <1>1, <2>1
  <2>3. s \in Heaps
    BY <1>5 DEF Mid
  <2> QED BY <2>1, <2>2, <2>3, PageType
<1>8. s.page[p].type # "free"
  <2> SUFFICES ASSUME s.page[p].type = "free" PROVE FALSE
    OBVIOUS
  <2>1. s.page[p].fill = 0
    BY <1>5 DEF Mid, FreeOK, FreePage
  <2>2. Slot(b) \in Nat /\ Slot(b) >= 1 /\ Slot(b) <= s.page[p].fill
    BY <1>6, <1>7, PageSlot DEF Cell
  <2> QED BY <2>1, <2>2
<1>9. s.page[p].gen # s.from /\ s.page[p].gen # s.new /\ s.page[p].gen # Scratch
  <2>1. G # h.from /\ G # Scratch
    BY <1>1 DEF Scratch
  <2> QED BY <1>1, <1>5, <1>7, <2>1
<1>10. Used(s, p) = s.page[p].fill /\ ~Open(s, p)
  BY <1>5, <1>9, NotOpen
<1>11. ASSUME ~dirty, NEW x \in Addrs, IsObj(s, x), Page(x) = p, NEW r, r = s.word[x].ref, r # Nil
       PROVE  G <= Gen(s, r) /\ Gen(s, r) <= Oldest
  <2>0. Cell(s, x) /\ Slot(x) <= s.page[p].fill /\ s.word[x].tag = "object"
    BY <1>11 DEF IsObj, Cell
  <2>1. r \in Addrs /\ Cell(s, r) /\ s.page[Page(r)].gen \in Int /\ s.page[Page(r)].gen <= Scratch
    <3>1. r \in Addrs /\ Cell(s, r) /\ s \in Heaps
      BY <1>5, <1>11 DEF Mid, RefsOK, Target, Cell
    <3>2. s.page[Page(r)].gen \in Generations
      BY <3>1, PageSlot, PageType
    <3> QED BY <1>1, <3>1, <3>2 DEF Generations, Scratch
  <2>2. CASE h.page[p].type = "mixed"
    <3>1. x \in {Addr(p, i) : i \in 1..Used(s, p)}
      BY <1>7, <1>10, <1>11, <2>0, PageCells
    <3>2. PointerOk(s, r, G)
      BY <1>7, <1>11, <2>0, <2>2, <3>1 DEF DirtyRange, At
    <3>3. Open(s, Page(r)) \/ InUse(s, r)
      <4> SUFFICES ASSUME ~Open(s, Page(r)) PROVE InUse(s, r)
        OBVIOUS
      <4>1. Used(s, Page(r)) = s.page[Page(r)].fill
        BY UsedClosed
      <4>2. s.page[Page(r)].type # "free"
        <5> SUFFICES ASSUME s.page[Page(r)].type = "free" PROVE FALSE
          OBVIOUS
        <5>1. s.page[Page(r)].fill = 0
          BY <1>5, <2>1, PageSlot DEF Mid, FreeOK, FreePage
        <5>2. Slot(r) \in Nat /\ Slot(r) >= 1 /\ Slot(r) <= s.page[Page(r)].fill
          BY <2>1, PageSlot DEF Cell
        <5> QED BY <5>1, <5>2
      <4> QED BY <1>11, <2>1, <4>1, <4>2 DEF InUse, Cell
    <3>4. ~(s.page[Page(r)].gen < G \/ s.page[Page(r)].gen = Scratch)
      BY <3>2, <3>3 DEF PointerOk
    <3> HIDE DEF G
    <3> QED BY <1>1, <2>1, <3>4 DEF Gen, Scratch
  <2>3. CASE h.page[p].type # "mixed"
    <3>1. Cell(h, x)
      <4>1. Gen(s, x) # h.new
        BY <1>5, <1>9, <1>11 DEF Gen
      <4> QED BY <1>5, <2>0, <4>1 DEF Sweep
    <3>2. Kept(h, x) /\ Slot(x) <= h.page[p].fill
      BY <1>3, <1>11, <3>1 DEF Cell
    <3>3. IsObj(h, x)
      BY <1>5, <1>11, <3>2, KeptStays
    <3> DEFINE q == h.word[x].ref
    <3>4. q = Nil \/ (q \in Addrs /\ Cell(h, q))
      BY <3>3 DEF Mid, RefsOK, Target, Cell
    <3>5. q = Nil \/ (h.page[Page(q)].gen # h.from /\ h.page[Page(q)].gen >= G /\ h.page[Page(q)].gen <= Oldest)
      <4> SUFFICES ASSUME q # Nil
                   PROVE  h.page[Page(q)].gen # h.from /\ h.page[Page(q)].gen >= G /\ h.page[Page(q)].gen <= Oldest
        OBVIOUS
      <4> DEFINE raw == h.page[Page(q)].gen
                 n == IF raw = h.from THEN h.new ELSE raw
      <4>1. x \in {Addr(p, i) : i \in 1..Used(h, p)}
        BY <1>1, <1>2, <1>11, <3>2, PageCells
      <4>2. ~(n < G \/ n = Scratch)
        BY <1>11, <2>3, <3>3, <4>1 DEF DirtyDescriptors, At, IsObj
      <4>3. raw \in Int /\ raw <= Scratch
        <5>1. raw \in Generations
          BY <3>4, PageSlot, PageType, <1>1
        <5> QED BY <1>1, <5>1 DEF Generations, Scratch
      <4>4. raw # h.from
        <5> SUFFICES ASSUME raw = h.from PROVE FALSE
          OBVIOUS
        <5>1. n = h.new
          OBVIOUS
        <5>2. h.new = h.from + 1
          BY <4>2, <5>1 DEF Mid, SpacesOK
        <5> HIDE DEF n, raw, G
        <5> QED BY <1>1, <4>2, <5>1, <5>2
      <4>5. n = raw
        BY <4>4
      <4> HIDE DEF n, raw, G
      <4>6. raw # h.from /\ raw >= G /\ raw <= Oldest
        BY <1>1, <4>2, <4>3, <4>4, <4>5 DEF Scratch
      <4> QED BY <4>6 DEF raw
    <3>6. Fixed(h, x)
      BY <3>2, <3>3, <3>5 DEF Fixed, Gen
    <3>7. r = q
      BY <1>5, <1>11, <3>1, <3>6 DEF Sweep
    <3>8. Gen(s, r) = Gen(h, r)
      BY <1>5, <1>11, <3>4, <3>5, <3>7 DEF Sweep, Gen
    <3> QED BY <1>11, <3>5, <3>7, <3>8 DEF Gen
  <2> QED BY <2>2, <2>3
<1>12. ScavengeCard(h, p) = IF dirty \/ h.page[p].mark = "sticky" THEN s ELSE g
  BY DEF ScavengeCard, s
<1> HIDE DEF large, mixed
<1>13. CASE dirty \/ h.page[p].mark = "sticky"
  BY <1>4, <1>12, <1>13
<1>14. CASE ~(dirty \/ h.page[p].mark = "sticky")
  <2>1. \A x \in Addrs : IsObj(s, x) /\ Page(x) = p =>
          LET r == s.word[x].ref
          IN  r = Nil \/ (s.page[p].gen <= Gen(s, r) /\ Gen(s, r) <= Oldest)
    <3> HIDE DEF dirty, G
    <3> QED BY <1>7, <1>11, <1>14
  <2> HIDE DEF dirty, G
  <2>2. /\ Mid(g) /\ Work(h, g) /\ g.full = s.full
        /\ Unclean(g) = Unclean(s) /\ \A i : Due(g, i) = Due(s, i)
    BY <1>5, <1>8, <1>9, <1>14, <2>1, ClearMark
  <2> HIDE DEF g
  <2>3. Swept(h, g, X)
    BY <1>4, <2>2 DEF Swept
  <2> QED BY <1>12, <1>14, <2>3
<1> QED BY <1>13, <1>14

\* A page with a cell is in use.
LEMMA CellPage ==
  ASSUME NEW h, Mid(h), NEW x, Cell(h, x)
  PROVE  /\ x \in Addrs /\ Page(x) \in Pages /\ h.page[Page(x)].type # "free"
         /\ h.page[Page(x)].fill # 0
         /\ Gen(h, x) \in Int /\ h.from <= Gen(h, x) /\ Gen(h, x) <= Scratch
         /\ Gen(h, x) = Scratch => h.new = Scratch
<1>1. x \in Addrs /\ Page(x) \in Pages /\ Slot(x) \in 1..Cap /\ Slot(x) <= h.page[Page(x)].fill
  BY PageSlot DEF Cell
<1>2. h.page[Page(x)].fill \in Nat /\ h.page[Page(x)].gen \in 0..Scratch
  BY <1>1, PageType DEF Mid, Generations
<1>3. h.page[Page(x)].fill # 0
  BY <1>1, <1>2
<1>4. h.page[Page(x)].type # "free"
  BY <1>1, <1>3 DEF Mid, FreeOK, FreePage
<1>5. Gen(h, x) \in Int /\ Gen(h, x) <= Scratch
  BY <1>2, GencgcAssumption DEF Gen, Scratch
<1>6. h.from <= Gen(h, x) /\ (Gen(h, x) = Scratch => h.new = Scratch)
  BY <1>1, <1>5, SpacesDiffer DEF Mid, GensOK, Generations
<1> QED BY <1>1, <1>3, <1>4, <1>5, <1>6

\* The pages that hold roots are of the generations from F on.
RootsFrom(h, F) == \/ h.new = h.from + 1 /\ F = h.from + 2
                   \/ h.new = Scratch /\ F = h.from + 1

\* A page of scavenge_root_gens.
LEMMA ScavengeRootPage ==
  ASSUME NEW h, Mid(h), h.below = 0, NEW F, RootsFrom(h, F), NEW p \in Pages
  PROVE  LET g == IF /\ h.page[p].type # "free" /\ h.page[p].gen \in F..Oldest
                     /\ Used(h, p) # 0 /\ h.page[p].mark # "clear"
                  THEN ScavengeCard(h, p) ELSE h
         IN  Swept(h, g, {x \in Addrs : Page(x) = p} \ h.pinned)
<1> DEFINE C == /\ h.page[p].type # "free" /\ h.page[p].gen \in F..Oldest
                /\ Used(h, p) # 0 /\ h.page[p].mark # "clear"
           X == {x \in Addrs : Page(x) = p} \ h.pinned
<1>1. h.from \in Nat /\ h.from <= Oldest /\ Oldest \in Nat /\ F \in Int /\ F > h.from /\ h.new \notin F..Oldest
  BY GencgcAssumption DEF Mid, SpacesOK, RootsFrom, Scratch
<1>2. CASE C
  <2> DEFINE k == ScavengeCard(h, p)
  <2>1. h.page[p].gen > h.from /\ h.page[p].gen <= Oldest /\ h.page[p].gen # h.new /\ Used(h, p) # 0
    BY <1>1, <1>2
  <2>2. Swept(h, k, OnPage(h, p))
    BY <2>1, ScavengeCardOK
  <2> HIDE DEF k
  <2>3. ASSUME ~k.full, NEW x \in X, x \in Unclean(k) PROVE x \in Due(k, h.below)
    <3>1. CASE x \in OnPage(h, p)
      BY <2>2, <2>3, <3>1 DEF Swept
    <3>2. CASE x \notin OnPage(h, p)
      <4>1. ~Cell(h, x) /\ Cell(k, x) /\ x \in Addrs
        BY <2>3, <3>2 DEF OnPage, Cell, Unclean, IsObj
      <4>2. Sweep(h, k)
        BY <2>2 DEF Swept, Work, Grow
      <4>3. Gen(k, x) = k.new
        BY <4>1, <4>2 DEF Sweep
      <4>4. Page(x) >= 0
        BY <4>1, PageSlot DEF Pages
      <4> QED BY <4>1, <4>3, <4>4 DEF Due
    <3> QED BY <3>1, <3>2
  <2>4. Swept(h, k, X)
    BY <2>2, <2>3 DEF Swept
  <2> QED BY <1>2, <2>4 DEF k
<1>3. CASE ~C
  <2>1. ASSUME NEW x \in X, x \in Unclean(h) PROVE x \in Due(h, h.below)
    <3>1. x \in Addrs /\ Page(x) = p /\ x \notin h.pinned /\ IsObj(h, x) /\ Kept(h, x) /\ Cell(h, x)
          /\ h.word[x].ref # Nil /\ InFromSpace(h, h.word[x].ref)
      BY <2>1 DEF Unclean, IsObj
    <3>2. Gen(h, x) # h.from
      BY <3>1 DEF Kept, InFromSpace, Gen
    <3>3. CASE Gen(h, x) = h.new
      <4>1. Page(x) >= 0
        BY <3>1 DEF Pages
      <4> QED BY <3>1, <3>3, <4>1 DEF Due
    <3>4. CASE Gen(h, x) # h.new
      <4>1. /\ h.page[p].type # "free" /\ h.page[p].fill # 0 /\ Gen(h, x) = h.page[p].gen
            /\ Gen(h, x) \in Int /\ h.from <= Gen(h, x) /\ Gen(h, x) <= Scratch
            /\ Gen(h, x) = Scratch => h.new = Scratch
        BY <3>1, CellPage DEF Gen
      <4>2. Used(h, p) # 0
        BY <3>4, <4>1, NotOpen
      <4>3. Gen(h, x) >= F /\ Gen(h, x) <= Oldest
        BY <1>1, <3>2, <3>4, <4>1 DEF RootsFrom, Scratch
      <4>4. Mark(h, x) = "clear"
        BY <1>1, <1>3, <3>1, <4>1, <4>2, <4>3 DEF Mark
      <4>5. Gen(h, h.word[x].ref) # h.from
        BY <3>1, <3>2, <4>4, CleanFrom
      <4> QED BY <3>1, <4>5 DEF InFromSpace, Gen
    <3> QED BY <3>3, <3>4
  <2>2. Swept(h, h, X)
    BY <2>1, WorkSame DEF Swept
  <2> QED BY <1>3, <2>2
<1> QED BY <1>2, <1>3

\* scavenge_root_gens.
LEMMA ScavengeRootGensOK ==
  ASSUME NEW h, Mid(h), h.below = 0, NEW from, RootsFrom(h, from)
  PROVE  Swept(h, ScavengeRootGens(h, from), Addrs \ h.pinned)
<1> DEFINE scavenge(g, p) ==
             IF /\ g.page[p].type # "free" /\ g.page[p].gen \in from..Oldest
                /\ Used(g, p) # 0 /\ g.page[p].mark # "clear"
             THEN ScavengeCard(g, p) ELSE g
           s    == [p \in Pages |-> p]
           n    == NPages
           X(i) == {x \in Addrs : Page(x) <= i} \ h.pinned
           J == [i \in 0..n |-> {g \in Heaps : Swept(h, g, X(i))}]
           O == [i \in 1..n |-> [g \in J[i - 1] |-> scavenge(g, s[i])]]
           Is(f) == f = [i \in 0..n |-> IF i = 0 THEN h ELSE scavenge(f[i - 1], s[i])]
           F == CHOOSE f : Is(f)
<1>0. n \in Nat /\ Pages = 1..n
  BY GencgcAssumption DEF Pages
<1> HIDE DEF n
<1>1. Len(s) = n /\ \A i \in 1..n : s[i] = i
  BY <1>0
<1>2. ScavengeRootGens(h, from) = F[n]
  BY <1>1 DEF ScavengeRootGens, EachPage, Fold
<1> HIDE DEF s, scavenge
<1>3. h \in J[0]
  <2>1. X(0) = {}
    BY PageSlot DEF Pages
  <2> HIDE DEF X
  <2>2. 0 \in 0..n
    BY <1>0
  <2> QED BY <2>1, <2>2, SweptNone DEF Mid
<1>4. ASSUME NEW i \in 1..n, NEW g \in J[i - 1] PROVE scavenge(g, s[i]) \in J[i]
  <2> DEFINE k == scavenge(g, i)
             Y == {x \in Addrs : Page(x) = i} \ g.pinned
  <2>0. i \in 0..n /\ i - 1 \in 0..n /\ i \in Pages
    BY <1>0
  <2>1. Swept(h, g, X(i - 1))
    BY <2>0
  <2>2. Mid(g) /\ g.below = 0 /\ g.from = h.from /\ g.new = h.new /\ g.pinned = h.pinned
    BY <2>1 DEF Swept, Work, Grow, Sweep
  <2>3. RootsFrom(g, from)
    BY <2>2 DEF RootsFrom
  <2>4. Swept(g, k, Y)
    <3> HIDE DEF J, X
    <3> QED BY <2>0, <2>2, <2>3, ScavengeRootPage DEF scavenge
  <2>5. X(i) = X(i - 1) \cup Y
    <3>1. \A x \in Addrs : Page(x) \in Int
      BY PageSlot DEF Pages
    <3>2. \A x \in Addrs : Page(x) <= i <=> Page(x) <= i - 1 \/ Page(x) = i
      BY <1>0, <3>1
    <3> QED BY <2>2, <3>2
  <2> HIDE DEF X, Y, k
  <2>6. Swept(h, k, X(i))
    <3>1. Swept(h, k, X(i - 1) \cup Y)
      BY <2>1, <2>4, SweptTrans
    <3> QED BY <2>5, <3>1
  <2>7. k \in Heaps
    BY <2>6 DEF Swept, Mid
  <2>8. k \in J[i]
    BY <2>0, <2>6, <2>7
  <2>9. s[i] = i
    BY <1>1
  <2> QED BY <2>8, <2>9 DEF k
<1>5. \E f : Is(f)
  <2>1. \A i \in 1..n : \A g \in J[i - 1] : O[i][g] = scavenge(g, s[i]) /\ O[i][g] \in J[i]
    BY <1>4
  <2> HIDE DEF J, O
  <2>2. \E f : Folds(f, n, h, O) /\ \A i \in 0..n : f[i] \in J[i]
    BY <1>0, <1>3, <2>1, Folding
  <2>3. PICK f : /\ f = [i \in 0..n |-> IF i = 0 THEN h ELSE O[i][f[i - 1]]]
                 /\ \A i \in 0..n : f[i] \in J[i]
    BY <2>2 DEF Folds
  <2>4. \A i \in 0..n : i # 0 => O[i][f[i - 1]] = scavenge(f[i - 1], s[i])
    <3> SUFFICES ASSUME NEW i \in 0..n, i # 0 PROVE O[i][f[i - 1]] = scavenge(f[i - 1], s[i])
      OBVIOUS
    <3>1. i \in 1..n /\ i - 1 \in 0..n
      BY <1>0
    <3> QED BY <2>1, <2>3, <3>1
  <2>5. Is(f)
    BY <2>3, <2>4
  <2> QED BY <2>5
<1>6. Is(F)
  BY <1>5
<1> HIDE DEF F
<1>7. F[0] = h /\ \A i \in 1..n : F[i] = scavenge(F[i - 1], s[i])
  BY <1>0, <1>6
<1>8. \A i \in 0..n : F[i] \in J[i]
  <2> HIDE DEF J, Is, O, X
  <2>1. F[0] \in J[0]
    BY <1>3, <1>7
  <2>2. \A i \in 1..n : F[i - 1] \in J[i - 1] => F[i] \in J[i]
    BY <1>4, <1>7
  <2> QED BY <1>0, <2>1, <2>2, Folded
<1>9. F[n] \in J[n]
  BY <1>0, <1>8
<1>10. Swept(h, F[n], X(n))
  <2> HIDE DEF X
  <2> QED BY <1>0, <1>9
<1>11. X(n) = Addrs \ h.pinned
  BY <1>0, PageSlot
<1> HIDE DEF X
<1> QED BY <1>2, <1>10, <1>11

------------------------------------------------------------------------------
(* scavenge_pinned_ranges.                                                  *)

\* scavenge_pinned_ranges.
LEMMA ScavengePinnedOK ==
  ASSUME NEW h, Mid(h)
  PROVE  Swept(h, ScavengePinned(h), h.pinned)
<1> DEFINE scavenge(g, a) == IF a \in g.pinned THEN Scavenge(g, a) ELSE g
           n    == NPages * Cap
           X(i) == {x \in h.pinned : x <= i}
           J == [i \in 0..n |-> {g \in Heaps : Swept(h, g, X(i))}]
           O == [i \in 1..n |-> [g \in J[i - 1] |-> scavenge(g, AddrSeq[i])]]
           Is(f) == f = [i \in 0..n |-> IF i = 0 THEN h ELSE scavenge(f[i - 1], AddrSeq[i])]
           F == CHOOSE f : Is(f)
<1>0. n \in Nat /\ Addrs = 1..n /\ Len(AddrSeq) = n /\ \A i \in 1..n : AddrSeq[i] = i
  BY SeqOfAddrs DEF Addrs, AddrSeq
<1> HIDE DEF n
<1>2. ScavengePinned(h) = F[n]
  BY <1>0 DEF ScavengePinned, EachAddr, Fold
<1> HIDE DEF scavenge
<1>p. h.pinned \subseteq Addrs /\ \A x \in h.pinned : Kept(h, x)
  BY DEF Mid, Heaps, PinnedOK, Kept, IsObj, InFromSpace
<1>3. h \in J[0]
  <2>1. X(0) = {}
    BY <1>0, <1>p
  <2> HIDE DEF X
  <2>2. 0 \in 0..n
    BY <1>0
  <2> QED BY <2>1, <2>2, SweptNone DEF Mid
<1>4. ASSUME NEW i \in 1..n, NEW g \in J[i - 1] PROVE scavenge(g, AddrSeq[i]) \in J[i]
  <2> DEFINE k == scavenge(g, i)
  <2>0. i \in 0..n /\ i - 1 \in 0..n /\ i \in Addrs
    BY <1>0
  <2>1. Swept(h, g, X(i - 1))
    BY <2>0
  <2>2. Mid(g) /\ g.pinned = h.pinned
    BY <2>1 DEF Swept, Work, Grow, Sweep
  <2>3. Swept(h, k, X(i))
    <3>1. CASE i \in h.pinned
      <4>1. k = Scavenge(g, i)
        BY <2>2, <3>1 DEF scavenge
      <4>2. X(i) = X(i - 1) \cup {i}
        <5>1. \A x \in h.pinned : x <= i <=> x <= i - 1 \/ x = i
          BY <1>0, <1>p
        <5> QED BY <3>1, <5>1
      <4>3. Swept(h, Scavenge(g, i), X(i - 1) \cup {i})
        <5> HIDE DEF X
        <5> QED BY <1>p, <2>0, <2>1, <3>1, ScavengeNext
      <4> HIDE DEF X, k
      <4> QED BY <4>1, <4>2, <4>3
    <3>2. CASE i \notin h.pinned
      <4>1. k = g
        BY <2>2, <3>2 DEF scavenge
      <4>2. X(i) = X(i - 1)
        <5>1. \A x \in h.pinned : x <= i <=> x <= i - 1
          BY <1>0, <1>p, <3>2
        <5> QED BY <5>1
      <4> HIDE DEF X, k
      <4> QED BY <2>1, <4>1, <4>2
    <3> QED BY <3>1, <3>2
  <2> HIDE DEF X, k
  <2>7. k \in Heaps
    BY <2>3 DEF Swept, Mid
  <2>8. k \in J[i]
    BY <2>0, <2>3, <2>7
  <2>9. AddrSeq[i] = i
    BY <1>0
  <2> QED BY <2>8, <2>9 DEF k
<1>5. \E f : Is(f)
  <2>1. \A i \in 1..n : \A g \in J[i - 1] : O[i][g] = scavenge(g, AddrSeq[i]) /\ O[i][g] \in J[i]
    BY <1>4
  <2> HIDE DEF J, O
  <2>2. \E f : Folds(f, n, h, O) /\ \A i \in 0..n : f[i] \in J[i]
    BY <1>0, <1>3, <2>1, Folding
  <2>3. PICK f : /\ f = [i \in 0..n |-> IF i = 0 THEN h ELSE O[i][f[i - 1]]]
                 /\ \A i \in 0..n : f[i] \in J[i]
    BY <2>2 DEF Folds
  <2>4. \A i \in 0..n : i # 0 => O[i][f[i - 1]] = scavenge(f[i - 1], AddrSeq[i])
    <3> SUFFICES ASSUME NEW i \in 0..n, i # 0 PROVE O[i][f[i - 1]] = scavenge(f[i - 1], AddrSeq[i])
      OBVIOUS
    <3>1. i \in 1..n /\ i - 1 \in 0..n
      BY <1>0
    <3> QED BY <2>1, <2>3, <3>1
  <2>5. Is(f)
    BY <2>3, <2>4
  <2> QED BY <2>5
<1>6. Is(F)
  BY <1>5
<1> HIDE DEF F
<1>7. F[0] = h /\ \A i \in 1..n : F[i] = scavenge(F[i - 1], AddrSeq[i])
  BY <1>0, <1>6
<1>8. \A i \in 0..n : F[i] \in J[i]
  <2> HIDE DEF J, Is, O, X
  <2>1. F[0] \in J[0]
    BY <1>3, <1>7
  <2>2. \A i \in 1..n : F[i - 1] \in J[i - 1] => F[i] \in J[i]
    BY <1>4, <1>7
  <2> QED BY <1>0, <2>1, <2>2, Folded
<1>10. Swept(h, F[n], X(n))
  <2> HIDE DEF X
  <2> QED BY <1>0, <1>8
<1>11. X(n) = h.pinned
  BY <1>0, <1>p
<1> HIDE DEF X
<1> QED BY <1>2, <1>10, <1>11

\* A heap in which only new_areas and record_new_regions_below differ.
LEMMA BooksOnly ==
  ASSUME NEW h, Mid(h), NEW g, g \in Heaps,
         g.page = h.page, g.word = h.word, g.bytes = h.bytes, g.from = h.from,
         g.new = h.new, g.region = h.region, g.pinned = h.pinned, g.chain = h.chain,
         g.root = h.root, g.lost = h.lost, g.full = h.full,
         \A x \in Int : InAreas(g.areas, x) => InAreas(h.areas, x)
  PROVE  /\ Mid(g) /\ Sweep(h, g)
         /\ Movable(g) = Movable(h) /\ Unclean(g) = Unclean(h)
         /\ \A x : (Cell(g, x) <=> Cell(h, x)) /\ Gen(g, x) = Gen(h, x) /\ (Kept(g, x) <=> Kept(h, x))
         /\ \A p : Used(g, p) = Used(h, p)
         /\ g.areas = h.areas => Grow(h, g) /\ \A b : Due(g, b) = Due(h, b)
<1>1. /\ \A y : /\ Cell(g, y) <=> Cell(h, y)
                /\ Gen(g, y) = Gen(h, y) /\ Mark(g, y) = Mark(h, y)
                /\ InFromSpace(g, y) <=> InFromSpace(h, y)
                /\ Kept(g, y) <=> Kept(h, y)
                /\ g.page[Page(y)].type = h.page[Page(y)].type
      /\ \A p : Used(g, p) = Used(h, p)
      /\ \A k : CellsOf(g, k) = CellsOf(h, k)
  <2>1. \A p : Used(g, p) = Used(h, p)
    BY DEF Used, Open
  <2> QED BY <2>1 DEF Cell, Gen, Mark, InFromSpace, Kept, CellsOf
<1>2. \A y : (IsObj(g, y) <=> IsObj(h, y)) /\ (IsFwd(g, y) <=> IsFwd(h, y)) /\ (Target(g, y) <=> Target(h, y))
  BY <1>1 DEF IsObj, IsFwd, Target
<1>3. FreeOK(g) /\ SpacesOK(g) /\ RegionsOK(g) /\ ScratchOK(g)
  BY DEF Mid, FreeOK, SpacesOK, RegionsOK, ScratchOK
<1>4. /\ SpacesOK(g) /\ ForwardsOK(g) /\ RefsOK(g) /\ PinnedOK(g) /\ ChainOK(g)
      /\ GensOK(g) /\ CleanOK(g) /\ MarksOK(g) /\ Movable(g) = Movable(h)
  BY <1>1, SameCells
<1>5. BytesOK(g)
  BY <1>1 DEF Mid, BytesOK
<1>6. AreasOK(g)
  BY <1>1 DEF Mid, AreasOK
<1>7. Mid(g)
  BY <1>3, <1>4, <1>5, <1>6 DEF Mid
<1>8. Sweep(h, g)
  BY <1>1, <1>4 DEF Sweep
<1>9. Unclean(g) = Unclean(h)
  BY <1>1, <1>2 DEF Unclean
<1>10. g.areas = h.areas => Grow(h, g) /\ \A b : Due(g, b) = Due(h, b)
  BY <1>1, <1>8 DEF Grow, Due
<1> QED BY <1>1, <1>4, <1>7, <1>8, <1>9, <1>10

------------------------------------------------------------------------------
(* newspace_full_scavenge.                                                  *)

\* record_new_regions_below changes.
LEMMA BelowOnly ==
  ASSUME NEW h, Mid(h), NEW b \in Int
  PROVE  LET g == [h EXCEPT !.below = b]
         IN  /\ Mid(g) /\ Grow(h, g) /\ g.below = b /\ g.full = h.full
             /\ g.page = h.page /\ g.region = h.region /\ g.areas = h.areas
             /\ g.from = h.from /\ g.new = h.new
             /\ Unclean(g) = Unclean(h) /\ \A c : Due(g, c) = Due(h, c)
             /\ \A x : (Cell(g, x) <=> Cell(h, x)) /\ (Kept(g, x) <=> Kept(h, x))
             /\ \A p : Used(g, p) = Used(h, p)
<1> DEFINE g == [h EXCEPT !.below = b]
<1>1. h \in Heaps
  BY DEF Mid
<1>2. /\ g \in Heaps
      /\ g.page = h.page /\ g.word = h.word /\ g.bytes = h.bytes /\ g.from = h.from
      /\ g.new = h.new /\ g.region = h.region /\ g.areas = h.areas /\ g.below = b
      /\ g.pinned = h.pinned /\ g.chain = h.chain /\ g.root = h.root
      /\ g.lost = h.lost /\ g.full = h.full
  BY <1>1 DEF Heaps
<1> HIDE DEF g
<1>3. \A x \in Int : InAreas(g.areas, x) => InAreas(h.areas, x)
  BY <1>2
<1>4. /\ Mid(g) /\ Sweep(h, g)
      /\ Unclean(g) = Unclean(h)
      /\ \A x : (Cell(g, x) <=> Cell(h, x)) /\ Gen(g, x) = Gen(h, x) /\ (Kept(g, x) <=> Kept(h, x))
      /\ \A p : Used(g, p) = Used(h, p)
      /\ g.areas = h.areas => Grow(h, g) /\ \A c : Due(g, c) = Due(h, c)
  BY <1>2, <1>3, BooksOnly
<1> QED BY <1>2, <1>4 DEF g

\* After h, what is to be scavenged of the pages up to n is recorded.
Passed(h, g, n) ==
  /\ Mid(g) /\ Grow(h, g)
  /\ ~g.full => Unclean(g) \subseteq Due(g, n + 1)

\* A page of newspace_full_scavenge.
LEMMA FullScavengePage ==
  ASSUME NEW h, Mid(h), NEW p \in Pages, ~h.full => Unclean(h) \subseteq Due(h, p)
  PROVE  LET g == IF /\ h.page[p].type # "free" /\ h.page[p].gen = h.new
                     /\ Used(h, p) # 0 /\ h.page[p].mark # "clear"
                  THEN ScavengePage([h EXCEPT !.below = p + 1], p) ELSE h
         IN  Passed(h, g, p)
<1> DEFINE C == /\ h.page[p].type # "free" /\ h.page[p].gen = h.new
                /\ Used(h, p) # 0 /\ h.page[p].mark # "clear"
           b == [h EXCEPT !.below = p + 1]
           k == ScavengePage(b, p)
<1>0. p \in Int /\ \A x \in Addrs : Page(x) \in Int /\ Slot(x) \in Int /\ Slot(x) >= 1
  BY PageSlot DEF Pages
<1>u. \A x \in Addrs : Used(h, Page(x)) \in Int
  <2>1. \A q \in Pages : Used(h, q) \in 0..h.page[q].fill /\ h.page[q].fill \in Nat
    BY UsedBound, PageType DEF Mid
  <2>2. \A q \in Pages : Used(h, q) \in Int
    BY <2>1
  <2> QED BY <2>2, PageSlot
<1>1. CASE C
  <2>1. /\ Mid(b) /\ Grow(h, b) /\ b.below = p + 1 /\ b.full = h.full
        /\ b.page = h.page /\ b.region = h.region /\ b.areas = h.areas
        /\ b.from = h.from /\ b.new = h.new
        /\ Unclean(b) = Unclean(h) /\ \A c : Due(b, c) = Due(h, c)
        /\ \A x : (Cell(b, x) <=> Cell(h, x)) /\ (Kept(b, x) <=> Kept(h, x))
        /\ \A q : Used(b, q) = Used(h, q)
    BY <1>0, BelowOnly
  <2> HIDE DEF b
  <2>2. \A x \in Addrs : Page(x) = p /\ Slot(x) <= Used(b, p) => Kept(b, x)
    <3> SUFFICES ASSUME NEW x \in Addrs, Page(x) = p, Slot(x) <= Used(b, p) PROVE Kept(h, x)
      BY <2>1
    <3>1. Used(h, p) \in 0..h.page[p].fill /\ h.page[p].fill \in Nat
      BY UsedBound, PageType DEF Mid
    <3>2. Cell(h, x) /\ Gen(h, x) = h.new
      BY <1>0, <1>1, <2>1, <3>1 DEF Cell, Gen
    <3> QED BY <3>2, SpacesDiffer, NewKept
  <2> DEFINE X == {x \in Addrs : Page(x) = p /\ Slot(x) <= Used(b, p)}
  <2>3. Swept(b, k, X)
    BY <2>1, <2>2, ScavengePageOK
  <2> HIDE DEF k
  <2>4. Mid(k) /\ Work(b, k) /\ Grow(b, k) /\ (h.full => k.full)
    BY <2>1, <2>3 DEF Swept, Work, Grow, Sweep
  <2>5. Grow(h, k)
    BY <2>1, <2>4, GrowTrans
  <2>6. ASSUME ~k.full, NEW x \in Unclean(k) PROVE x \in Due(k, p + 1)
    <3>1. x \in Unclean(b) \/ x \in Due(k, p + 1)
      BY <2>1, <2>4 DEF Work
    <3>2. Due(b, p + 1) \subseteq Due(k, p + 1)
      BY <2>1, <2>4 DEF Work
    <3>3. CASE x \in Unclean(b)
      <4>1. x \in Due(b, p)
        BY <2>1, <2>4, <2>6, <3>3
      <4>2. x \in Due(b, p + 1) \/ x \in X
        BY <1>0, <1>u, <2>1, <4>1 DEF Due
      <4>3. x \in X => x \in Due(k, p + 1)
        BY <2>1, <2>3, <2>6 DEF Swept
      <4> QED BY <3>2, <4>2, <4>3
    <3> QED BY <3>1, <3>3
  <2>7. Passed(h, k, p)
    BY <2>4, <2>5, <2>6 DEF Passed
  <2> QED BY <1>1, <2>7 DEF k, b
<1>2. CASE ~C
  <2>1. ASSUME ~h.full, NEW x \in Unclean(h) PROVE x \in Due(h, p + 1)
    <3>1. x \in Due(h, p) /\ x \in Addrs /\ Cell(h, x) /\ Gen(h, x) = h.new
          /\ IsObj(h, x) /\ h.word[x].ref # Nil /\ InFromSpace(h, h.word[x].ref)
      BY <2>1 DEF Due, Unclean
    <3>2. x \in Due(h, p + 1) \/ (Page(x) = p /\ Slot(x) <= Used(h, p))
      BY <1>0, <1>u, <3>1 DEF Due
    <3>3. CASE Page(x) = p /\ Slot(x) <= Used(h, p)
      <4>1. h.page[p].type # "free" /\ h.page[p].gen = h.new
        BY <3>1, <3>3, CellPage DEF Gen
      <4>2. Used(h, p) # 0
        BY <1>0, <3>1, <3>3
      <4>3. Mark(h, x) = "clear"
        BY <1>2, <3>3, <4>1, <4>2 DEF Mark
      <4>4. Gen(h, x) # h.from
        BY <3>1, SpacesDiffer
      <4>5. Gen(h, h.word[x].ref) # h.from
        BY <3>1, <4>3, <4>4, CleanFrom
      <4> QED BY <3>1, <4>5 DEF InFromSpace, Gen
    <3> QED BY <3>2, <3>3
  <2>2. Passed(h, h, p)
    BY <2>1, WorkSame DEF Passed
  <2> QED BY <1>2, <2>2
<1> QED BY <1>1, <1>2

\* newspace_full_scavenge.
LEMMA FullScavengeOK ==
  ASSUME NEW h, Mid(h), ~h.full => Unclean(h) \subseteq Due(h, 1)
  PROVE  LET g == FullScavenge(h)
         IN  Passed(h, g, NPages) /\ g.below = NPages + 1
<1> DEFINE scavenge(g, p) ==
             IF /\ g.page[p].type # "free" /\ g.page[p].gen = g.new
                /\ Used(g, p) # 0 /\ g.page[p].mark # "clear"
             THEN ScavengePage([g EXCEPT !.below = p + 1], p) ELSE g
           s    == [p \in Pages |-> p]
           n    == NPages
           J == [i \in 0..n |-> {g \in Heaps : Passed(h, g, i)}]
           O == [i \in 1..n |-> [g \in J[i - 1] |-> scavenge(g, s[i])]]
           Is(f) == f = [i \in 0..n |-> IF i = 0 THEN h ELSE scavenge(f[i - 1], s[i])]
           F == CHOOSE f : Is(f)
<1>0. n \in Nat /\ Pages = 1..n /\ n = NPages
  BY GencgcAssumption DEF Pages
<1> HIDE DEF n
<1>1. Len(s) = n /\ \A i \in 1..n : s[i] = i
  BY <1>0
<1>2. FullScavenge(h) = [F[n] EXCEPT !.below = n + 1]
  BY <1>0, <1>1 DEF FullScavenge, EachPage, Fold
<1> HIDE DEF s, scavenge
<1>3. h \in J[0]
  <2>1. Passed(h, h, 0)
    BY WorkSame DEF Passed
  <2>2. 0 \in 0..n
    BY <1>0
  <2> QED BY <2>1, <2>2 DEF Mid
<1>4. ASSUME NEW i \in 1..n, NEW g \in J[i - 1] PROVE scavenge(g, s[i]) \in J[i]
  <2> DEFINE k == scavenge(g, i)
  <2>0. i \in 0..n /\ i - 1 \in 0..n /\ i \in Pages /\ (i - 1) + 1 = i
    BY <1>0
  <2>1. Passed(h, g, i - 1)
    BY <2>0
  <2>2. Mid(g) /\ Grow(h, g) /\ (~g.full => Unclean(g) \subseteq Due(g, i))
    BY <2>0, <2>1 DEF Passed
  <2>4. Passed(g, k, i)
    <3> HIDE DEF J
    <3> QED BY <2>0, <2>2, FullScavengePage DEF scavenge
  <2> HIDE DEF k
  <2>5. Grow(h, k)
    BY <2>2, <2>4, GrowTrans DEF Passed
  <2>6. Passed(h, k, i)
    BY <2>4, <2>5 DEF Passed
  <2>7. k \in Heaps
    BY <2>6 DEF Passed, Mid
  <2>8. k \in J[i]
    BY <2>0, <2>6, <2>7
  <2>9. s[i] = i
    BY <1>1
  <2> QED BY <2>8, <2>9 DEF k
<1>5. \E f : Is(f)
  <2>1. \A i \in 1..n : \A g \in J[i - 1] : O[i][g] = scavenge(g, s[i]) /\ O[i][g] \in J[i]
    BY <1>4
  <2> HIDE DEF J, O
  <2>2. \E f : Folds(f, n, h, O) /\ \A i \in 0..n : f[i] \in J[i]
    BY <1>0, <1>3, <2>1, Folding
  <2>3. PICK f : /\ f = [i \in 0..n |-> IF i = 0 THEN h ELSE O[i][f[i - 1]]]
                 /\ \A i \in 0..n : f[i] \in J[i]
    BY <2>2 DEF Folds
  <2>4. \A i \in 0..n : i # 0 => O[i][f[i - 1]] = scavenge(f[i - 1], s[i])
    <3> SUFFICES ASSUME NEW i \in 0..n, i # 0 PROVE O[i][f[i - 1]] = scavenge(f[i - 1], s[i])
      OBVIOUS
    <3>1. i \in 1..n /\ i - 1 \in 0..n
      BY <1>0
    <3> QED BY <2>1, <2>3, <3>1
  <2>5. Is(f)
    BY <2>3, <2>4
  <2> QED BY <2>5
<1>6. Is(F)
  BY <1>5
<1> HIDE DEF F
<1>7. F[0] = h /\ \A i \in 1..n : F[i] = scavenge(F[i - 1], s[i])
  BY <1>0, <1>6
<1>8. \A i \in 0..n : F[i] \in J[i]
  <2> HIDE DEF J, Is, O
  <2>1. F[0] \in J[0]
    BY <1>3, <1>7
  <2>2. \A i \in 1..n : F[i - 1] \in J[i - 1] => F[i] \in J[i]
    BY <1>4, <1>7
  <2> QED BY <1>0, <2>1, <2>2, Folded
<1> DEFINE k == F[n]
           b == [k EXCEPT !.below = n + 1]
<1>9. Passed(h, k, n)
  BY <1>0, <1>8
<1> HIDE DEF k
<1>10. /\ Mid(b) /\ Grow(k, b) /\ b.below = n + 1 /\ b.full = k.full
       /\ Unclean(b) = Unclean(k) /\ \A c : Due(b, c) = Due(k, c)
  <2>1. Mid(k) /\ n + 1 \in Int
    BY <1>0, <1>9 DEF Passed
  <2> QED BY <2>1, BelowOnly
<1> HIDE DEF b
<1>11. Grow(h, b)
  BY <1>9, <1>10, GrowTrans DEF Passed
<1>12. Passed(h, b, n) /\ b.below = n + 1
  BY <1>9, <1>10, <1>11 DEF Passed
<1> QED BY <1>0, <1>2, <1>12 DEF b, k

------------------------------------------------------------------------------
(* scavenge_newspace.                                                       *)

\* No region is open.
AllClosed(h) == \A t \in Regions : h.region[t] = Closed

\* gc_close_region, for both regions.
LEMMA CloseRegionsOK ==
  ASSUME NEW h, Mid(h)
  PROVE  LET g == CloseRegions(h)
         IN  /\ Mid(g) /\ Step(h, g) /\ Sweep(h, g) /\ AllClosed(g)
             /\ g.full = h.full /\ Movable(g) = Movable(h)
             /\ AllClosed(h) => g = h
<1> DEFINE k == CloseRegion(h, "cons")
           g == CloseRegion(k, "mixed")
<1>0. "cons" \in Regions /\ "mixed" \in Regions /\ Regions = {"cons", "mixed"}
  BY DEF Regions
<1>1. /\ Mid(k) /\ Step(h, k)
      /\ k.region = [h.region EXCEPT !["cons"] = Closed]
      /\ k.page = h.page /\ k.word = h.word /\ k.full = h.full
      /\ h.region["cons"].page = 0 => k = h
  BY <1>0, CloseRegionOK
<1> HIDE DEF k
<1>2. /\ Mid(g) /\ Step(k, g)
      /\ g.region = [k.region EXCEPT !["mixed"] = Closed]
      /\ g.page = k.page /\ g.word = k.word /\ g.full = k.full
      /\ k.region["mixed"].page = 0 => g = k
  BY <1>0, <1>1, CloseRegionOK
<1> HIDE DEF g
<1>3. Step(h, g)
  BY <1>1, <1>2, StepTrans
<1>4. AllClosed(g)
  <2>1. DOMAIN h.region = Regions
    BY DEF Mid, Heaps
  <2> QED BY <1>0, <1>1, <1>2, <2>1 DEF AllClosed
<1>5. AllClosed(h) => g = h
  <2> SUFFICES ASSUME AllClosed(h) PROVE g = h
    OBVIOUS
  <2>1. k = h
    BY <1>0, <1>1 DEF AllClosed, Closed
  <2> QED BY <1>0, <1>2, <2>1 DEF AllClosed, Closed
<1>6. Sweep(h, g)
  BY <1>3 DEF Step, Sweep, Fixed, Due
<1>7. Movable(g) = Movable(h)
  <2>1. g.page = h.page /\ g.word = h.word /\ g.from = h.from /\ g.pinned = h.pinned
    BY <1>1, <1>2, <1>3 DEF Step
  <2> QED BY <2>1 DEF Movable, IsObj, Cell, InFromSpace
<1> QED BY <1>1, <1>2, <1>3, <1>4, <1>5, <1>6, <1>7 DEF CloseRegions, g, k

\* Between two rounds of scavenge_newspace.
Round(h, g) ==
  /\ Mid(g) /\ Sweep(h, g) /\ g.root = h.root
  /\ g.below = NPages + 1 /\ AllClosed(g)
  /\ ~g.full => Unclean(g) \subseteq Due(g, NPages + 1)

\* The end of a round: what was to be scavenged is recorded.
LEMMA RoundEnds ==
  ASSUME NEW h, Mid(h), NEW g, Mid(g), Sweep(h, g), g.root = h.root, g.below = NPages + 1,
         ~g.full => Unclean(g) \subseteq Due(g, NPages + 1)
  PROVE  Round(h, CloseRegions(g))
<1> DEFINE k == CloseRegions(g)
<1>1. /\ Mid(k) /\ Step(g, k) /\ Sweep(g, k) /\ AllClosed(k)
      /\ k.full = g.full /\ Movable(k) = Movable(g)
  BY CloseRegionsOK
<1> HIDE DEF k
<1>2. Sweep(h, k)
  BY <1>1, SweepTrans
<1>3. k.root = h.root /\ k.below = NPages + 1
  BY <1>1 DEF Step
<1>4. ~k.full => Unclean(k) \subseteq Due(k, NPages + 1)
  BY <1>1, StepUnclean DEF Step
<1> QED BY <1>1, <1>2, <1>3, <1>4 DEF Round, k

\* The areas that were recorded in the round before.
LEMMA ScavengeAreaList ==
  ASSUME NEW h, Mid(h), NEW A \in Seq([start : Int, size : Nat]),
         \A x \in Int : InAreas(A, x) => x \in Addrs /\ Kept(h, x)
  PROVE  LET area(g, a) == ScavengeRange(g, a.start, a.size)
         IN  Swept(h, Fold(area, h, A), {x \in Int : InAreas(A, x)})
<1> DEFINE area(g, a) == ScavengeRange(g, a.start, a.size)
           n    == Len(A)
           X(i) == {x \in Int : \E j \in 1..i : A[j].start <= x /\ x < A[j].start + A[j].size}
           J == [i \in 0..n |-> {g \in Heaps : Swept(h, g, X(i))}]
           O == [i \in 1..n |-> [g \in J[i - 1] |-> area(g, A[i])]]
           Is(f) == f = [i \in 0..n |-> IF i = 0 THEN h ELSE area(f[i - 1], A[i])]
           F == CHOOSE f : Is(f)
<1>0. n \in Nat /\ DOMAIN A = 1..n /\ \A i \in 1..n : A[i].start \in Int /\ A[i].size \in Nat
  <2>1. n \in Nat /\ DOMAIN A = 1..n
    OBVIOUS
  <2>2. \A i \in 1..n : A[i] \in [start : Int, size : Nat]
    <3> DEFINE T == [start : Int, size : Nat]
    <3>1. A \in Seq(T)
      OBVIOUS
    <3> HIDE DEF T
    <3>2. \A i \in 1..Len(A) : A[i] \in T
      BY <3>1
    <3> QED BY <3>2 DEF T
  <2> QED BY <2>1, <2>2
<1>2. Fold(area, h, A) = F[n]
  BY DEF Fold
<1>11. X(n) = {x \in Int : InAreas(A, x)}
  BY <1>0 DEF InAreas
<1> HIDE DEF n, area
<1>3. h \in J[0]
  <2>1. X(0) = {}
    OBVIOUS
  <2> HIDE DEF X
  <2>2. 0 \in 0..n
    BY <1>0
  <2> QED BY <2>1, <2>2, SweptNone DEF Mid
<1>4. ASSUME NEW i \in 1..n, NEW g \in J[i - 1] PROVE area(g, A[i]) \in J[i]
  <2> DEFINE st == A[i].start
             sz == A[i].size
             k  == area(g, A[i])
             Y  == {x \in Int : st <= x /\ x < st + sz}
  <2>0. i \in 0..n /\ i - 1 \in 0..n
    BY <1>0
  <2>1. Swept(h, g, X(i - 1))
    BY <2>0
  <2>2. Mid(g) /\ Sweep(h, g)
    BY <2>1 DEF Swept, Work, Grow
  <2>3. \A x \in Int : st <= x /\ x < st + sz => x \in Addrs /\ Kept(g, x)
    <3> SUFFICES ASSUME NEW x \in Int, st <= x, x < st + sz PROVE x \in Addrs /\ Kept(g, x)
      OBVIOUS
    <3>1. InAreas(A, x)
      BY <1>0 DEF InAreas
    <3>2. x \in Addrs /\ Kept(h, x)
      BY <3>1
    <3> HIDE DEF X, J
    <3> QED BY <2>2, <3>2, KeptStays
  <2>4. st \in Int /\ sz \in Nat
    BY <1>0
  <2>5. k = ScavengeRange(g, st, sz)
    BY DEF area
  <2>6. X(i) = X(i - 1) \cup Y
    <3>1. \A j \in 1..i : j \in 1..(i - 1) \/ j = i
      OBVIOUS
    <3>2. \A j \in 1..(i - 1) : j \in 1..i
      OBVIOUS
    <3>3. i \in 1..i
      OBVIOUS
    <3>4. \A x \in Int : (\E j \in 1..i : A[j].start <= x /\ x < A[j].start + A[j].size)
                         <=> (\E j \in 1..(i - 1) : A[j].start <= x /\ x < A[j].start + A[j].size)
                             \/ (st <= x /\ x < st + sz)
      BY <3>1, <3>2, <3>3
    <3> QED BY <3>4
  <2> HIDE DEF X, k, st, sz
  <2>7. Swept(g, k, Y)
    <3>1. Swept(g, ScavengeRange(g, st, sz), {x \in Int : st <= x /\ x < st + sz})
      BY <2>2, <2>3, <2>4, ScavengeRangeOK
    <3> QED BY <2>5, <3>1
  <2> HIDE DEF Y
  <2>8. Swept(h, k, X(i))
    <3>1. Swept(h, k, X(i - 1) \cup Y)
      BY <2>1, <2>7, SweptTrans
    <3> QED BY <2>6, <3>1
  <2>9. k \in Heaps
    BY <2>8 DEF Swept, Mid
  <2> QED BY <2>0, <2>8, <2>9 DEF k
<1>5. \E f : Is(f)
  <2>1. \A i \in 1..n : \A g \in J[i - 1] : O[i][g] = area(g, A[i]) /\ O[i][g] \in J[i]
    BY <1>4
  <2> HIDE DEF J, O
  <2>2. \E f : Folds(f, n, h, O) /\ \A i \in 0..n : f[i] \in J[i]
    BY <1>0, <1>3, <2>1, Folding
  <2>3. PICK f : /\ f = [i \in 0..n |-> IF i = 0 THEN h ELSE O[i][f[i - 1]]]
                 /\ \A i \in 0..n : f[i] \in J[i]
    BY <2>2 DEF Folds
  <2>4. \A i \in 0..n : i # 0 => O[i][f[i - 1]] = area(f[i - 1], A[i])
    <3> SUFFICES ASSUME NEW i \in 0..n, i # 0 PROVE O[i][f[i - 1]] = area(f[i - 1], A[i])
      OBVIOUS
    <3>1. i \in 1..n /\ i - 1 \in 0..n
      BY <1>0
    <3> QED BY <2>1, <2>3, <3>1
  <2>5. Is(f)
    BY <2>3, <2>4
  <2> QED BY <2>5
<1>6. Is(F)
  BY <1>5
<1> HIDE DEF F
<1>7. F[0] = h /\ \A i \in 1..n : F[i] = area(F[i - 1], A[i])
  BY <1>0, <1>6
<1>8. \A i \in 0..n : F[i] \in J[i]
  <2> HIDE DEF J, Is, O, X
  <2>1. F[0] \in J[0]
    BY <1>3, <1>7
  <2>2. \A i \in 1..n : F[i - 1] \in J[i - 1] => F[i] \in J[i]
    BY <1>4, <1>7
  <2> QED BY <1>0, <2>1, <2>2, Folded
<1>10. Swept(h, F[n], X(n))
  <2> HIDE DEF X
  <2> QED BY <1>0, <1>8
<1> HIDE DEF X
<1> QED BY <1>2, <1>10, <1>11 DEF n, area

\* new_areas is taken for the next round.
LEMMA TakeAreas ==
  ASSUME NEW h, Mid(h)
  PROVE  LET g == [h EXCEPT !.areas = <<>>]
         IN  /\ Mid(g) /\ Sweep(h, g) /\ g.areas = <<>>
             /\ g.root = h.root /\ g.below = h.below /\ g.full = h.full /\ g.region = h.region
             /\ g.new = h.new
             /\ Movable(g) = Movable(h) /\ Unclean(g) = Unclean(h)
             /\ \A x : (Cell(g, x) <=> Cell(h, x)) /\ Gen(g, x) = Gen(h, x) /\ (Kept(g, x) <=> Kept(h, x))
             /\ \A p : Used(g, p) = Used(h, p)
<1> DEFINE g == [h EXCEPT !.areas = <<>>]
<1>1. h \in Heaps /\ <<>> \in Seq([start : Int, size : Nat])
  BY DEF Mid
<1>2. /\ g \in Heaps
      /\ g.page = h.page /\ g.word = h.word /\ g.bytes = h.bytes /\ g.from = h.from
      /\ g.new = h.new /\ g.region = h.region /\ g.areas = <<>> /\ g.below = h.below
      /\ g.pinned = h.pinned /\ g.chain = h.chain /\ g.root = h.root
      /\ g.lost = h.lost /\ g.full = h.full
  BY <1>1 DEF Heaps
<1> HIDE DEF g
<1>3. \A x \in Int : InAreas(g.areas, x) => InAreas(h.areas, x)
  BY <1>2 DEF InAreas
<1>4. /\ Mid(g) /\ Sweep(h, g)
      /\ Movable(g) = Movable(h) /\ Unclean(g) = Unclean(h)
      /\ \A x : (Cell(g, x) <=> Cell(h, x)) /\ Gen(g, x) = Gen(h, x) /\ (Kept(g, x) <=> Kept(h, x))
      /\ \A p : Used(g, p) = Used(h, p)
  BY <1>2, <1>3, BooksOnly
<1> QED BY <1>2, <1>4 DEF g

\* What is due, after the pages.
LEMMA DueClosed ==
  ASSUME NEW h, Mid(h), AllClosed(h), NEW x \in Due(h, NPages + 1)
  PROVE  x \in Addrs /\ Cell(h, x) /\ Gen(h, x) = h.new
         /\ (Len(h.areas) >= NumNewAreas \/ InAreas(h.areas, x))
<1>1. x \in Addrs /\ Cell(h, x) /\ Gen(h, x) = h.new
  BY DEF Due
<1>2. Page(x) \in 1..NPages /\ NPages \in Nat
  BY <1>1, PageSlot, GencgcAssumption DEF Pages
<1>3. ~(Page(x) >= NPages + 1)
  BY <1>2
<1>4. ~Open(h, Page(x))
  BY <1>2 DEF Open, AllClosed, Regions, Closed
<1>5. Used(h, Page(x)) = h.page[Page(x)].fill /\ Page(x) \in Pages
  BY <1>2, <1>4, UsedClosed DEF Pages
<1>6. ~(Slot(x) > Used(h, Page(x)))
  <2>1. Slot(x) <= h.page[Page(x)].fill /\ Slot(x) \in Int /\ h.page[Page(x)].fill \in Int
    BY <1>1, <1>5, PageSlot, PageType DEF Cell, Mid
  <2> QED BY <1>5, <2>1
<1> QED BY <1>1, <1>3, <1>6 DEF Due

\* A round of scavenge_newspace: it ends with nothing recorded, or it has saved
\* an object.
LEMMA ScavengeAreasOK ==
  ASSUME NEW h, Mid(h), NEW g, Round(h, g)
  PROVE  LET k == ScavengeAreas(g)
         IN  /\ Round(h, k)
             /\ Movable(k) \subseteq Movable(g)
             /\ g.full => k.full
             /\ ~k.full /\ Movable(k) = Movable(g) => k.areas = <<>>
<1> DEFINE A == g.areas
           taken == [g EXCEPT !.areas = <<>>]
           area(f, a) == ScavengeRange(f, a.start, a.size)
           e == IF Len(A) >= NumNewAreas THEN FullScavenge(taken) ELSE Fold(area, taken, A)
           k == CloseRegions(e)
<1>1. /\ Mid(g) /\ Sweep(h, g) /\ g.root = h.root /\ g.below = NPages + 1 /\ AllClosed(g)
      /\ ~g.full => Unclean(g) \subseteq Due(g, NPages + 1)
      /\ A \in Seq([start : Int, size : Nat])
  BY DEF Round, Mid, Heaps
<1> HIDE DEF A
<1>2. /\ Mid(taken) /\ Sweep(g, taken) /\ taken.areas = <<>>
      /\ taken.root = g.root /\ taken.below = g.below /\ taken.full = g.full /\ taken.region = g.region
      /\ taken.new = g.new
      /\ Movable(taken) = Movable(g) /\ Unclean(taken) = Unclean(g)
      /\ \A x : (Cell(taken, x) <=> Cell(g, x)) /\ Gen(taken, x) = Gen(g, x) /\ (Kept(taken, x) <=> Kept(g, x))
      /\ \A p : Used(taken, p) = Used(g, p)
  BY <1>1, TakeAreas
<1> HIDE DEF taken
<1>3. AllClosed(taken)
  BY <1>1, <1>2 DEF AllClosed
<1>4. ~g.full => \A x \in Unclean(g) : /\ x \in Addrs /\ Cell(g, x) /\ Gen(g, x) = g.new
                                       /\ Len(A) >= NumNewAreas \/ InAreas(A, x)
  BY <1>1, DueClosed DEF A
<1>5. /\ Mid(e) /\ Grow(taken, e) /\ e.below = NPages + 1
      /\ ~e.full => Unclean(e) \subseteq Due(e, NPages + 1)
  <2>1. CASE Len(A) >= NumNewAreas
    <3> DEFINE f == FullScavenge(taken)
    <3>1. ~taken.full => Unclean(taken) \subseteq Due(taken, 1)
      <4> SUFFICES ASSUME ~taken.full, NEW x \in Unclean(taken) PROVE x \in Due(taken, 1)
        OBVIOUS
      <4>1. x \in Addrs /\ Cell(taken, x) /\ Gen(taken, x) = taken.new
        BY <1>2, <1>4
      <4>2. Page(x) >= 1
        BY <4>1, PageSlot DEF Pages
      <4> QED BY <4>1, <4>2 DEF Due
    <3>2. Passed(taken, f, NPages) /\ f.below = NPages + 1
      BY <1>2, <3>1, FullScavengeOK
    <3>3. e = f
      BY <2>1
    <3> HIDE DEF e, f
    <3> QED BY <3>2, <3>3 DEF Passed
  <2>2. CASE ~(Len(A) >= NumNewAreas)
    <3> DEFINE f == Fold(area, taken, A)
    <3>1. \A x \in Int : InAreas(A, x) => x \in Addrs /\ Kept(taken, x)
      <4> SUFFICES ASSUME NEW x \in Int, InAreas(A, x) PROVE x \in Addrs /\ Kept(g, x)
        BY <1>2
      <4>1. Cell(g, x) /\ Gen(g, x) = g.new
        BY <1>1 DEF Mid, AreasOK, A
      <4>2. Gen(g, x) # g.from
        BY <1>1, <4>1, SpacesDiffer
      <4> QED BY <1>1, <4>1, <4>2, NewKept DEF Cell
    <3>2. Swept(taken, f, {x \in Int : InAreas(A, x)})
      BY <1>1, <1>2, <3>1, ScavengeAreaList
    <3>3. e = f
      BY <2>2
    <3> HIDE DEF e, f
    <3>4. Mid(f) /\ Work(taken, f) /\ (taken.full => f.full)
      BY <3>2 DEF Swept, Work, Grow, Sweep
    <3>5. ASSUME ~f.full, NEW x \in Unclean(f) PROVE x \in Due(f, NPages + 1)
      <4>1. x \in Unclean(taken) \/ x \in Due(f, NPages + 1)
        BY <1>1, <1>2, <3>4 DEF Work
      <4>2. CASE x \in Unclean(taken)
        <5>1. x \in Addrs /\ InAreas(A, x)
          BY <1>2, <1>4, <2>2, <3>4, <3>5, <4>2
        <5>2. x \in Int
          BY <5>1 DEF Addrs
        <5> QED BY <1>1, <1>2, <3>2, <3>5, <5>1, <5>2 DEF Swept
      <4> QED BY <4>1, <4>2
    <3> QED BY <1>1, <1>2, <3>3, <3>4, <3>5 DEF Work
  <2> HIDE DEF e
  <2> QED BY <2>1, <2>2
<1>6. ScavengeAreas(g) = k
  BY DEF ScavengeAreas, e, taken, A
<1> HIDE DEF e
<1>7. Sweep(g, e) /\ e.root = g.root
  BY <1>1, <1>2, <1>5, SweepTrans DEF Grow
<1>8. Sweep(h, e)
  BY <1>1, <1>7, SweepTrans
<1>9. Round(h, k)
  BY <1>1, <1>5, <1>7, <1>8, RoundEnds
<1>10. /\ k.full = e.full /\ Movable(k) = Movable(e) /\ (AllClosed(e) => k = e)
  BY <1>5, CloseRegionsOK
<1> HIDE DEF k
<1>11. Movable(k) \subseteq Movable(g) /\ (g.full => k.full)
  BY <1>7, <1>10 DEF Sweep
<1>12. ASSUME ~k.full, Movable(k) = Movable(g) PROVE k.areas = <<>>
  <2>1. e.areas = taken.areas /\ e.region = taken.region
    BY <1>2, <1>5, <1>10, <1>12 DEF Grow
  <2>2. AllClosed(e)
    BY <1>3, <2>1 DEF AllClosed
  <2> QED BY <1>2, <1>10, <2>1, <2>2
<1> QED BY <1>6, <1>9, <1>11, <1>12

\* The objects that can move are fewer than the rounds.
LEMMA FewerMovable ==
  ASSUME NEW h, NEW g, Movable(g) \subseteq Movable(h), Movable(g) # Movable(h)
  PROVE  Cardinality(Movable(g)) < Cardinality(Movable(h))
<1>1. Movable(h) \in SUBSET Addrs /\ Movable(g) \in SUBSET Addrs
  BY DEF Movable
<1> DEFINE S == Movable(h)
           T == Movable(g)
<1>2. T \in SUBSET S /\ S \ T # {} /\ S \ T \in SUBSET Addrs
  BY <1>1
<1>3. Cardinality(S \ T) = Cardinality(S) - Cardinality(T)
  BY <1>1, <1>2, Removed
<1>4. Cardinality(S) \in Nat /\ Cardinality(T) \in Nat /\ Cardinality(S \ T) \in Nat
      /\ IsFiniteSet(S \ T)
  BY <1>1, <1>2, AddrsFinite
<1>5. Cardinality(S \ T) # 0
  BY <1>2, <1>4, FS_EmptySet
<1> QED BY <1>3, <1>4, <1>5

\* There are not more objects to move than addresses.
LEMMA MovableBound == ASSUME NEW h PROVE Cardinality(Movable(h)) \in 0..(NPages * Cap)
<1>1. Movable(h) \in SUBSET Addrs /\ IsFiniteSet(Addrs) /\ Cardinality(Movable(h)) \in Nat
  BY AddrsFinite DEF Movable
<1>2. Cardinality(Addrs) = NPages * Cap
  <2>1. NPages * Cap \in Nat
    BY SeqOfAddrs
  <2> QED BY <2>1, FS_Interval DEF Addrs
<1>3. Cardinality(Movable(h)) <= Cardinality(Addrs)
  BY <1>1, FS_Subset
<1> QED BY <1>1, <1>2, <1>3, SeqOfAddrs

\* After n rounds nothing is recorded, or n objects were saved.
Rounds(h, g, n) ==
  /\ Round(h, g)
  /\ ~g.full => g.areas = <<>> \/ Cardinality(Movable(g)) <= NPages * Cap - n

\* The loop of scavenge_newspace.
LEMMA RoundsOK ==
  ASSUME NEW h, Mid(h), NEW g0, Round(h, g0)
  PROVE  LET round(g, k) == IF g.areas = <<>> THEN g ELSE ScavengeAreas(g)
             k == Fold(round, g0, <<0>> \o AddrSeq)
         IN  Round(h, k) /\ (~k.full => k.areas = <<>>)
<1> DEFINE round(g, k) == IF g.areas = <<>> THEN g ELSE ScavengeAreas(g)
           s == <<0>> \o AddrSeq
           M == NPages * Cap
           n == M + 1
           J == [i \in 0..n |-> {g \in Heaps : Rounds(h, g, i)}]
           O == [i \in 1..n |-> [g \in J[i - 1] |-> round(g, s[i])]]
           Is(f) == f = [i \in 0..n |-> IF i = 0 THEN g0 ELSE round(f[i - 1], s[i])]
           F == CHOOSE f : Is(f)
<1>0. M \in Nat /\ n \in Nat /\ Len(s) = n
  <2>1. Len(AddrSeq) = M /\ M \in Nat
    BY SeqOfAddrs
  <2>2. AddrSeq \in Seq(Int) /\ <<0>> \in Seq(Int)
    <3>1. AddrSeq \in [1..M -> Int]
      BY <2>1 DEF AddrSeq, Addrs
    <3>2. AddrSeq \in Seq(Int)
      BY <2>1, <3>1
    <3> QED BY <3>2
  <2>3. Len(s) = 1 + M
    BY <2>1, <2>2
  <2> QED BY <2>1, <2>3
<1>2. Fold(round, g0, s) = F[n]
  BY <1>0 DEF Fold
<1> HIDE DEF M, n, s, round
<1>3. g0 \in J[0]
  <2>1. Rounds(h, g0, 0)
    <3>1. Cardinality(Movable(g0)) <= NPages * Cap - 0
      BY MovableBound, SeqOfAddrs
    <3> QED BY <3>1 DEF Rounds
  <2>2. 0 \in 0..n
    BY <1>0
  <2> QED BY <2>1, <2>2 DEF Rounds, Round, Mid
<1>4. ASSUME NEW i \in 1..n, NEW g \in J[i - 1] PROVE round(g, s[i]) \in J[i]
  <2> DEFINE k == round(g, s[i])
  <2>0. i \in 0..n /\ i - 1 \in 0..n /\ i \in Int
    BY <1>0
  <2>1. Rounds(h, g, i - 1)
    BY <2>0
  <2>2. Rounds(h, k, i)
    <3>1. CASE g.areas = <<>>
      <4>1. k = g
        BY <3>1 DEF round
      <4> HIDE DEF k
      <4> QED BY <2>1, <3>1, <4>1 DEF Rounds
    <3>2. CASE g.areas # <<>>
      <4> DEFINE e == ScavengeAreas(g)
      <4>1. k = e
        BY <3>2 DEF round
      <4>2. Mid(g) /\ Round(h, g) /\ (~g.full => Cardinality(Movable(g)) <= NPages * Cap - (i - 1))
        BY <2>1, <3>2 DEF Rounds, Round
      <4>3. /\ Round(h, e) /\ Movable(e) \subseteq Movable(g) /\ (g.full => e.full)
            /\ ~e.full /\ Movable(e) = Movable(g) => e.areas = <<>>
        BY <4>2, ScavengeAreasOK
      <4> HIDE DEF e, k, J
      <4>4. ~e.full => e.areas = <<>> \/ Cardinality(Movable(e)) <= NPages * Cap - i
        <5> SUFFICES ASSUME ~e.full, e.areas # <<>> PROVE Cardinality(Movable(e)) <= NPages * Cap - i
          OBVIOUS
        <5>1. Cardinality(Movable(e)) < Cardinality(Movable(g))
          BY <4>3, FewerMovable
        <5>2. Cardinality(Movable(e)) \in Int /\ Cardinality(Movable(g)) \in Int /\ NPages * Cap \in Int
          BY MovableBound, SeqOfAddrs
        <5> DEFINE ce == Cardinality(Movable(e))
                   cg == Cardinality(Movable(g))
                   m  == NPages * Cap
        <5>3. cg <= m - (i - 1)
          BY <4>2, <4>3
        <5> HIDE DEF ce, cg, m
        <5>4. ce < cg /\ ce \in Int /\ cg \in Int /\ m \in Int
          BY <5>1, <5>2 DEF ce, cg, m
        <5>5. ce <= m - i
          BY <2>0, <5>3, <5>4
        <5> QED BY <5>5 DEF ce, m
      <4> QED BY <4>1, <4>3, <4>4 DEF Rounds
    <3> QED BY <3>1, <3>2
  <2>3. k \in Heaps
    BY <2>2 DEF Rounds, Round, Mid
  <2> QED BY <2>0, <2>2, <2>3
<1>5. \E f : Is(f)
  <2>1. \A i \in 1..n : \A g \in J[i - 1] : O[i][g] = round(g, s[i]) /\ O[i][g] \in J[i]
    BY <1>4
  <2> HIDE DEF J, O
  <2>2. \E f : Folds(f, n, g0, O) /\ \A i \in 0..n : f[i] \in J[i]
    BY <1>0, <1>3, <2>1, Folding
  <2>3. PICK f : /\ f = [i \in 0..n |-> IF i = 0 THEN g0 ELSE O[i][f[i - 1]]]
                 /\ \A i \in 0..n : f[i] \in J[i]
    BY <2>2 DEF Folds
  <2>4. \A i \in 0..n : i # 0 => O[i][f[i - 1]] = round(f[i - 1], s[i])
    <3> SUFFICES ASSUME NEW i \in 0..n, i # 0 PROVE O[i][f[i - 1]] = round(f[i - 1], s[i])
      OBVIOUS
    <3>1. i \in 1..n /\ i - 1 \in 0..n
      BY <1>0
    <3> QED BY <2>1, <2>3, <3>1
  <2>5. Is(f)
    BY <2>3, <2>4
  <2> QED BY <2>5
<1>6. Is(F)
  BY <1>5
<1> HIDE DEF F
<1>7. F[0] = g0 /\ \A i \in 1..n : F[i] = round(F[i - 1], s[i])
  BY <1>0, <1>6
<1>8. \A i \in 0..n : F[i] \in J[i]
  <2> HIDE DEF J, Is, O
  <2>1. F[0] \in J[0]
    BY <1>3, <1>7
  <2>2. \A i \in 1..n : F[i - 1] \in J[i - 1] => F[i] \in J[i]
    BY <1>4, <1>7
  <2> QED BY <1>0, <2>1, <2>2, Folded
<1> DEFINE e == F[n]
<1>9. Rounds(h, e, n)
  BY <1>0, <1>8
<1> HIDE DEF e
<1>10. ~e.full => e.areas = <<>>
  <2>1. Cardinality(Movable(e)) \in 0..M /\ (~e.full => e.areas = <<>> \/ Cardinality(Movable(e)) <= M - (M + 1))
    BY <1>9, MovableBound DEF Rounds, n, M
  <2>2. ~(Cardinality(Movable(e)) <= M - (M + 1))
    BY <1>0, <2>1
  <2> QED BY <2>1, <2>2
<1>11. Round(h, e)
  BY <1>9 DEF Rounds
<1> QED BY <1>2, <1>10, <1>11 DEF e, s, round

\* Everything that is kept is scavenged.
Saved(h, g) ==
  /\ Mid(g) /\ Sweep(h, g) /\ g.root = h.root
  /\ AllClosed(g) /\ g.areas = <<>> /\ g.below = 0
  /\ ~g.full => Unclean(g) = {}

\* The end of scavenge_newspace.
LEMMA NewspaceEnds ==
  ASSUME NEW h, Mid(h), NEW g, Round(h, g), ~g.full => g.areas = <<>>
  PROVE  Saved(h, [g EXCEPT !.areas = <<>>, !.below = 0])
<1> DEFINE T == Seq([start : Int, size : Nat])
           N == <<>>
           e == [g EXCEPT !.areas = N, !.below = 0]
<1>1. g \in Heaps /\ <<>> \in Seq([start : Int, size : Nat]) /\ Mid(g) /\ Sweep(h, g) /\ g.root = h.root
      /\ AllClosed(g)
  BY DEF Mid, Round
<1>t. N \in T
  OBVIOUS
<1> HIDE DEF N
<1>2. /\ e \in Heaps
      /\ e.page = g.page /\ e.word = g.word /\ e.bytes = g.bytes /\ e.from = g.from
      /\ e.new = g.new /\ e.region = g.region /\ e.areas = N /\ e.below = 0
      /\ e.pinned = g.pinned /\ e.chain = g.chain /\ e.root = g.root
      /\ e.lost = g.lost /\ e.full = g.full
  <2>1. g \in Heaps /\ N \in T
    BY <1>1, <1>t
  <2> HIDE DEF T
  <2>2. g \in Heaps
    BY <2>1
  <2>3. /\ e.page = g.page /\ e.word = g.word /\ e.bytes = g.bytes /\ e.from = g.from
        /\ e.new = g.new /\ e.region = g.region /\ e.areas = N /\ e.below = 0
        /\ e.pinned = g.pinned /\ e.chain = g.chain /\ e.root = g.root
        /\ e.lost = g.lost /\ e.full = g.full
    BY <2>2 DEF Heaps
  <2>4. e \in Heaps
    <3> DEFINE Z == 0
               m == [g EXCEPT !.areas = N, !.below = Z]
    <3>1. Z \in Int
      OBVIOUS
    <3>2. e = m
      OBVIOUS
    <3> HIDE DEF e, Z
    <3>3. m \in Heaps
      BY <2>1, <3>1 DEF Heaps, T
    <3> QED BY <3>2, <3>3
  <2> QED BY <2>3, <2>4
<1> HIDE DEF e
<1>3. \A x \in Int : InAreas(e.areas, x) => InAreas(g.areas, x)
  BY <1>2 DEF InAreas, N
<1>4. Mid(e) /\ Sweep(g, e) /\ Unclean(e) = Unclean(g)
  BY <1>1, <1>2, <1>3, BooksOnly
<1>5. Sweep(h, e)
  BY <1>1, <1>4, SweepTrans
<1>6. ~g.full => Unclean(g) = {}
  <2> SUFFICES ASSUME ~g.full, NEW x \in Unclean(g) PROVE FALSE
    OBVIOUS
  <2>1. x \in Due(g, NPages + 1) /\ g.areas = <<>>
    BY DEF Round
  <2>2. Len(g.areas) >= NumNewAreas \/ InAreas(g.areas, x)
    BY <1>1, <2>1, DueClosed
  <2>3. Len(<<>>) = 0 /\ ~InAreas(<<>>, x) /\ ~(0 >= NumNewAreas)
    BY GencgcAssumption DEF InAreas
  <2> QED BY <2>1, <2>2, <2>3
<1>7. Saved(h, e)
  BY <1>1, <1>2, <1>4, <1>5, <1>6 DEF Saved, AllClosed, N
<1> QED BY <1>7 DEF e, N

\* scavenge_newspace.
LEMMA ScavengeNewspaceOK ==
  ASSUME NEW h, Mid(h), h.below = 0, h.areas = <<>>, ~h.full => Unclean(h) \subseteq Due(h, 0)
  PROVE  Saved(h, ScavengeNewspace(h))
<1> DEFINE c == CloseRegions(h)
           f == FullScavenge(c)
           k == CloseRegions(f)
           round(g, i) == IF g.areas = <<>> THEN g ELSE ScavengeAreas(g)
           r == Fold(round, k, <<0>> \o AddrSeq)
           e == [r EXCEPT !.areas = <<>>, !.below = 0]
<1>1. /\ Mid(c) /\ Step(h, c) /\ Sweep(h, c) /\ c.full = h.full
  BY CloseRegionsOK
<1>2. Check(c, c.areas = <<>>) = c
  <2> HIDE DEF c
  <2>1. c.areas = <<>>
    BY <1>1 DEF Step
  <2> QED BY <2>1 DEF Check
<1> HIDE DEF c
<1>3. ~c.full => Unclean(c) \subseteq Due(c, 1)
  <2> SUFFICES ASSUME ~c.full, NEW x \in Unclean(c) PROVE x \in Due(c, 1)
    OBVIOUS
  <2>1. x \in Unclean(h) \/ x \in Due(c, 0)
    BY <1>1, StepUnclean
  <2>2. x \in Due(c, 0)
    BY <1>1, <2>1 DEF Step
  <2>3. x \in Addrs /\ Cell(c, x) /\ Gen(c, x) = c.new
    BY <2>2 DEF Due
  <2>4. Page(x) >= 1
    BY <2>3, PageSlot DEF Pages
  <2> QED BY <2>3, <2>4 DEF Due
<1>4. Passed(c, f, NPages) /\ f.below = NPages + 1
  BY <1>1, <1>3, FullScavengeOK
<1> HIDE DEF f
<1>5. /\ Mid(f) /\ Sweep(h, f) /\ f.root = h.root
      /\ ~f.full => Unclean(f) \subseteq Due(f, NPages + 1)
  <2>1. Sweep(c, f) /\ f.root = c.root /\ c.root = h.root
    BY <1>1, <1>4 DEF Passed, Grow, Step
  <2> QED BY <1>1, <1>4, <2>1, SweepTrans DEF Passed
<1>6. Round(h, k)
  BY <1>4, <1>5, RoundEnds
<1> HIDE DEF k
<1>7. Round(h, r) /\ (~r.full => r.areas = <<>>)
  BY <1>6, RoundsOK
<1> HIDE DEF r
<1>8. Saved(h, e)
  BY <1>7, NewspaceEnds
<1>9. Check(r, r.full \/ r.areas = <<>>) = r
  BY <1>7 DEF Check
<1>10. ScavengeNewspace(h) = [Check(r, r.full \/ r.areas = <<>>) EXCEPT !.areas = <<>>, !.below = 0]
  BY <1>2 DEF ScavengeNewspace, r, k, f, c
<1>11. ScavengeNewspace(h) = e
  BY <1>9, <1>10
<1> HIDE DEF e
<1> QED BY <1>8, <1>11

\* From the roots to the end of scavenging.
LEMMA ScavengeAllOK ==
  ASSUME NEW h, Mid(h), h.below = 0, h.areas = <<>>, NEW from, RootsFrom(h, from)
  PROVE  LET g == ScavengeNewspace(ScavengePinned(ScavengeRootGens(ScavengeRoots(h), from)))
         IN  /\ Mid(g) /\ Sweep(h, g)
             /\ AllClosed(g) /\ g.areas = <<>> /\ g.below = 0
             /\ ~g.full => /\ Unclean(g) = {}
                           /\ \A r \in Roots : g.root[r] = Nil \/ (IsObj(g, g.root[r]) /\ Kept(g, g.root[r]))
<1> DEFINE a == ScavengeRoots(h)
           b == ScavengeRootGens(a, from)
           c == ScavengePinned(b)
           g == ScavengeNewspace(c)
<1>1. Rooted(h, a, Cardinality(Roots))
  BY ScavengeRootsOK
<1> HIDE DEF a
<1>2. Mid(a) /\ Sweep(h, a) /\ a.below = 0 /\ a.areas = <<>> /\ RootsFrom(a, from)
  BY <1>1 DEF Rooted, RootsFrom, Sweep
<1>3. Swept(a, b, Addrs \ a.pinned)
  BY <1>2, ScavengeRootGensOK
<1> HIDE DEF b
<1>4. Mid(b) /\ b.pinned = a.pinned
  BY <1>3 DEF Swept, Work, Grow, Sweep
<1>5. Swept(b, c, b.pinned)
  BY <1>4, ScavengePinnedOK
<1> HIDE DEF c
<1>6. Swept(a, c, Addrs)
  <2>1. Swept(a, c, (Addrs \ a.pinned) \cup b.pinned)
    BY <1>2, <1>3, <1>5, SweptTrans
  <2>2. (Addrs \ a.pinned) \cup b.pinned = Addrs
    BY <1>2, <1>4 DEF Mid, Heaps
  <2> QED BY <2>1, <2>2
<1>7. /\ Mid(c) /\ Sweep(a, c) /\ c.root = a.root /\ c.below = 0 /\ c.areas = <<>>
      /\ a.full => c.full
  BY <1>2, <1>6 DEF Swept, Work, Grow, Sweep
<1>8. ~c.full => Unclean(c) \subseteq Due(c, 0)
  BY <1>2, <1>6 DEF Swept, Unclean
<1>9. Saved(c, g)
  BY <1>7, <1>8, ScavengeNewspaceOK
<1> HIDE DEF g
<1>10. Mid(g) /\ Sweep(c, g) /\ g.root = a.root /\ (c.full => g.full)
       /\ AllClosed(g) /\ g.areas = <<>> /\ g.below = 0 /\ (~g.full => Unclean(g) = {})
  BY <1>7, <1>9 DEF Saved, Sweep
<1>11. Sweep(a, g)
  BY <1>2, <1>7, <1>10, SweepTrans
<1>12. Sweep(h, g)
  BY <1>2, <1>11, SweepTrans
<1>13. ASSUME ~g.full, NEW r \in Roots PROVE g.root[r] = Nil \/ (IsObj(g, g.root[r]) /\ Kept(g, g.root[r]))
  <2>1. ~a.full
    BY <1>7, <1>10, <1>13
  <2>2. PICK i \in 1..Cardinality(Roots) : RootSeq[i] = r
    BY RootsOrdered
  <2> DEFINE x == a.root[r]
  <2>3. x = Nil \/ (IsObj(a, x) /\ Kept(a, x))
    BY <1>1, <2>1, <2>2 DEF Rooted, RootsSaved
  <2> HIDE DEF x
  <2>4. x = Nil \/ (IsObj(g, x) /\ Kept(g, x))
    BY <1>2, <1>11, <2>3, KeptStays
  <2> QED BY <1>10, <2>4 DEF x
<1> QED BY <1>10, <1>12, <1>13 DEF g, c, b, a
==============================================================================
