---------------------------- MODULE GencgcProofs -----------------------------
(* A whole collection, the program that it interrupts, and the theorems about  *)
(* Gencgc.                                                                     *)
EXTENDS GencgcScavenging

------------------------------------------------------------------------------
(* Marks of cards.                                                          *)

\* Only marks differ.
Remarked(h, g) ==
  /\ h \in Heaps /\ g \in Heaps
  /\ g.word = h.word /\ g.bytes = h.bytes /\ g.from = h.from
  /\ g.new = h.new /\ g.region = h.region /\ g.areas = h.areas /\ g.below = h.below
  /\ g.pinned = h.pinned /\ g.chain = h.chain /\ g.root = h.root
  /\ g.lost = h.lost /\ g.full = h.full
  /\ \A p \in Pages : /\ g.page[p].type = h.page[p].type /\ g.page[p].gen = h.page[p].gen
                      /\ g.page[p].fill = h.page[p].fill

\* The marks of these pages change.
LEMMA SetMarksOK ==
  ASSUME NEW h \in Heaps, NEW P, NEW m \in Marks
  PROVE  LET g == SetMarks(h, P, m)
         IN  /\ Remarked(h, g)
             /\ \A p \in Pages : /\ g.page[p].mark = IF p \in P THEN m ELSE h.page[p].mark
                                 /\ p \notin P => g.page[p] = h.page[p]
<1> DEFINE Q == [p \in Pages |-> IF p \in P THEN [h.page[p] EXCEPT !.mark = m] ELSE h.page[p]]
           g == [h EXCEPT !.page = Q]
           T == [type : PageTypes, gen : Generations, mark : Marks, fill : 0..Cap]
<1>1. \A p \in Pages : h.page[p] \in T
  BY PageType
<1>2. /\ Q \in [Pages -> T]
      /\ \A p \in Pages : /\ Q[p].type = h.page[p].type /\ Q[p].gen = h.page[p].gen
                          /\ Q[p].fill = h.page[p].fill
                          /\ Q[p].mark = IF p \in P THEN m ELSE h.page[p].mark
                          /\ p \notin P => Q[p] = h.page[p]
  <2>1. ASSUME NEW p \in Pages
        PROVE  /\ Q[p] \in T
               /\ Q[p].type = h.page[p].type /\ Q[p].gen = h.page[p].gen
               /\ Q[p].fill = h.page[p].fill
               /\ Q[p].mark = IF p \in P THEN m ELSE h.page[p].mark
               /\ p \notin P => Q[p] = h.page[p]
    <3> DEFINE c == h.page[p]
    <3>1. c \in T
      BY <1>1
    <3>2. Q[p] = IF p \in P THEN [c EXCEPT !.mark = m] ELSE c
      OBVIOUS
    <3> HIDE DEF c, Q
    <3>3. CASE p \in P
      BY <3>1, <3>2, <3>3 DEF c
    <3>4. CASE p \notin P
      BY <3>1, <3>2, <3>4 DEF c
    <3> QED BY <3>3, <3>4
  <2>2. DOMAIN Q = Pages
    OBVIOUS
  <2>3. Q = [p \in Pages |-> Q[p]]
    OBVIOUS
  <2> HIDE DEF Q
  <2> QED BY <2>1, <2>3
<1> HIDE DEF Q
<1>3. /\ g \in Heaps /\ g.page = Q
      /\ g.word = h.word /\ g.bytes = h.bytes /\ g.from = h.from
      /\ g.new = h.new /\ g.region = h.region /\ g.areas = h.areas /\ g.below = h.below
      /\ g.pinned = h.pinned /\ g.chain = h.chain /\ g.root = h.root
      /\ g.lost = h.lost /\ g.full = h.full
  BY <1>2 DEF Heaps
<1>4. SetMarks(h, P, m) = g
  BY DEF SetMarks, Q
<1> HIDE DEF g
<1> QED BY <1>2, <1>3, <1>4 DEF Remarked

\* What does not depend on the marks.
LEMMA RemarkedSame ==
  ASSUME NEW h, NEW g, Remarked(h, g)
  PROVE  /\ \A x : /\ Cell(g, x) <=> Cell(h, x)
                   /\ IsObj(g, x) <=> IsObj(h, x)
                   /\ IsFwd(g, x) <=> IsFwd(h, x)
                   /\ Target(g, x) <=> Target(h, x)
                   /\ Kept(g, x) <=> Kept(h, x)
         /\ \A x \in Addrs : /\ Gen(g, x) = Gen(h, x)
                             /\ InFromSpace(g, x) <=> InFromSpace(h, x)
                             /\ g.page[Page(x)].type = h.page[Page(x)].type
         /\ \A p \in Pages : Used(g, p) = Used(h, p)
         /\ \A k : CellsOf(g, k) = CellsOf(h, k)
         /\ SpacesOK(g) <=> SpacesOK(h)
         /\ RefsOK(g) <=> RefsOK(h)
         /\ BytesOK(g) <=> BytesOK(h)
         /\ GensOK(g) <=> GensOK(h)
         /\ AreasOK(g) <=> AreasOK(h)
         /\ ScratchOK(g) <=> ScratchOK(h)
         /\ ForwardsOK(h) => ForwardsOK(g)
         /\ PinnedOK(h) => PinnedOK(g)
         /\ ChainOK(h) /\ RefsOK(h) => ChainOK(g)
<1>0. /\ \A x \in Addrs : Page(x) \in Pages
      /\ g.word = h.word /\ g.bytes = h.bytes /\ g.from = h.from
      /\ g.new = h.new /\ g.region = h.region /\ g.areas = h.areas
      /\ g.pinned = h.pinned /\ g.chain = h.chain /\ g.root = h.root
  BY PageSlot DEF Remarked
<1>1. /\ \A x : Cell(g, x) <=> Cell(h, x)
      /\ \A x \in Addrs : /\ Gen(g, x) = Gen(h, x)
                          /\ InFromSpace(g, x) <=> InFromSpace(h, x)
                          /\ g.page[Page(x)].type = h.page[Page(x)].type
  BY <1>0 DEF Remarked, Cell, Gen, InFromSpace
<1>2. \A x : /\ IsObj(g, x) <=> IsObj(h, x)
             /\ IsFwd(g, x) <=> IsFwd(h, x)
             /\ Target(g, x) <=> Target(h, x)
             /\ Kept(g, x) <=> Kept(h, x)
             /\ Cell(h, x) => x \in Addrs
  BY <1>0, <1>1 DEF IsObj, IsFwd, Target, Kept, Cell
<1>3. \A p \in Pages : Used(g, p) = Used(h, p)
  <2> SUFFICES ASSUME NEW p \in Pages PROVE Used(g, p) = Used(h, p)
    OBVIOUS
  <2>1. g.page[p].fill = h.page[p].fill /\ g.region = h.region
    BY DEF Remarked
  <2> QED BY <2>1 DEF Used, Open
<1>4. \A k : CellsOf(g, k) = CellsOf(h, k)
  BY <1>0, <1>1, <1>3 DEF CellsOf
<1>5. (SpacesOK(g) <=> SpacesOK(h)) /\ (RefsOK(g) <=> RefsOK(h)) /\ (BytesOK(g) <=> BytesOK(h))
  BY <1>0, <1>2, <1>4 DEF SpacesOK, RefsOK, BytesOK
<1>6. (GensOK(g) <=> GensOK(h)) /\ (AreasOK(g) <=> AreasOK(h)) /\ (ScratchOK(g) <=> ScratchOK(h))
  <2>1. GensOK(g) <=> GensOK(h)
    BY <1>0, <1>1 DEF GensOK
  <2>2. AreasOK(g) <=> AreasOK(h)
    BY <1>0, <1>1, <1>2 DEF AreasOK
  <2>3. ScratchOK(g) <=> ScratchOK(h)
    BY <1>0 DEF ScratchOK, Remarked
  <2> QED BY <2>1, <2>2, <2>3
<1>7. ForwardsOK(h) => ForwardsOK(g)
  <2> SUFFICES ASSUME ForwardsOK(h), NEW a \in Addrs, IsFwd(h, a)
               PROVE  /\ InFromSpace(g, a) /\ g.page[Page(a)].type # "large"
                      /\ IsObj(g, g.word[a].to) /\ Gen(g, g.word[a].to) = g.new
    BY <1>2 DEF ForwardsOK
  <2>1. /\ InFromSpace(h, a) /\ h.page[Page(a)].type # "large"
        /\ IsObj(h, h.word[a].to) /\ Gen(h, h.word[a].to) = h.new
    BY DEF ForwardsOK
  <2>2. h.word[a].to \in Addrs
    BY <2>1 DEF IsObj, Cell
  <2> QED BY <1>0, <1>1, <1>2, <2>1, <2>2
<1>8. PinnedOK(h) => PinnedOK(g)
  <2>1. h.pinned \subseteq Addrs
    BY DEF Remarked, Heaps
  <2> QED BY <1>0, <1>1, <1>2, <2>1 DEF PinnedOK
<1>9. ChainOK(h) /\ RefsOK(h) => ChainOK(g)
  <2> SUFFICES ASSUME ChainOK(h), RefsOK(h), NEW x \in h.chain
               PROVE  /\ IsObj(g, x) /\ Kept(g, x) /\ g.word[x].weak
                      /\ LET r == g.word[x].ref IN
                         r # Nil /\ Gen(g, r) \in {g.from, g.new} /\ r \notin g.pinned
    BY <1>0 DEF ChainOK
  <2> DEFINE r == h.word[x].ref
  <2>1. /\ IsObj(h, x) /\ Kept(h, x) /\ h.word[x].weak
        /\ r # Nil /\ Gen(h, r) \in {h.from, h.new} /\ r \notin h.pinned
    BY DEF ChainOK
  <2>2. r \in Addrs
    BY <2>1 DEF RefsOK, Target, Cell, IsObj
  <2> QED BY <1>0, <1>1, <1>2, <2>1, <2>2
<1> QED BY <1>1, <1>2, <1>3, <1>4, <1>5, <1>6, <1>7, <1>8, <1>9

------------------------------------------------------------------------------
(* The start of a collection.                                               *)

\* A collection that has not moved anything.
Begun(h) ==
  /\ Mid(h) /\ AllClosed(h) /\ h.areas = <<>> /\ h.below = 0
  /\ h.chain = {} /\ NoForwards(h) /\ ~h.lost /\ ~h.full

\* The same words on the same pages.
SameWords(h, g) ==
  /\ g.word = h.word /\ g.root = h.root
  /\ \A p \in Pages : /\ g.page[p].type = h.page[p].type /\ g.page[p].gen = h.page[p].gen
                      /\ g.page[p].fill = h.page[p].fill

\* Nothing is in the scratch generation between collections.
LEMMA ScratchEmpty ==
  ASSUME NEW h \in Heaps, BytesOK(h), NEW i \in Generations,
         \A a \in Addrs : Cell(h, a) => Gen(h, a) # i, h.region = [t \in Regions |-> Closed]
  PROVE  h.bytes[i] = 0
<1>1. CellsOf(h, i) = {}
  <2> SUFFICES ASSUME NEW a \in Addrs, Gen(h, a) = i, Slot(a) <= Used(h, Page(a)) PROVE FALSE
    BY DEF CellsOf
  <2>1. ~Open(h, Page(a))
    <3>1. Page(a) # 0
      BY PageSlot, NilFacts
    <3> QED BY <3>1 DEF Open, Regions, Closed
  <2>2. Cell(h, a)
    BY <2>1, UsedClosed DEF Cell
  <2> QED BY <2>2
<1> QED BY <1>1, FS_EmptySet DEF BytesOK

\* The start of garbage_collect_generation.
LEMMA FlipSpacesOK ==
  ASSUME NEW h, Rest(h), NEW gen \in 0..Oldest, NEW raise \in BOOLEAN, Empty(h, gen)
  PROVE  LET g == FlipSpaces(h, gen, raise)
         IN  /\ Begun(g) /\ SameWords(h, g) /\ g.pinned = {}
             /\ g.from = gen /\ g.new = IF raise THEN gen + 1 ELSE Scratch
             /\ \A p \in Pages : h.page[p].gen # gen => g.page[p].mark = h.page[p].mark
<1> DEFINE N == IF raise THEN gen + 1 ELSE Scratch
           s == [h EXCEPT !.from = gen, !.new = N]
           P == {p \in Pages : s.page[p].gen = s.from /\ s.page[p].fill # 0}
           u == SetMarks(s, P, "marked")
           g == IF s.from = 0 THEN s ELSE u
<1>0. Oldest \in Nat /\ gen \in Int /\ gen \in Generations /\ Scratch = Oldest + 1 /\ gen # Scratch
  BY GencgcAssumption DEF Generations, Scratch
<1>1. N \in Generations /\ N # gen /\ N # 0 /\ N \in {gen + 1, Scratch}
  BY <1>0 DEF Generations
<1>2. h \in Heaps
  BY DEF Rest
<1> HIDE DEF N
<1>3. /\ s \in Heaps
      /\ s.page = h.page /\ s.word = h.word /\ s.bytes = h.bytes /\ s.from = gen
      /\ s.new = N /\ s.region = h.region /\ s.areas = h.areas /\ s.below = h.below
      /\ s.pinned = h.pinned /\ s.chain = h.chain /\ s.root = h.root
      /\ s.lost = h.lost /\ s.full = h.full
  BY <1>0, <1>1, <1>2 DEF Heaps
<1>4. FlipSpaces(h, gen, raise) = g
  <2>1. raise \/ h.bytes[Scratch] = 0
    <3>1. \A a \in Addrs : Cell(h, a) => Gen(h, a) # Scratch
      BY PageSlot DEF Rest, NoScratch, Gen
    <3>2. Scratch \in Generations
      BY <1>0 DEF Generations
    <3> QED BY <3>1, <3>2, ScratchEmpty DEF Rest, Quiet
  <2>2. Check(s, raise \/ h.bytes[Scratch] = 0) = s
    BY <2>1 DEF Check
  <2> QED BY <2>2 DEF FlipSpaces, UnprotectOldspace, N
<1> HIDE DEF s
<1>5. /\ Remarked(s, g)
      /\ \A p \in Pages : IF gen # 0 /\ p \in P THEN g.page[p].mark = "marked" ELSE g.page[p] = s.page[p]
  <2>1. CASE gen = 0
    <3>1. g = s
      BY <1>3, <2>1
    <3> HIDE DEF g
    <3> QED BY <1>3, <2>1, <3>1 DEF Remarked
  <2>2. CASE gen # 0
    <3>1. g = u
      BY <1>3, <2>2
    <3>2. "marked" \in Marks
      BY DEF Marks
    <3> HIDE DEF g, P
    <3>3. /\ Remarked(s, u)
          /\ \A p \in Pages : /\ u.page[p].mark = IF p \in P THEN "marked" ELSE s.page[p].mark
                              /\ p \notin P => u.page[p] = s.page[p]
      BY <1>3, <3>2, SetMarksOK
    <3> HIDE DEF u
    <3> QED BY <2>2, <3>1, <3>3
  <2> QED BY <2>1, <2>2
<1> HIDE DEF g, u
<1>6. /\ g \in Heaps
      /\ g.word = h.word /\ g.bytes = h.bytes /\ g.from = gen /\ g.new = N
      /\ g.region = [t \in Regions |-> Closed] /\ g.areas = <<>> /\ g.below = 0
      /\ g.pinned = {} /\ g.chain = {} /\ g.root = h.root /\ ~g.lost /\ ~g.full
      /\ \A p \in Pages : /\ g.page[p].type = h.page[p].type /\ g.page[p].gen = h.page[p].gen
                          /\ g.page[p].fill = h.page[p].fill
  BY <1>3, <1>5 DEF Remarked, Rest, Quiet
<1>7. /\ \A x : /\ Cell(g, x) <=> Cell(h, x)
                /\ IsObj(g, x) <=> IsObj(h, x)
                /\ IsFwd(g, x) <=> IsFwd(h, x)
                /\ Target(g, x) <=> Target(h, x)
      /\ \A x \in Addrs : Gen(g, x) = Gen(h, x)
      /\ RefsOK(g) /\ BytesOK(g)
  <2>1. /\ \A x : /\ Cell(s, x) <=> Cell(h, x)
                  /\ IsObj(s, x) <=> IsObj(h, x)
                  /\ IsFwd(s, x) <=> IsFwd(h, x)
                  /\ Target(s, x) <=> Target(h, x)
        /\ \A x : Gen(s, x) = Gen(h, x)
        /\ \A k : CellsOf(s, k) = CellsOf(h, k)
    BY <1>3 DEF Cell, IsObj, IsFwd, Target, Gen, CellsOf, Used, Open
  <2>2. RefsOK(s) /\ BytesOK(s)
    BY <1>3, <2>1 DEF Rest, RefsOK, BytesOK
  <2> QED BY <1>5, <2>1, <2>2, RemarkedSame
<1>8. \A x \in Addrs : Page(x) \in Pages
  BY PageSlot
<1>9. \A p \in Pages : h.page[p].gen # gen => g.page[p].mark = h.page[p].mark
  BY <1>3, <1>5
<1>10. FreeOK(g)
  <2> SUFFICES ASSUME NEW p \in Pages, g.page[p].type = "free" PROVE g.page[p] = FreePage
    BY DEF FreeOK
  <2>1. h.page[p] = FreePage
    BY <1>6 DEF Rest, FreeOK
  <2>2. s.page[p].fill = 0
    BY <1>3, <2>1 DEF FreePage
  <2> QED BY <1>3, <1>5, <2>1, <2>2
<1>11. SpacesOK(g)
  BY <1>1, <1>6 DEF SpacesOK
<1>12. RegionsOK(g) /\ AllClosed(g)
  BY <1>6 DEF RegionsOK, AllClosed
<1>13. NoForwards(g) /\ ForwardsOK(g)
  BY <1>7 DEF Rest, NoForwards, ForwardsOK
<1>14. PinnedOK(g) /\ ChainOK(g)
  BY <1>6 DEF PinnedOK, ChainOK
<1>15. GensOK(g)
  BY <1>6, <1>7, <1>8 DEF GensOK, Rest, Empty, NoScratch, Gen
<1>16. CleanOK(g)
  <2> SUFFICES ASSUME NEW x \in Addrs, IsObj(h, x), Gen(h, x) # gen, Mark(g, x) = "clear",
                      NEW r, r = h.word[x].ref, r # Nil
               PROVE  Gen(h, x) <= Gen(g, r) /\ Gen(g, r) <= Oldest
    BY <1>6, <1>7 DEF CleanOK
  <2>1. Mark(h, x) = "clear"
    BY <1>8, <1>9 DEF Mark, Gen
  <2>2. r \in Addrs /\ Cell(h, r)
    BY DEF Rest, RefsOK, Target, Cell
  <2>3. ~(Gen(h, r) < Gen(h, x))
    BY <2>1 DEF Rest, CoverOK
  <2>4. Gen(h, r) \in 0..Scratch /\ Gen(h, x) \in 0..Scratch /\ Gen(h, r) # Scratch
    BY <1>2, <1>8, <2>2, PageType DEF Rest, NoScratch, Gen, Generations
  <2> QED BY <1>0, <1>7, <2>2, <2>3, <2>4
<1>17. MarksOK(g)
  <2> SUFFICES ASSUME NEW a \in Addrs, Cell(h, a), Gen(h, a) \in {gen, Scratch}
               PROVE  Mark(g, a) # "clear"
    BY <1>6, <1>7 DEF MarksOK
  <2>1. Gen(h, a) = gen
    BY <1>8 DEF Rest, NoScratch, Gen
  <2>2. CASE gen = 0
    <3>1. Mark(g, a) = Mark(h, a)
      BY <1>3, <1>5, <1>8, <2>2 DEF Mark
    <3> QED BY <2>1, <2>2, <3>1 DEF Rest, NurseryOK
  <2>3. CASE gen # 0
    <3>1. Page(a) \in Pages /\ h.page[Page(a)].fill # 0
      <4>1. Slot(a) \in 1..Cap /\ Slot(a) <= h.page[Page(a)].fill
        BY PageSlot DEF Cell
      <4> QED BY <1>8, <4>1
    <3>2. Page(a) \in P
      BY <1>3, <2>1, <3>1 DEF Gen
    <3>3. g.page[Page(a)].mark = "marked"
      BY <1>5, <2>3, <3>1, <3>2
    <3> QED BY <3>3 DEF Mark
  <2> QED BY <2>2, <2>3
<1>18. AreasOK(g)
  BY <1>6 DEF AreasOK, InAreas
<1>19. ScratchOK(g)
  BY <1>6 DEF ScratchOK, Rest, NoScratch
<1>20. Mid(g)
  BY <1>6, <1>7, <1>10, <1>11, <1>12, <1>13, <1>14, <1>15, <1>16, <1>17, <1>18, <1>19 DEF Mid
<1>21. Begun(g) /\ SameWords(h, g)
  BY <1>6, <1>12, <1>13, <1>20 DEF Begun, SameWords
<1> QED BY <1>4, <1>6, <1>9, <1>21 DEF N

\* impart_mark_stickiness.
LEMMA StickinessOK ==
  ASSUME NEW h, Begun(h), NEW P, \A p \in P : p \in Pages => h.page[p].type # "free"
  PROVE  LET g == SetMarks(h, P, "sticky")
         IN  /\ Begun(g) /\ SameWords(h, g) /\ g.pinned = h.pinned
             /\ g.from = h.from /\ g.new = h.new
             /\ \A p \in Pages : g.page[p].mark = IF p \in P THEN "sticky" ELSE h.page[p].mark
<1> DEFINE g == SetMarks(h, P, "sticky")
<1>1. Mid(h) /\ h \in Heaps /\ "sticky" \in Marks
  BY DEF Begun, Mid, Marks
<1>2. /\ Remarked(h, g)
      /\ \A p \in Pages : /\ g.page[p].mark = IF p \in P THEN "sticky" ELSE h.page[p].mark
                          /\ p \notin P => g.page[p] = h.page[p]
  BY <1>1, SetMarksOK
<1> HIDE DEF g
<1>3. /\ \A x : /\ Cell(g, x) <=> Cell(h, x)
                /\ IsObj(g, x) <=> IsObj(h, x)
                /\ IsFwd(g, x) <=> IsFwd(h, x)
      /\ \A x \in Addrs : Gen(g, x) = Gen(h, x)
      /\ SpacesOK(g) /\ RefsOK(g) /\ BytesOK(g) /\ GensOK(g) /\ AreasOK(g) /\ ScratchOK(g)
      /\ ForwardsOK(g) /\ PinnedOK(g) /\ ChainOK(g)
  BY <1>1, <1>2, RemarkedSame DEF Mid
<1>4. \A x \in Addrs : Mark(g, x) # "sticky" => Mark(g, x) = Mark(h, x)
  BY <1>2, PageSlot DEF Mark
<1>5. FreeOK(g)
  BY <1>1, <1>2 DEF Mid, FreeOK, Remarked
<1>6. RegionsOK(g) /\ AllClosed(g)
  BY <1>2 DEF Begun, RegionsOK, AllClosed, Remarked
<1>7. CleanOK(g)
  <2> SUFFICES ASSUME NEW x \in Addrs, IsObj(h, x), Gen(h, x) # h.from, Mark(g, x) = "clear",
                      NEW r, r = h.word[x].ref, r # Nil
               PROVE  Gen(h, x) <= Gen(g, r) /\ Gen(g, r) <= Oldest
    BY <1>2, <1>3 DEF CleanOK, Remarked
  <2>1. Mark(h, x) = "clear"
    BY <1>4
  <2>2. r \in Addrs
    BY <1>1 DEF Mid, RefsOK, Target, Cell
  <2> QED BY <1>1, <1>3, <2>1, <2>2 DEF Mid, CleanOK
<1>8. MarksOK(g)
  BY <1>1, <1>2, <1>3, <1>4 DEF Mid, MarksOK, Remarked
<1>9. Mid(g)
  BY <1>2, <1>3, <1>5, <1>6, <1>7, <1>8 DEF Mid, Remarked
<1>10. Begun(g) /\ SameWords(h, g) /\ g.pinned = h.pinned /\ g.from = h.from /\ g.new = h.new
  BY <1>2, <1>3, <1>6, <1>9 DEF Begun, SameWords, Remarked, NoForwards
<1> QED BY <1>2, <1>10 DEF g

\* pin_object.
LEMMA PinOK ==
  ASSUME NEW h, Begun(h), NEW S \in SUBSET Addrs,
         \A a \in S : IsObj(h, a) /\ Gen(h, a) = h.from /\ h.page[Page(a)].type # "large"
  PROVE  LET g == [h EXCEPT !.pinned = S]
         IN  /\ Begun(g) /\ SameWords(h, g) /\ g.page = h.page /\ g.pinned = S
             /\ g.from = h.from /\ g.new = h.new
<1> DEFINE g == [h EXCEPT !.pinned = S]
<1>1. Mid(h) /\ h \in Heaps
  BY DEF Begun, Mid
<1>2. /\ g \in Heaps
      /\ g.page = h.page /\ g.word = h.word /\ g.bytes = h.bytes /\ g.from = h.from
      /\ g.new = h.new /\ g.region = h.region /\ g.areas = h.areas /\ g.below = h.below
      /\ g.pinned = S /\ g.chain = h.chain /\ g.root = h.root
      /\ g.lost = h.lost /\ g.full = h.full
  BY <1>1 DEF Heaps
<1> HIDE DEF g
<1>3. /\ \A x : /\ Cell(g, x) <=> Cell(h, x)
                /\ IsObj(g, x) <=> IsObj(h, x)
                /\ IsFwd(g, x) <=> IsFwd(h, x)
                /\ Target(g, x) <=> Target(h, x)
                /\ Gen(g, x) = Gen(h, x) /\ Mark(g, x) = Mark(h, x)
      /\ \A k : CellsOf(g, k) = CellsOf(h, k)
  BY <1>2 DEF Cell, IsObj, IsFwd, Target, Gen, Mark, CellsOf, Used, Open
<1>4. FreeOK(g) /\ SpacesOK(g) /\ RegionsOK(g) /\ ScratchOK(g) /\ GensOK(g) /\ AreasOK(g)
  <2>1. FreeOK(g) /\ SpacesOK(g) /\ RegionsOK(g) /\ ScratchOK(g)
    BY <1>1, <1>2 DEF Mid, FreeOK, SpacesOK, RegionsOK, ScratchOK
  <2>2. GensOK(g) /\ AreasOK(g)
    BY <1>1, <1>2, <1>3 DEF Mid, GensOK, AreasOK
  <2> QED BY <2>1, <2>2
<1>5. RefsOK(g) /\ BytesOK(g) /\ CleanOK(g) /\ MarksOK(g)
  <2>1. RefsOK(g)
    BY <1>1, <1>2, <1>3 DEF Mid, RefsOK
  <2>2. BytesOK(g)
    BY <1>1, <1>2, <1>3 DEF Mid, BytesOK
  <2>3. CleanOK(g)
    BY <1>1, <1>2, <1>3 DEF Mid, CleanOK
  <2>4. MarksOK(g)
    BY <1>1, <1>2, <1>3 DEF Mid, MarksOK
  <2> QED BY <2>1, <2>2, <2>3, <2>4
<1>6. NoForwards(g) /\ ForwardsOK(g) /\ ChainOK(g)
  BY <1>2, <1>3 DEF Begun, NoForwards, ForwardsOK, ChainOK
<1>7. PinnedOK(g)
  BY <1>2, <1>3 DEF PinnedOK
<1>8. Mid(g)
  BY <1>2, <1>4, <1>5, <1>6, <1>7 DEF Mid
<1>9. Begun(g) /\ SameWords(h, g)
  BY <1>2, <1>6, <1>8 DEF Begun, SameWords, AllClosed
<1> QED BY <1>2, <1>9 DEF g

\* "a" is the address of a word, when no region is open.
LEMMA InUseCell ==
  ASSUME NEW h, Mid(h), AllClosed(h), NEW a \in Addrs
  PROVE  InUse(h, a) <=> Cell(h, a)
<1>1. Page(a) \in Pages /\ a # Nil
  BY PageSlot, NilFacts
<1>2. ~Open(h, Page(a))
  BY <1>1, NilFacts DEF Open, AllClosed, Regions, Closed
<1>3. Used(h, Page(a)) = h.page[Page(a)].fill
  BY <1>2, UsedClosed
<1>4. Cell(h, a) => h.page[Page(a)].type # "free"
  BY CellPage
<1> QED BY <1>1, <1>3, <1>4 DEF InUse, Cell

\* What the registers keep.
Scanned(h, g, regs) ==
  /\ Begun(g) /\ g.from = h.from /\ g.new = h.new
  /\ g.word = h.word /\ g.root = h.root
  /\ \A x \in Addrs : Cell(h, x) =>
       /\ Cell(g, x)
       /\ Gen(g, x) = Gen(h, x) \/ (Gen(h, x) = h.from /\ Gen(g, x) = h.new)
       /\ Mark(h, x) = "sticky" => Mark(g, x) = "sticky"
  /\ \A a \in regs : /\ IsObj(g, a) /\ Kept(g, a)
                     /\ h.from = 0 /\ Gen(h, a) # 0 /\ Mark(h, a) = "marked" => Mark(g, a) = "sticky"

\* conservative_stack_scan.
LEMMA StackScanOK ==
  ASSUME NEW h, Begun(h), h.pinned = {}, NEW regs \in SUBSET Addrs, \A a \in regs : IsObj(h, a),
         NEW junk \in SUBSET Addrs
  PROVE  Scanned(h, StackScan(h, regs, junk), regs)
<1> DEFINE P == {p \in {Page(a) : a \in {b \in regs : InUse(h, b)}} :
                   h.from = 0 /\ h.page[p].gen # 0 /\ h.page[p].mark = "marked"}
           s == SetMarks(h, P, "sticky")
           pins == ConservativeRoots(s, regs \cup junk)
           S == {a \in pins : ~Single(s, Page(a))}
           o == [s EXCEPT !.pinned = S]
           L == {Page(a) : a \in {b \in pins : Single(o, Page(b))}}
           g == MovePages(o, L)
<1>0. Mid(h) /\ AllClosed(h) /\ NoForwards(h) /\ \A x \in Addrs : Page(x) \in Pages
  BY PageSlot DEF Begun
<1>1. /\ Begun(s) /\ SameWords(h, s) /\ s.pinned = h.pinned
      /\ s.from = h.from /\ s.new = h.new
      /\ \A p \in Pages : s.page[p].mark = IF p \in P THEN "sticky" ELSE h.page[p].mark
  <2>1. \A p \in P : h.page[p].type # "free"
    BY DEF InUse
  <2> HIDE DEF P
  <2> QED BY <2>1, StickinessOK
<1>2. StackScan(h, regs, junk) = g
  BY DEF StackScan, ImpartStickiness, PinObjects, MovePinnedPages
<1> HIDE DEF s
<1>3. Mid(s) /\ AllClosed(s)
  BY <1>1 DEF Begun
<1>4. /\ \A x : /\ Cell(s, x) <=> Cell(h, x)
                /\ IsObj(s, x) <=> IsObj(h, x)
      /\ \A x \in Addrs : Gen(s, x) = Gen(h, x)
  BY <1>0, <1>1 DEF SameWords, Cell, IsObj, Gen
<1>5. \A a \in pins : /\ a \in Addrs /\ IsObj(s, a) /\ Gen(s, a) = s.from
  BY <1>3, InUseCell DEF ConservativeRoots, IsObj, At, Gen
<1>6. \A a \in regs : Gen(h, a) = h.from => a \in pins
  <2> SUFFICES ASSUME NEW a \in regs, Gen(h, a) = h.from PROVE a \in pins
    OBVIOUS
  <2>1. IsObj(s, a) /\ Cell(s, a) /\ a \in Addrs /\ Gen(s, a) = s.from
    BY <1>1, <1>4 DEF IsObj
  <2>2. InUse(s, a)
    BY <1>3, <2>1, InUseCell
  <2> QED BY <2>1, <2>2 DEF ConservativeRoots, Gen, IsObj, At
<1> HIDE DEF pins
<1>7. S \in SUBSET Addrs /\ \A a \in S : IsObj(s, a) /\ Gen(s, a) = s.from /\ s.page[Page(a)].type # "large"
  BY <1>5 DEF Single
<1> HIDE DEF S
<1>8. /\ Begun(o) /\ SameWords(s, o) /\ o.page = s.page /\ o.pinned = S
      /\ o.from = s.from /\ o.new = s.new
  BY <1>1, <1>7, PinOK
<1> HIDE DEF o
<1>9. L \in SUBSET Pages /\ \A p \in L : o.page[p].gen = o.from /\ o.page[p].type = "large"
  BY <1>0, <1>5, <1>8 DEF Single, Gen
<1>10. \A a \in pins : a \in S \/ Page(a) \in L
  BY <1>8 DEF S, Single
<1> HIDE DEF L
<1>11. /\ Mid(g)
       /\ g = [o EXCEPT !.page = g.page, !.bytes = g.bytes]
       /\ \A x \in Addrs :
            /\ Cell(g, x) <=> Cell(o, x)
            /\ Gen(g, x) = IF Page(x) \in L THEN o.new ELSE Gen(o, x)
            /\ Mark(g, x) = Mark(o, x)
            /\ InFromSpace(g, x) <=> InFromSpace(o, x) /\ Page(x) \notin L
            /\ Kept(o, x) => Kept(g, x)
  <2>1. Mid(o)
    BY <1>8 DEF Begun
  <2>2. \A p \in L : o.page[p].gen = o.from /\ o.page[p].type = "large"
    BY <1>9
  <2> HIDE DEF P
  <2>3. LET k == MovePages(o, L)
        IN  /\ Mid(k)
            /\ k = [o EXCEPT !.page = k.page, !.bytes = k.bytes]
            /\ \A x \in Addrs :
                 /\ Cell(k, x) <=> Cell(o, x)
                 /\ Gen(k, x) = IF Page(x) \in L THEN o.new ELSE Gen(o, x)
                 /\ Mark(k, x) = Mark(o, x)
                 /\ k.page[Page(x)].type = o.page[Page(x)].type
                 /\ InFromSpace(k, x) <=> InFromSpace(o, x) /\ Page(x) \notin L
                 /\ Kept(o, x) => Kept(k, x)
                 /\ Page(x) \in L => InFromSpace(o, x)
            /\ \A b : Due(o, b) \subseteq Due(k, b)
    BY <1>9, <2>1, <2>2, MoveLargeOK
  <2> QED BY <2>3
<1> HIDE DEF g
<1>12. /\ g.word = o.word /\ g.root = o.root /\ g.from = o.from /\ g.new = o.new
       /\ g.region = o.region /\ g.areas = o.areas /\ g.below = o.below /\ g.chain = o.chain
       /\ g.lost = o.lost /\ g.full = o.full /\ g.pinned = o.pinned
  <2>1. o \in Heaps
    BY <1>8 DEF Begun, Mid
  <2> QED BY <1>11, <2>1 DEF Heaps
<1>13. /\ \A x : Cell(o, x) <=> Cell(h, x)
       /\ \A x \in Addrs : Gen(o, x) = Gen(h, x) /\ Mark(o, x) = IF Page(x) \in P THEN "sticky" ELSE Mark(h, x)
       /\ o.word = h.word /\ o.root = h.root
  BY <1>0, <1>1, <1>4, <1>8 DEF SameWords, Cell, Gen, Mark
<1>14. NoForwards(g)
  BY <1>0, <1>11, <1>12, <1>13 DEF NoForwards, IsFwd
<1>15. Begun(g)
  BY <1>8, <1>11, <1>12, <1>14 DEF Begun, AllClosed
<1>16. ASSUME NEW x \in Addrs, Cell(h, x)
       PROVE  /\ Cell(g, x)
              /\ Gen(g, x) = Gen(h, x) \/ (Gen(h, x) = h.from /\ Gen(g, x) = h.new)
              /\ Mark(h, x) = "sticky" => Mark(g, x) = "sticky"
  <2>1. Cell(g, x) /\ (Mark(h, x) = "sticky" => Mark(g, x) = "sticky")
    BY <1>11, <1>13, <1>16
  <2>2. Page(x) \in L => Gen(o, x) = o.from
    BY <1>9 DEF Gen
  <2> QED BY <1>1, <1>8, <1>11, <1>13, <2>1, <2>2
<1>17. ASSUME NEW a \in regs
       PROVE  /\ IsObj(g, a) /\ Kept(g, a)
              /\ h.from = 0 /\ Gen(h, a) # 0 /\ Mark(h, a) = "marked" => Mark(g, a) = "sticky"
  <2>1. IsObj(h, a) /\ a \in Addrs /\ Cell(h, a)
    BY DEF IsObj
  <2>2. IsObj(g, a) /\ Cell(g, a)
    BY <1>11, <1>12, <1>13, <2>1 DEF IsObj
  <2>3. Kept(g, a)
    <3>1. CASE Gen(h, a) # h.from
      <4>1. Gen(g, a) # g.from
        BY <1>1, <1>8, <1>9, <1>11, <1>12, <1>13, <2>1, <3>1 DEF Gen
      <4> QED BY <1>15, <2>2, <4>1, NewKept DEF Begun
    <3>2. CASE Gen(h, a) = h.from
      <4>1. a \in S \/ Page(a) \in L
        BY <1>6, <1>10, <3>2
      <4>2. ~InFromSpace(g, a)
        BY <1>8, <1>11, <2>1, <4>1 DEF InFromSpace
      <4> QED BY <2>2, <4>2 DEF Kept
    <3> QED BY <3>1, <3>2
  <2>4. h.from = 0 /\ Gen(h, a) # 0 /\ Mark(h, a) = "marked" => Mark(g, a) = "sticky"
    <3> SUFFICES ASSUME h.from = 0, Gen(h, a) # 0, Mark(h, a) = "marked" PROVE Page(a) \in P
      BY <1>11, <1>13, <2>1
    <3>1. InUse(h, a)
      BY <1>0, <2>1, InUseCell
    <3> QED BY <3>1 DEF Gen, Mark
  <2> QED BY <2>2, <2>3, <2>4
<1>18. Scanned(h, g, regs)
  BY <1>1, <1>8, <1>12, <1>13, <1>15, <1>16, <1>17 DEF Scanned
<1> QED BY <1>2, <1>18

------------------------------------------------------------------------------
(* The end of a collection.                                                 *)

\* What is kept is an object and leads to such objects, and so do the roots.
Clean(h) ==
  /\ Mid(h) /\ AllClosed(h) /\ h.areas = <<>> /\ h.below = 0 /\ h.chain = {}
  /\ ~h.lost /\ ~h.full
  /\ \A x \in Addrs : IsObj(h, x) /\ Kept(h, x) =>
       LET r == h.word[x].ref IN r = Nil \/ (IsObj(h, r) /\ Kept(h, r))
  /\ \A r \in Roots : h.root[r] = Nil \/ (IsObj(h, h.root[r]) /\ Kept(h, h.root[r]))

\* What is kept was not copied.
LEMMA KeptObject ==
  ASSUME NEW h, Mid(h), NEW r, Target(h, r), r # Nil, ~InFromSpace(h, r)
  PROVE  IsObj(h, r) /\ Kept(h, r)
<1>1. Cell(h, r) /\ r \in Addrs /\ h.word[r].tag # "filler" /\ h.word[r] \in Cells
  BY DEF Target, Cell, Mid, Heaps
<1>2. ~IsFwd(h, r)
  BY <1>1 DEF Mid, ForwardsOK
<1> QED BY <1>1, <1>2, CellType DEF IsObj, IsFwd, Kept

\* smash_weak_pointers.
LEMMA SmashOK ==
  ASSUME NEW h, Mid(h), AllClosed(h), h.areas = <<>>, h.below = 0, ~h.lost, ~h.full,
         Unclean(h) = {},
         \A r \in Roots : h.root[r] = Nil \/ (IsObj(h, h.root[r]) /\ Kept(h, h.root[r]))
  PROVE  LET g == SmashWeakPointers(h)
         IN  /\ Clean(g) /\ g.page = h.page /\ g.from = h.from /\ g.new = h.new
             /\ g.pinned = h.pinned
             /\ \A x : (IsObj(g, x) <=> IsObj(h, x)) /\ (Kept(g, x) <=> Kept(h, x))
<1> DEFINE old == {x \in h.chain : InFromSpace(h, h.word[x].ref)}
           saved(r) == IF Forwarded(h, r) THEN h.word[r].to ELSE Nil
           v(x) == [h.word[x] EXCEPT !.ref = saved(h.word[x].ref)]
           W == [x \in Addrs |-> IF x \in old THEN v(x) ELSE h.word[x]]
           C == \A x \in h.chain \ old : h.page[Page(h.word[x].ref)].gen = h.new
           g == [h EXCEPT !.word = W, !.chain = {}]
<1>0. /\ h \in Heaps /\ h.chain \subseteq Addrs
      /\ \A x \in h.chain : /\ IsObj(h, x) /\ Kept(h, x) /\ h.word[x].weak
                            /\ h.word[x].ref # Nil /\ Gen(h, h.word[x].ref) \in {h.from, h.new}
                            /\ h.word[x].ref \notin h.pinned
  BY DEF Mid, Heaps, ChainOK
<1>1. C
  <2> SUFFICES ASSUME NEW x \in h.chain, ~InFromSpace(h, h.word[x].ref)
               PROVE  h.page[Page(h.word[x].ref)].gen = h.new
    OBVIOUS
  <2> QED BY <1>0 DEF InFromSpace, Gen
<1>2. SmashWeakPointers(h) = g
  <2> DEFINE E == Check(h, C)
             U == [x \in Addrs |-> IF x \in old THEN [E.word[x] EXCEPT !.ref = saved(h.word[x].ref)]
                                   ELSE E.word[x]]
  <2>1. E = h
    BY <1>1 DEF Check
  <2>2. SmashWeakPointers(h) = [E EXCEPT !.word = U, !.chain = {}]
    BY DEF SmashWeakPointers, At
  <2> HIDE DEF E
  <2>3. U = W
    BY <2>1
  <2> HIDE DEF U, W
  <2> QED BY <2>1, <2>2, <2>3
<1>3. \A x \in old : LET r == h.word[x].ref IN
        /\ IsObj(h, x) /\ Kept(h, x) /\ x \in Addrs
        /\ r # Nil /\ r \in Addrs /\ Cell(h, r) /\ InFromSpace(h, r) /\ h.word[r] \in Cells
        /\ saved(r) = Nil \/ (IsObj(h, saved(r)) /\ Kept(h, saved(r)))
  <2> SUFFICES ASSUME NEW x \in old, NEW r, r = h.word[x].ref
               PROVE  /\ IsObj(h, x) /\ Kept(h, x) /\ x \in Addrs
                      /\ r # Nil /\ r \in Addrs /\ Cell(h, r) /\ InFromSpace(h, r) /\ h.word[r] \in Cells
                      /\ saved(r) = Nil \/ (IsObj(h, saved(r)) /\ Kept(h, saved(r)))
    OBVIOUS
  <2>1. IsObj(h, x) /\ Kept(h, x) /\ x \in Addrs /\ r # Nil /\ InFromSpace(h, r)
    BY <1>0
  <2>2. Cell(h, r) /\ r \in Addrs /\ h.word[r] \in Cells
    BY <1>0, <2>1 DEF Mid, RefsOK, Target, Cell, Heaps
  <2>3. CASE Forwarded(h, r)
    <3>1. IsFwd(h, r)
      BY <2>2, <2>3 DEF Forwarded, At, IsFwd
    <3>2. IsObj(h, h.word[r].to) /\ Gen(h, h.word[r].to) = h.new
      BY <2>2, <3>1 DEF Mid, ForwardsOK
    <3>3. Kept(h, h.word[r].to)
      BY <3>2, SpacesDiffer, NewKept DEF IsObj
    <3> QED BY <2>1, <2>2, <2>3, <3>2, <3>3
  <2>4. CASE ~Forwarded(h, r)
    BY <2>1, <2>2, <2>4
  <2> QED BY <2>3, <2>4
<1>4. \A x \in old : saved(h.word[x].ref) \in Addrs \cup {Nil}
  BY <1>3 DEF IsObj, Cell
<1> HIDE DEF saved, old
<1>5. \A x \in Addrs : /\ h.word[x] \in Cells
                       /\ x \in old => /\ v(x) \in Cells /\ v(x).tag = h.word[x].tag
                                       /\ v(x).weak = h.word[x].weak
                                       /\ v(x).ref = saved(h.word[x].ref)
  <2> SUFFICES ASSUME NEW x \in Addrs
               PROVE  /\ h.word[x] \in Cells
                      /\ x \in old => /\ v(x) \in Cells /\ v(x).tag = h.word[x].tag
                                      /\ v(x).weak = h.word[x].weak
                                      /\ v(x).ref = saved(h.word[x].ref)
    OBVIOUS
  <2>1. h.word[x] \in Cells
    BY <1>0 DEF Heaps
  <2>2. x \in old => h.word[x] \in [tag : {"object"}, id : Ids, weak : BOOLEAN, ref : Addrs \cup {Nil}]
    BY <1>3, <2>1, CellType DEF IsObj
  <2> DEFINE w == h.word[x]
             t == saved(h.word[x].ref)
  <2>3. x \in old => t \in Addrs \cup {Nil} /\ w \in [tag : {"object"}, id : Ids, weak : BOOLEAN, ref : Addrs \cup {Nil}]
    BY <1>4, <2>2
  <2>4. v(x) = [w EXCEPT !.ref = t]
    OBVIOUS
  <2> HIDE DEF w, t, v
  <2>5. x \in old => v(x) \in Cells /\ v(x).tag = w.tag /\ v(x).weak = w.weak /\ v(x).ref = t
    BY <2>3, <2>4 DEF Cells
  <2> QED BY <2>1, <2>5 DEF w, t
<1> HIDE DEF v
<1>6. /\ W \in [Addrs -> Cells]
      /\ \A x \in Addrs : /\ W[x].tag = h.word[x].tag /\ (x \notin old => W[x] = h.word[x])
                          /\ x \in old => W[x].ref = saved(h.word[x].ref)
  <2>1. \A x \in Addrs : W[x] = IF x \in old THEN v(x) ELSE h.word[x]
    OBVIOUS
  <2>2. W = [x \in Addrs |-> W[x]]
    OBVIOUS
  <2> HIDE DEF W
  <2> QED BY <1>5, <2>1, <2>2
<1> HIDE DEF W
<1>7. /\ g \in Heaps
      /\ g.page = h.page /\ g.word = W /\ g.bytes = h.bytes /\ g.from = h.from
      /\ g.new = h.new /\ g.region = h.region /\ g.areas = h.areas /\ g.below = h.below
      /\ g.pinned = h.pinned /\ g.chain = {} /\ g.root = h.root
      /\ g.lost = h.lost /\ g.full = h.full
  BY <1>0, <1>6 DEF Heaps
<1> HIDE DEF g
<1>8. /\ \A y : /\ Cell(g, y) <=> Cell(h, y)
                /\ Gen(g, y) = Gen(h, y) /\ Mark(g, y) = Mark(h, y)
                /\ InFromSpace(g, y) <=> InFromSpace(h, y)
                /\ Kept(g, y) <=> Kept(h, y)
                /\ g.page[Page(y)].type = h.page[Page(y)].type
      /\ \A k : CellsOf(g, k) = CellsOf(h, k)
      /\ FreeOK(g) /\ SpacesOK(g) /\ RegionsOK(g) /\ GensOK(g) /\ MarksOK(g) /\ AreasOK(g) /\ ScratchOK(g)
  BY <1>7, SamePages DEF Mid
<1>9. \A y : (IsObj(g, y) <=> IsObj(h, y)) /\ (IsFwd(g, y) <=> IsFwd(h, y)) /\ (Target(g, y) <=> Target(h, y))
  BY <1>6, <1>7, <1>8 DEF IsObj, IsFwd, Target, Cell
<1>10. \A x \in Addrs : IsFwd(h, x) => g.word[x] = h.word[x]
  BY <1>3, <1>6, <1>7 DEF IsObj, IsFwd
<1>11. ForwardsOK(g)
  BY <1>7, <1>8, <1>9, <1>10 DEF Mid, ForwardsOK
<1>12. \A x \in Addrs : IsObj(h, x) /\ Kept(h, x) =>
         LET r == g.word[x].ref IN r = Nil \/ (IsObj(h, r) /\ Kept(h, r))
  <2> SUFFICES ASSUME NEW x \in Addrs, IsObj(h, x), Kept(h, x), NEW r, r = g.word[x].ref, r # Nil
               PROVE  IsObj(h, r) /\ Kept(h, r)
    OBVIOUS
  <2>1. CASE x \in old
    <3>1. r = saved(h.word[x].ref)
      BY <1>6, <1>7, <2>1
    <3> QED BY <1>3, <2>1, <3>1
  <2>2. CASE x \notin old
    <3>1. r = h.word[x].ref
      BY <1>6, <1>7, <2>2
    <3>2. ~InFromSpace(h, r)
      BY <2>2, <3>1 DEF Unclean, old
    <3>3. Target(h, r)
      BY <3>1 DEF Mid, RefsOK
    <3> QED BY <3>2, <3>3, KeptObject
  <2> QED BY <2>1, <2>2
<1>13. RefsOK(g)
  <2>1. ASSUME NEW x \in Addrs, IsObj(h, x) PROVE Target(h, g.word[x].ref)
    <3>1. CASE x \in old
      <4>1. g.word[x].ref = Nil \/ IsObj(h, g.word[x].ref)
        BY <1>3, <1>12, <3>1
      <4> QED BY <4>1 DEF Target, IsObj
    <3>2. CASE x \notin old
      <4>1. g.word[x] = h.word[x]
        BY <1>6, <1>7, <3>2
      <4> QED BY <2>1, <4>1 DEF Mid, RefsOK
    <3> QED BY <3>1, <3>2
  <2>2. \A r \in Roots : Target(h, g.root[r])
    BY <1>7 DEF Mid, RefsOK
  <2> QED BY <1>9, <2>1, <2>2 DEF RefsOK
<1>14. PinnedOK(g)
  BY <1>7, <1>8, <1>9 DEF Mid, PinnedOK
<1>15. ChainOK(g)
  BY <1>7 DEF ChainOK
<1>16. BytesOK(g)
  BY <1>7, <1>8 DEF Mid, BytesOK
<1>17. CleanOK(g)
  <2> SUFFICES ASSUME NEW x \in Addrs, IsObj(h, x), Gen(h, x) # h.from, Mark(h, x) = "clear"
               PROVE  LET r == g.word[x].ref IN r = Nil \/ (Gen(h, x) <= Gen(h, r) /\ Gen(h, r) <= Oldest)
    BY <1>7, <1>8, <1>9 DEF CleanOK
  <2>1. x \notin old
    <3> SUFFICES ASSUME x \in old PROVE FALSE
      OBVIOUS
    <3>1. h.word[x].ref # Nil /\ InFromSpace(h, h.word[x].ref)
      BY <1>3
    <3>2. Gen(h, h.word[x].ref) # h.from
      BY <3>1, CleanFrom
    <3> QED BY <3>1, <3>2 DEF InFromSpace, Gen
  <2>2. g.word[x] = h.word[x]
    BY <1>6, <1>7, <2>1
  <2> QED BY <2>2 DEF Mid, CleanOK
<1>18. Mid(g)
  BY <1>7, <1>8, <1>11, <1>13, <1>14, <1>15, <1>16, <1>17 DEF Mid
<1>19. Clean(g)
  BY <1>7, <1>8, <1>9, <1>12, <1>18 DEF Clean, AllClosed
<1> QED BY <1>2, <1>7, <1>8, <1>9, <1>19

\* The end of a collection: no region is open and nothing is recorded.
Ending(h) ==
  /\ h \in Heaps /\ AllClosed(h) /\ BytesOK(h)
  /\ h.areas = <<>> /\ h.below = 0 /\ h.chain = {} /\ ~h.lost /\ ~h.full
  /\ h.from \in Generations /\ h.new # h.from /\ h.from # Scratch

\* Where no region is open, what is used is what was written.
LEMMA ClosedCells ==
  ASSUME NEW h, AllClosed(h)
  PROVE  /\ \A p \in Pages : ~Open(h, p) /\ Used(h, p) = h.page[p].fill
         /\ \A k : \A x : x \in CellsOf(h, k) <=> x \in Addrs /\ Gen(h, x) = k /\ Cell(h, x)
         /\ \A k : CellsOf(h, k) \in SUBSET Addrs
<1>1. \A p \in Pages : ~Open(h, p)
  BY NilFacts DEF Open, AllClosed, Regions, Closed
<1>2. \A p \in Pages : Used(h, p) = h.page[p].fill
  BY <1>1, UsedClosed
<1> QED BY <1>1, <1>2, PageSlot DEF CellsOf, Cell

\* Cells that are wiped.
LEMMA WipeOK ==
  ASSUME NEW W \in [Addrs -> Cells], NEW A
  PROVE  /\ Wipe(W, A) \in [Addrs -> Cells]
         /\ \A x \in Addrs : Wipe(W, A)[x] = IF x \in A THEN Filler ELSE W[x]
  BY DEF Wipe, Cells

\* obliterate_nonpinned_words.
LEMMA ObliterateOK ==
  ASSUME NEW h, Ending(h), h.pinned \in SUBSET Addrs,
         \A a \in h.pinned : Gen(h, a) = h.from
  PROVE  LET g == Obliterate(h)
         IN  /\ Ending(g) /\ g.from = h.from /\ g.new = h.new /\ g.root = h.root
             /\ \A p \in Pages :
                  /\ g.page[p].type = h.page[p].type /\ g.page[p].mark = h.page[p].mark
                  /\ g.page[p].fill = h.page[p].fill
                  /\ g.page[p].gen = IF p \in PinnedPages(h) THEN h.new ELSE h.page[p].gen
                  /\ p \notin PinnedPages(h) => g.page[p] = h.page[p]
             /\ \A x \in Addrs :
                  g.word[x] = IF Page(x) \in PinnedPages(h) /\ x \notin h.pinned
                              THEN Filler ELSE h.word[x]
<1> DEFINE P == PinnedPages(h)
           q == MovePages(h, P)
           A == {a \in Addrs : Page(a) \in P} \ h.pinned
           W == Wipe(h.word, A)
           g == [q EXCEPT !.word = W]
<1>1. h \in Heaps /\ P \in SUBSET Pages /\ \A p \in P : h.page[p].gen = h.from /\ ~Open(h, p)
  <2>1. P \in SUBSET Pages
    BY PageSlot DEF PinnedPages
  <2>2. \A p \in P : h.page[p].gen = h.from
    BY DEF PinnedPages, Gen
  <2>3. \A p \in P : ~Open(h, p)
    BY <2>1, ClosedCells DEF Ending
  <2> QED BY <2>1, <2>2, <2>3 DEF Ending
<1> HIDE DEF P
<1>2. /\ q \in Heaps /\ BytesOK(q)
      /\ q = [h EXCEPT !.page = q.page, !.bytes = q.bytes]
      /\ \A p \in Pages :
           /\ p \notin P => q.page[p] = h.page[p]
           /\ q.page[p].type = h.page[p].type /\ q.page[p].mark = h.page[p].mark
           /\ q.page[p].fill = h.page[p].fill
           /\ q.page[p].gen = IF p \in P THEN h.new ELSE h.page[p].gen
  <2>1. h.from \in Generations /\ h.new # h.from /\ BytesOK(h)
    BY DEF Ending
  <2>2. LET k == MovePages(h, P)
        IN  /\ k \in Heaps /\ BytesOK(k)
            /\ k = [h EXCEPT !.page = k.page, !.bytes = k.bytes]
            /\ \A p \in Pages :
                 /\ p \notin P => k.page[p] = h.page[p]
                 /\ k.page[p].type = h.page[p].type /\ k.page[p].mark = h.page[p].mark
                 /\ k.page[p].fill = h.page[p].fill
                 /\ k.page[p].gen = IF p \in P THEN h.new ELSE h.page[p].gen
            /\ \A p \in Pages : Used(k, p) = Used(h, p)
    BY <1>1, <2>1, MovePagesOK
  <2> QED BY <2>2
<1>3. Obliterate(h) = g
  <2>1. q.word = h.word
    BY <1>1, <1>2 DEF Heaps
  <2>2. Obliterate(h) = [q EXCEPT !.word = Wipe(q.word, A)]
    BY DEF Obliterate, P
  <2> QED BY <2>1, <2>2
<1> HIDE DEF q
<1>4. /\ q.word = h.word /\ q.from = h.from
      /\ q.new = h.new /\ q.region = h.region /\ q.areas = h.areas /\ q.below = h.below
      /\ q.pinned = h.pinned /\ q.chain = h.chain /\ q.root = h.root
      /\ q.lost = h.lost /\ q.full = h.full
  BY <1>1, <1>2 DEF Heaps
<1>5. W \in [Addrs -> Cells] /\ \A x \in Addrs : W[x] = IF x \in A THEN Filler ELSE h.word[x]
  <2>1. h.word \in [Addrs -> Cells]
    BY <1>1 DEF Heaps
  <2> QED BY <2>1, WipeOK
<1> HIDE DEF W
<1>6. /\ g \in Heaps /\ g.page = q.page /\ g.word = W /\ g.bytes = q.bytes /\ g.from = q.from
      /\ g.new = q.new /\ g.region = q.region /\ g.areas = q.areas /\ g.below = q.below
      /\ g.pinned = q.pinned /\ g.chain = q.chain /\ g.root = q.root
      /\ g.lost = q.lost /\ g.full = q.full
  BY <1>2, <1>5 DEF Heaps
<1> HIDE DEF g
<1>7. \A k : CellsOf(g, k) = CellsOf(q, k)
  BY <1>6 DEF CellsOf, Gen, Used, Open
<1>8. BytesOK(g)
  BY <1>2, <1>6, <1>7 DEF BytesOK
<1>9. Ending(g)
  BY <1>4, <1>6, <1>8 DEF Ending, AllClosed
<1>10. \A x \in Addrs : g.word[x] = IF Page(x) \in P /\ x \notin h.pinned THEN Filler ELSE h.word[x]
  BY <1>5, <1>6
<1> QED BY <1>2, <1>3, <1>4, <1>6, <1>9, <1>10 DEF P

\* free_oldspace.
LEMMA FreeOldspaceOK ==
  ASSUME NEW h, Ending(h)
  PROVE  LET g == FreeOldspace(h)
         IN  /\ Ending(g) /\ g.from = h.from /\ g.new = h.new /\ g.root = h.root
             /\ g.bytes[h.from] = 0
             /\ \A p \in Pages : g.page[p] = IF h.page[p].gen = h.from THEN FreePage ELSE h.page[p]
             /\ \A x \in Addrs : g.word[x] = IF Gen(h, x) = h.from THEN Filler ELSE h.word[x]
             /\ \A x \in Addrs : Cell(g, x) => Gen(g, x) # h.from
<1> DEFINE P == OldPages(h)
           n == Cardinality(CellsIn(h, P))
           Q == [p \in Pages |-> IF p \in P THEN FreePage ELSE h.page[p]]
           B == [h.bytes EXCEPT ![h.from] = @ - n]
           A == {a \in Addrs : Page(a) \in P}
           W == Wipe(h.word, A)
           T == [type : PageTypes, gen : Generations, mark : Marks, fill : 0..Cap]
           g == [h EXCEPT !.bytes = B, !.page = Q, !.word = W]
<1>1. h \in Heaps /\ AllClosed(h) /\ h.from \in Generations /\ BytesOK(h)
  BY DEF Ending
<1>2. \A p \in Pages : p \in P <=> h.page[p].gen = h.from
  BY DEF OldPages
<1>3. FreePage \in T
  BY GencgcAssumption DEF FreePage, PageTypes, Generations, Marks, Scratch
<1>4. Q \in [Pages -> T] /\ \A p \in Pages : Q[p] = IF p \in P THEN FreePage ELSE h.page[p]
  <2>1. \A p \in Pages : h.page[p] \in T
    BY <1>1, PageType
  <2> HIDE DEF T, P
  <2> QED BY <1>3, <2>1
<1>5. W \in [Addrs -> Cells] /\ \A x \in Addrs : W[x] = IF x \in A THEN Filler ELSE h.word[x]
  <2>1. h.word \in [Addrs -> Cells]
    BY <1>1 DEF Heaps
  <2> QED BY <2>1, WipeOK
<1>6. n \in Nat
  BY AddrsFinite DEF CellsIn
<1>7. FreeOldspace(h) = g
  BY DEF FreeOldspace
<1>7a. n = Cardinality(CellsOf(h, h.from))
  <2>1. CellsIn(h, P) = CellsOf(h, h.from)
    <3>1. \A x \in Addrs : Page(x) \in P <=> Gen(h, x) = h.from
      BY <1>2, PageSlot DEF Gen
    <3>2. \A x : x \in CellsOf(h, h.from) <=> x \in Addrs /\ Gen(h, x) = h.from /\ Cell(h, x)
      BY <1>1, ClosedCells
    <3> HIDE DEF P
    <3> QED BY <3>1, <3>2 DEF CellsIn, Cell
  <2> QED BY <2>1
<1> HIDE DEF n, P, Q, W
<1>8. /\ B \in [Generations -> Int]
      /\ \A k \in Generations : B[k] = IF k = h.from THEN h.bytes[k] - n ELSE h.bytes[k]
  BY <1>1, <1>6 DEF Heaps
<1> HIDE DEF B
<1>9. /\ g \in Heaps
      /\ g.page = Q /\ g.word = W /\ g.bytes = B /\ g.from = h.from
      /\ g.new = h.new /\ g.region = h.region /\ g.areas = h.areas /\ g.below = h.below
      /\ g.pinned = h.pinned /\ g.chain = h.chain /\ g.root = h.root
      /\ g.lost = h.lost /\ g.full = h.full
  BY <1>1, <1>4, <1>5, <1>8 DEF Heaps
<1> HIDE DEF g
<1>10. \A p \in Pages : g.page[p] = IF h.page[p].gen = h.from THEN FreePage ELSE h.page[p]
  BY <1>2, <1>4, <1>9
<1>11. \A x \in Addrs : g.word[x] = IF Gen(h, x) = h.from THEN Filler ELSE h.word[x]
  BY <1>2, <1>5, <1>9, PageSlot DEF Gen
<1>12. \A x \in Addrs : /\ Gen(h, x) = h.from => ~Cell(g, x)
                        /\ Gen(h, x) # h.from => (Cell(g, x) <=> Cell(h, x)) /\ Gen(g, x) = Gen(h, x)
  <2> SUFFICES ASSUME NEW x \in Addrs
               PROVE  /\ Gen(h, x) = h.from => ~Cell(g, x)
                      /\ Gen(h, x) # h.from => (Cell(g, x) <=> Cell(h, x)) /\ Gen(g, x) = Gen(h, x)
    OBVIOUS
  <2>1. Page(x) \in Pages /\ Slot(x) \in Int /\ Slot(x) >= 1
    BY PageSlot
  <2>2. CASE Gen(h, x) = h.from
    <3>1. g.page[Page(x)] = FreePage
      BY <1>10, <2>1, <2>2 DEF Gen
    <3>2. g.page[Page(x)].fill = 0
      BY <3>1 DEF FreePage
    <3> QED BY <2>1, <2>2, <3>2 DEF Cell
  <2>3. CASE Gen(h, x) # h.from
    BY <1>10, <2>1, <2>3 DEF Gen, Cell
  <2> QED BY <2>2, <2>3
<1>13. AllClosed(g)
  BY <1>1, <1>9 DEF AllClosed
<1>14. /\ CellsOf(g, h.from) = {}
       /\ \A k : k # h.from => CellsOf(g, k) = CellsOf(h, k)
  <2>1. \A k : \A x : x \in CellsOf(g, k) <=> x \in Addrs /\ Gen(g, x) = k /\ Cell(g, x)
    BY <1>13, ClosedCells
  <2>2. \A k : \A x : x \in CellsOf(h, k) <=> x \in Addrs /\ Gen(h, x) = k /\ Cell(h, x)
    BY <1>1, ClosedCells
  <2>3. \A x \in Addrs : Cell(g, x) => Gen(g, x) # h.from
    BY <1>12
  <2>4. ASSUME NEW k, k # h.from PROVE CellsOf(g, k) = CellsOf(h, k)
    <3>1. \A x : x \in CellsOf(g, k) <=> x \in CellsOf(h, k)
      BY <1>12, <2>1, <2>2, <2>4
    <3> QED BY <3>1 DEF CellsOf
  <2> QED BY <2>1, <2>3, <2>4
<1>15. g.bytes[h.from] = 0 /\ BytesOK(g)
  <2>1. h.bytes[h.from] = n
    BY <1>1, <1>7a DEF BytesOK
  <2>2. g.bytes[h.from] = 0
    BY <1>1, <1>6, <1>8, <1>9, <2>1
  <2>3. Cardinality(CellsOf(g, h.from)) = 0
    BY <1>14, FS_EmptySet
  <2>4. \A k \in Generations : k # h.from => g.bytes[k] = Cardinality(CellsOf(g, k))
    BY <1>1, <1>8, <1>9, <1>14 DEF BytesOK
  <2> QED BY <2>2, <2>3, <2>4 DEF BytesOK
<1>16. Ending(g)
  BY <1>9, <1>13, <1>15 DEF Ending
<1>17. \A x \in Addrs : Cell(g, x) => Gen(g, x) # h.from
  BY <1>12
<1> QED BY <1>7, <1>9, <1>10, <1>11, <1>15, <1>16, <1>17

\* Without a promotion, the scratch generation becomes the one that was collected.
LEMMA LowerOK ==
  ASSUME NEW h, Ending(h), h.bytes[h.from] = 0, \A x \in Addrs : Cell(h, x) => Gen(h, x) # h.from
  PROVE  LET g == Lower(h)
         IN  /\ g \in Heaps /\ AllClosed(g) /\ BytesOK(g)
             /\ g.areas = <<>> /\ g.below = 0 /\ g.chain = {} /\ ~g.lost /\ ~g.full
             /\ g.word = h.word /\ g.root = h.root
             /\ \A p \in Pages :
                  /\ g.page[p].type = h.page[p].type /\ g.page[p].mark = h.page[p].mark
                  /\ g.page[p].fill = h.page[p].fill
                  /\ g.page[p].gen = IF h.new = Scratch /\ h.page[p].gen = Scratch
                                     THEN h.from ELSE h.page[p].gen
                  /\ h.page[p].gen # Scratch => g.page[p] = h.page[p]
<1> DEFINE P == {p \in Pages : h.page[p].gen = Scratch}
           n == h.bytes[Scratch]
           T == [type : PageTypes, gen : Generations, mark : Marks, fill : 0..Cap]
           Q == [p \in Pages |-> IF p \in P THEN [h.page[p] EXCEPT !.gen = h.from] ELSE h.page[p]]
           B == [h.bytes EXCEPT ![Scratch] = @ - n, ![h.from] = @ + n]
           g == [h EXCEPT !.page = Q, !.bytes = B]
<1>1. /\ h \in Heaps /\ AllClosed(h) /\ BytesOK(h) /\ h.from \in Generations /\ h.from # Scratch
      /\ Scratch \in Generations
  BY GencgcAssumption DEF Ending, Scratch, Generations
<1>2. CASE h.new # Scratch
  <2>1. Lower(h) = h
    BY <1>2 DEF Lower
  <2> QED BY <1>1, <1>2, <2>1 DEF Ending
<1>3. CASE h.new = Scratch
  <2>1. Lower(h) = g
    <3>1. SetGens(h, P, h.from) = [h EXCEPT !.page = Q]
      BY <1>1 DEF SetGens, Heaps
    <3>2. Lower(h) = Account([h EXCEPT !.page = Q], Scratch, h.from, n)
      BY <1>3, <3>1 DEF Lower, Check
    <3> QED BY <1>1, <3>2 DEF Account, Heaps
  <2>2. /\ Q \in [Pages -> T]
        /\ \A p \in Pages :
             /\ p \notin P => Q[p] = h.page[p]
             /\ Q[p].type = h.page[p].type /\ Q[p].mark = h.page[p].mark
             /\ Q[p].fill = h.page[p].fill
             /\ Q[p].gen = IF p \in P THEN h.from ELSE h.page[p].gen
    <3>1. \A p \in Pages : h.page[p] \in T
      BY <1>1, PageType
    <3>2. \A p \in Pages :
            /\ p \notin P => Q[p] = h.page[p]
            /\ Q[p].type = h.page[p].type /\ Q[p].mark = h.page[p].mark
            /\ Q[p].fill = h.page[p].fill
            /\ Q[p].gen = IF p \in P THEN h.from ELSE h.page[p].gen
      <4> SUFFICES ASSUME NEW p \in Pages
                   PROVE  /\ p \notin P => Q[p] = h.page[p]
                          /\ Q[p].type = h.page[p].type /\ Q[p].mark = h.page[p].mark
                          /\ Q[p].fill = h.page[p].fill
                          /\ Q[p].gen = IF p \in P THEN h.from ELSE h.page[p].gen
        OBVIOUS
      <4>1. Q[p] = IF p \in P THEN [h.page[p] EXCEPT !.gen = h.from] ELSE h.page[p]
        OBVIOUS
      <4> HIDE DEF Q
      <4> QED BY <3>1, <4>1
    <3>3. Q \in [Pages -> T]
      BY <1>1, <3>1
    <3> QED BY <3>2, <3>3
  <2>3. n \in Int
    BY <1>1 DEF Heaps
  <2> HIDE DEF n, Q
  <2>4. /\ B \in [Generations -> Int]
        /\ \A k \in Generations : B[k] = IF k = Scratch THEN h.bytes[k] - n
                                         ELSE IF k = h.from THEN h.bytes[k] + n ELSE h.bytes[k]
    BY <1>1, <2>3 DEF Heaps
  <2> HIDE DEF B
  <2>5. /\ g \in Heaps
        /\ g.page = Q /\ g.word = h.word /\ g.bytes = B /\ g.from = h.from
        /\ g.new = h.new /\ g.region = h.region /\ g.areas = h.areas /\ g.below = h.below
        /\ g.pinned = h.pinned /\ g.chain = h.chain /\ g.root = h.root
        /\ g.lost = h.lost /\ g.full = h.full
    BY <1>1, <2>2, <2>4 DEF Heaps
  <2> HIDE DEF g
  <2>6. AllClosed(g)
    BY <1>1, <2>5 DEF AllClosed
  <2>7. \A x \in Addrs : /\ Cell(g, x) <=> Cell(h, x)
                         /\ Gen(g, x) = IF Gen(h, x) = Scratch THEN h.from ELSE Gen(h, x)
    BY <2>2, <2>5, PageSlot DEF Cell, Gen
  <2>8. /\ CellsOf(g, Scratch) = {}
        /\ CellsOf(g, h.from) = CellsOf(h, Scratch)
        /\ \A k : k # Scratch /\ k # h.from => CellsOf(g, k) = CellsOf(h, k)
    <3>1. \A k : \A x : x \in CellsOf(g, k) <=> x \in Addrs /\ Gen(g, x) = k /\ Cell(g, x)
      BY <2>6, ClosedCells
    <3>2. \A k : \A x : x \in CellsOf(h, k) <=> x \in Addrs /\ Gen(h, x) = k /\ Cell(h, x)
      BY <1>1, ClosedCells
    <3>3. \A x : x \notin CellsOf(g, Scratch)
      BY <1>1, <2>7, <3>1
    <3>4. \A x : x \in CellsOf(g, h.from) <=> x \in CellsOf(h, Scratch)
      BY <1>1, <2>7, <3>1, <3>2
    <3>5. ASSUME NEW k, k # Scratch, k # h.from PROVE CellsOf(g, k) = CellsOf(h, k)
      <4>1. \A x : x \in CellsOf(g, k) <=> x \in CellsOf(h, k)
        BY <2>7, <3>1, <3>2, <3>5
      <4> QED BY <4>1 DEF CellsOf
    <3> QED BY <3>3, <3>4, <3>5 DEF CellsOf
  <2>9. BytesOK(g)
    <3> SUFFICES ASSUME NEW k \in Generations PROVE g.bytes[k] = Cardinality(CellsOf(g, k))
      BY DEF BytesOK
    <3>1. n = Cardinality(CellsOf(h, Scratch)) /\ h.bytes[k] = Cardinality(CellsOf(h, k))
      BY <1>1 DEF BytesOK, n
    <3>2. CASE k = Scratch
      <4>1. g.bytes[k] = 0
        BY <2>3, <2>4, <2>5, <3>2 DEF n
      <4> QED BY <2>8, <3>2, <4>1, FS_EmptySet
    <3>3. CASE k = h.from
      <4>1. g.bytes[k] = n
        BY <1>1, <2>3, <2>4, <2>5, <3>3
      <4> QED BY <2>8, <3>1, <3>3, <4>1
    <3>4. CASE k # Scratch /\ k # h.from
      <4>1. g.bytes[k] = h.bytes[k]
        BY <2>4, <2>5, <3>4
      <4> QED BY <2>8, <3>1, <3>4, <4>1
    <3> QED BY <3>2, <3>3, <3>4
  <2> QED BY <1>3, <2>1, <2>2, <2>5, <2>6, <2>9 DEF Ending
<1> QED BY <1>2, <1>3

\* What is left of a collection that has scavenged everything.
Finished(m, e) ==
  LET N == IF m.new = Scratch THEN m.from ELSE m.new
  IN  /\ Rest(e) /\ e.root = m.root
      /\ Empty(e, IF m.new = Scratch THEN m.from ELSE m.from + 1)
      /\ \A x \in Addrs : IsObj(m, x) /\ Kept(m, x) =>
           /\ IsObj(e, x)
           /\ Gen(e, x) = IF Gen(m, x) \in {m.from, m.new} THEN N ELSE Gen(m, x)
           /\ Mark(e, x) = Mark(m, x)

\* The end of garbage_collect_generation.
LEMMA FinishOK ==
  ASSUME NEW m, Clean(m)
  PROVE  Finished(m, [Lower(FreeOldspace(Obliterate(m))) EXCEPT !.pinned = {}])
<1> DEFINE o == Obliterate(m)
           f == FreeOldspace(o)
           l == Lower(f)
           none == {}
           e == [l EXCEPT !.pinned = none]
           PP == PinnedPages(m)
           Old(p) == m.page[p].gen = m.from /\ p \notin PP
           N == IF m.new = Scratch THEN m.from ELSE m.new
<1>1. /\ Mid(m) /\ AllClosed(m) /\ m \in Heaps /\ m.pinned \in SUBSET Addrs
      /\ m.from \in 0..Oldest /\ m.from \in Generations /\ m.new \in Generations
      /\ m.new # m.from /\ m.from # Scratch /\ 0 # Scratch
      /\ m.new \in {m.from + 1, Scratch}
  <2>1. Mid(m) /\ AllClosed(m) /\ m \in Heaps /\ SpacesOK(m)
    BY DEF Clean, Mid
  <2>2. m.pinned \in SUBSET Addrs /\ m.new \in Generations
    BY <2>1 DEF Heaps
  <2>3. /\ m.from \in 0..Oldest /\ m.from \in Generations /\ m.new # m.from
        /\ m.from # Scratch /\ 0 # Scratch /\ m.new \in {m.from + 1, Scratch}
    BY <2>1, GencgcAssumption DEF SpacesOK, Generations, Scratch
  <2> QED BY <2>1, <2>2, <2>3
<1>2. /\ \A a \in m.pinned : Gen(m, a) = m.from /\ Cell(m, a)
      /\ \A p \in PP : p \in Pages /\ m.page[p].gen = m.from /\ m.page[p].fill # 0
  <2>1. \A a \in m.pinned : a \in Addrs /\ Gen(m, a) = m.from /\ Cell(m, a)
    BY <1>1 DEF Mid, PinnedOK, IsObj
  <2>2. \A a \in m.pinned : Page(a) \in Pages /\ m.page[Page(a)].fill # 0
    BY <2>1, PageSlot DEF Cell
  <2> QED BY <2>1, <2>2 DEF PinnedPages, Gen
<1>3. /\ Ending(o) /\ o.from = m.from /\ o.new = m.new /\ o.root = m.root
      /\ \A p \in Pages :
           /\ o.page[p].type = m.page[p].type /\ o.page[p].mark = m.page[p].mark
           /\ o.page[p].fill = m.page[p].fill
           /\ o.page[p].gen = IF p \in PP THEN m.new ELSE m.page[p].gen
           /\ p \notin PP => o.page[p] = m.page[p]
      /\ \A x \in Addrs :
           o.word[x] = IF Page(x) \in PP /\ x \notin m.pinned THEN Filler ELSE m.word[x]
  <2>1. Ending(m)
    BY <1>1 DEF Ending, Clean, Mid
  <2> QED BY <1>1, <1>2, <2>1, ObliterateOK
<1> HIDE DEF o
<1>4. /\ Ending(f) /\ f.from = m.from /\ f.new = m.new /\ f.root = m.root
      /\ f.bytes[f.from] = 0
      /\ \A p \in Pages : f.page[p] = IF o.page[p].gen = m.from THEN FreePage ELSE o.page[p]
      /\ \A x \in Addrs : f.word[x] = IF Gen(o, x) = m.from THEN Filler ELSE o.word[x]
      /\ \A x \in Addrs : Cell(f, x) => Gen(f, x) # f.from
  BY <1>3, FreeOldspaceOK
<1> HIDE DEF f
<1>5. /\ l \in Heaps /\ AllClosed(l) /\ BytesOK(l)
      /\ l.areas = <<>> /\ l.below = 0 /\ l.chain = {} /\ ~l.lost /\ ~l.full
      /\ l.word = f.word /\ l.root = f.root
      /\ \A p \in Pages :
           /\ l.page[p].type = f.page[p].type /\ l.page[p].mark = f.page[p].mark
           /\ l.page[p].fill = f.page[p].fill
           /\ l.page[p].gen = IF f.new = Scratch /\ f.page[p].gen = Scratch
                              THEN f.from ELSE f.page[p].gen
           /\ f.page[p].gen # Scratch => l.page[p] = f.page[p]
  BY <1>4, LowerOK
<1> HIDE DEF l
<1>6. none \in SUBSET Addrs /\ none = {}
  OBVIOUS
<1> HIDE DEF none
<1>7. /\ e \in Heaps
      /\ e.page = l.page /\ e.word = l.word /\ e.bytes = l.bytes /\ e.from = l.from
      /\ e.new = l.new /\ e.region = l.region /\ e.areas = l.areas /\ e.below = l.below
      /\ e.pinned = none /\ e.chain = l.chain /\ e.root = l.root
      /\ e.lost = l.lost /\ e.full = l.full
  BY <1>5, <1>6 DEF Heaps
<1> HIDE DEF e, PP
<1>8. \A p \in Pages :
        /\ Old(p) => e.page[p] = FreePage
        /\ ~Old(p) => /\ e.page[p].type = m.page[p].type /\ e.page[p].mark = m.page[p].mark
                      /\ e.page[p].fill = m.page[p].fill
                      /\ e.page[p].gen = IF m.page[p].gen \in {m.from, m.new} THEN N ELSE m.page[p].gen
                      /\ p \notin PP /\ m.page[p].gen # Scratch => e.page[p] = m.page[p]
  <2> SUFFICES ASSUME NEW p \in Pages
               PROVE  /\ Old(p) => e.page[p] = FreePage
                      /\ ~Old(p) => /\ e.page[p].type = m.page[p].type /\ e.page[p].mark = m.page[p].mark
                                    /\ e.page[p].fill = m.page[p].fill
                                    /\ e.page[p].gen = IF m.page[p].gen \in {m.from, m.new} THEN N ELSE m.page[p].gen
                                    /\ p \notin PP /\ m.page[p].gen # Scratch => e.page[p] = m.page[p]
    OBVIOUS
  <2>1. CASE Old(p)
    <3>1. f.page[p] = FreePage
      BY <1>3, <1>4, <2>1
    <3>2. f.page[p].gen # Scratch
      BY <1>1, <3>1 DEF FreePage
    <3> QED BY <1>5, <1>7, <2>1, <3>1, <3>2
  <2>2. CASE ~Old(p)
    <3>1. f.page[p] = o.page[p]
      BY <1>1, <1>2, <1>3, <1>4, <2>2
    <3>2. /\ e.page[p].type = m.page[p].type /\ e.page[p].mark = m.page[p].mark
          /\ e.page[p].fill = m.page[p].fill
      BY <1>3, <1>5, <1>7, <3>1
    <3>3. e.page[p].gen = IF m.page[p].gen \in {m.from, m.new} THEN N ELSE m.page[p].gen
      <4>1. e.page[p].gen = IF m.new = Scratch /\ o.page[p].gen = Scratch THEN m.from ELSE o.page[p].gen
        BY <1>4, <1>5, <1>7, <3>1
      <4>2. CASE p \in PP
        <5>1. o.page[p].gen = m.new /\ m.page[p].gen = m.from
          BY <1>2, <1>3, <4>2
        <5> QED BY <4>1, <5>1
      <4>3. CASE p \notin PP
        <5>1. o.page[p].gen = m.page[p].gen /\ m.page[p].gen # m.from
          BY <1>3, <2>2, <4>3
        <5> QED BY <4>1, <5>1
      <4> QED BY <4>2, <4>3
    <3>4. p \notin PP /\ m.page[p].gen # Scratch => e.page[p] = m.page[p]
      BY <1>3, <1>5, <1>7, <3>1
    <3> QED BY <2>2, <3>2, <3>3, <3>4
  <2> QED BY <2>1, <2>2
<1>9. \A x \in Addrs : e.word[x] = IF InFromSpace(m, x) THEN Filler ELSE m.word[x]
  <2> SUFFICES ASSUME NEW x \in Addrs
               PROVE  e.word[x] = IF InFromSpace(m, x) THEN Filler ELSE m.word[x]
    OBVIOUS
  <2>1. e.word[x] = IF Gen(o, x) = m.from THEN Filler ELSE o.word[x]
    BY <1>4, <1>5, <1>7
  <2>2. Gen(o, x) = IF Page(x) \in PP THEN m.new ELSE Gen(m, x)
    BY <1>3, PageSlot DEF Gen
  <2>3. InFromSpace(m, x) <=> Gen(m, x) = m.from /\ x \notin m.pinned
    BY DEF InFromSpace, Gen
  <2>4. CASE Page(x) \in PP
    <3>1. Gen(m, x) = m.from /\ Gen(o, x) # m.from
      BY <1>1, <1>2, <2>2, <2>4 DEF Gen
    <3> QED BY <1>3, <2>1, <2>3, <2>4, <3>1
  <2>5. CASE Page(x) \notin PP
    <3>1. x \notin m.pinned
      BY <2>5 DEF PinnedPages, PP
    <3> QED BY <1>3, <2>1, <2>2, <2>3, <2>5, <3>1
  <2> QED BY <2>4, <2>5
<1>10. \A x \in Addrs : /\ Cell(e, x) => Cell(m, x) /\ ~Old(Page(x))
                        /\ Kept(m, x) => ~Old(Page(x))
                        /\ ~Old(Page(x)) => /\ Cell(e, x) <=> Cell(m, x)
                                            /\ Mark(e, x) = Mark(m, x)
                                            /\ Gen(e, x) = IF Gen(m, x) \in {m.from, m.new} THEN N ELSE Gen(m, x)
  <2> SUFFICES ASSUME NEW x \in Addrs
               PROVE  /\ Cell(e, x) => Cell(m, x) /\ ~Old(Page(x))
                      /\ Kept(m, x) => ~Old(Page(x))
                      /\ ~Old(Page(x)) => /\ Cell(e, x) <=> Cell(m, x)
                                          /\ Mark(e, x) = Mark(m, x)
                                          /\ Gen(e, x) = IF Gen(m, x) \in {m.from, m.new} THEN N ELSE Gen(m, x)
    OBVIOUS
  <2>1. Page(x) \in Pages /\ Slot(x) \in Int /\ Slot(x) >= 1
    BY PageSlot
  <2>2. Old(Page(x)) => ~Cell(e, x)
    <3>1. FreePage.fill = 0
      BY DEF FreePage
    <3> QED BY <1>8, <2>1, <3>1 DEF Cell
  <2>3. ~Old(Page(x)) => /\ Cell(e, x) <=> Cell(m, x)
                         /\ Mark(e, x) = Mark(m, x)
                         /\ Gen(e, x) = IF Gen(m, x) \in {m.from, m.new} THEN N ELSE Gen(m, x)
    <3> HIDE DEF Old, N
    <3> QED BY <1>8, <2>1 DEF Cell, Mark, Gen
  <2>4. Kept(m, x) => ~Old(Page(x))
    BY DEF Kept, InFromSpace, PP, PinnedPages
  <2> QED BY <2>2, <2>3, <2>4
<1>11. \A x \in Addrs : IsObj(e, x) <=> IsObj(m, x) /\ Kept(m, x)
  <2>1. Filler.tag # "object"
    BY DEF Filler
  <2> HIDE DEF Old, N
  <2> QED BY <1>9, <1>10, <2>1 DEF IsObj, Kept
<1>12. NoForwards(e)
  <2>1. Filler.tag # "forward"
    BY DEF Filler
  <2>2. \A x \in Addrs : IsFwd(m, x) => InFromSpace(m, x)
    BY <1>1 DEF Mid, ForwardsOK
  <2> HIDE DEF Old, N
  <2> QED BY <1>9, <1>10, <2>1, <2>2 DEF NoForwards, IsFwd
<1>13. e.root = m.root
  BY <1>4, <1>5, <1>7
<1>14. RefsOK(e)
  <2>1. ASSUME NEW x \in Addrs, IsObj(e, x) PROVE Target(e, e.word[x].ref)
    <3>1. IsObj(m, x) /\ Kept(m, x) /\ e.word[x] = m.word[x]
      BY <1>9, <1>11, <2>1 DEF Kept
    <3>2. e.word[x].ref = Nil \/ (IsObj(m, e.word[x].ref) /\ Kept(m, e.word[x].ref))
      BY <3>1 DEF Clean
    <3>3. e.word[x].ref = Nil \/ IsObj(e, e.word[x].ref)
      BY <1>11, <3>2 DEF IsObj, Cell
    <3> QED BY <3>3 DEF Target, IsObj
  <2>2. ASSUME NEW r \in Roots PROVE Target(e, e.root[r])
    <3>1. e.root[r] = Nil \/ (IsObj(m, e.root[r]) /\ Kept(m, e.root[r]))
      BY <1>13 DEF Clean
    <3>2. e.root[r] = Nil \/ IsObj(e, e.root[r])
      BY <1>11, <3>1 DEF IsObj, Cell
    <3> QED BY <3>2 DEF Target, IsObj
  <2> QED BY <2>1, <2>2 DEF RefsOK
<1>15. FreeOK(e)
  <2> SUFFICES ASSUME NEW p \in Pages, e.page[p].type = "free" PROVE e.page[p] = FreePage
    BY DEF FreeOK
  <2>1. CASE ~Old(p)
    <3>1. m.page[p] = FreePage
      BY <1>1, <1>8, <2>1 DEF Mid, FreeOK
    <3>2. m.page[p].fill = 0 /\ m.page[p].gen = 0
      BY <3>1 DEF FreePage
    <3>3. p \notin PP
      BY <1>2, <3>2
    <3> QED BY <1>1, <1>8, <2>1, <3>1, <3>2, <3>3
  <2> QED BY <1>8, <2>1
<1>16. \A x \in Addrs : Gen(m, x) \in 0..Scratch /\ Gen(m, x) \in Int
  BY <1>1, PageType, PageSlot, GencgcAssumption DEF Gen, Generations, Scratch
<1> HIDE DEF Old
<1>17. CoverOK(e)
  <2> SUFFICES ASSUME NEW x \in Addrs, IsObj(e, x), NEW r, r = e.word[x].ref, r # Nil,
                      Gen(e, r) < Gen(e, x), Mark(e, x) = "clear"
               PROVE  FALSE
    BY DEF CoverOK
  <2>1. /\ IsObj(m, x) /\ Kept(m, x) /\ r = m.word[x].ref /\ Cell(m, x)
        /\ Mark(m, x) = "clear"
        /\ Gen(e, x) = IF Gen(m, x) \in {m.from, m.new} THEN N ELSE Gen(m, x)
    BY <1>9, <1>10, <1>11 DEF Kept
  <2>2. IsObj(m, r) /\ Kept(m, r) /\ r \in Addrs /\ Cell(m, r)
    BY <2>1 DEF Clean, IsObj, Cell
  <2>3. Gen(e, r) = IF Gen(m, r) \in {m.from, m.new} THEN N ELSE Gen(m, r)
    BY <1>10, <2>2
  <2>4. Gen(m, x) # m.from /\ Gen(m, x) # Scratch
    BY <1>1, <2>1 DEF Mid, MarksOK
  <2>5. Gen(m, x) <= Gen(m, r) /\ Gen(m, r) <= Oldest
    BY <1>1, <2>1, <2>4 DEF Mid, CleanOK
  <2>6. Gen(m, x) > m.from /\ Gen(m, r) > m.from /\ Gen(m, r) < Scratch
    <3>1. Gen(m, x) >= m.from
      BY <1>1, <2>1 DEF Mid, GensOK
    <3> QED BY <1>1, <1>16, <2>2, <2>4, <2>5, <3>1, GencgcAssumption DEF Scratch
  <2>7. CASE m.new = Scratch
    <3>1. Gen(m, x) \notin {m.from, m.new} /\ Gen(m, r) \notin {m.from, m.new}
      BY <1>1, <1>16, <2>2, <2>4, <2>6, <2>7, GencgcAssumption DEF Scratch
    <3> QED BY <1>16, <2>1, <2>2, <2>3, <2>5, <3>1
  <2>8. CASE m.new # Scratch
    <3>1. Gen(e, x) = Gen(m, x) /\ Gen(e, r) = Gen(m, r)
      BY <1>16, <1>1, <2>1, <2>2, <2>3, <2>4, <2>6, <2>8 DEF N
    <3> QED BY <1>16, <2>2, <2>5, <3>1
  <2> QED BY <2>7, <2>8
<1>18. \A x \in Addrs : Cell(e, x) =>
         /\ Cell(m, x) /\ Mark(e, x) = Mark(m, x)
         /\ Gen(m, x) >= m.from
         /\ Gen(e, x) = IF Gen(m, x) \in {m.from, m.new} THEN N ELSE Gen(m, x)
  BY <1>1, <1>10 DEF Mid, GensOK
<1>19. NurseryOK(e)
  <2> SUFFICES ASSUME NEW x \in Addrs, Cell(e, x), Gen(e, x) = 0 PROVE Mark(m, x) # "clear"
    BY <1>18 DEF NurseryOK
  <2>1. CASE Gen(m, x) \in {m.from, Scratch}
    BY <1>1, <1>18, <2>1 DEF Mid, MarksOK
  <2>2. CASE Gen(m, x) \notin {m.from, Scratch}
    <3>1. Gen(m, x) > m.from
      BY <1>1, <1>16, <1>18, <2>2
    <3>2. Gen(e, x) = Gen(m, x)
      <4>1. CASE Gen(m, x) = m.new
        BY <1>18, <2>2, <4>1 DEF N
      <4>2. CASE Gen(m, x) # m.new
        BY <1>18, <2>2, <4>2
      <4> QED BY <4>1, <4>2
    <3> QED BY <1>1, <1>16, <3>1, <3>2
  <2> QED BY <2>1, <2>2
<1>20. NoScratch(e)
  <2> SUFFICES ASSUME NEW p \in Pages, e.page[p].gen = Scratch PROVE FALSE
    BY DEF NoScratch
  <2>1. ~Old(p)
    BY <1>1, <1>8 DEF FreePage
  <2>2. e.page[p].gen = IF m.page[p].gen \in {m.from, m.new} THEN N ELSE m.page[p].gen
    BY <1>8, <2>1
  <2>3. N # Scratch
    BY <1>1 DEF N
  <2>4. m.page[p].gen = Scratch /\ m.new # Scratch
    BY <2>2, <2>3
  <2> QED BY <1>1, <2>4 DEF Mid, ScratchOK
<1>21. BytesOK(e)
  <2>1. \A k : CellsOf(e, k) = CellsOf(l, k)
    BY <1>7 DEF CellsOf, Gen, Used, Open
  <2> QED BY <1>5, <1>7, <2>1 DEF BytesOK
<1>22. Quiet(e)
  BY <1>5, <1>6, <1>7 DEF Quiet, AllClosed, Heaps
<1>23. Rest(e)
  BY <1>7, <1>12, <1>14, <1>15, <1>17, <1>19, <1>20, <1>21, <1>22 DEF Rest
<1>24. Empty(e, IF m.new = Scratch THEN m.from ELSE m.from + 1)
  <2> SUFFICES ASSUME NEW x \in Addrs, Cell(e, x)
               PROVE  Gen(e, x) >= IF m.new = Scratch THEN m.from ELSE m.from + 1
    BY DEF Empty
  <2>1. CASE Gen(m, x) \in {m.from, m.new}
    BY <1>1, <1>18, <2>1 DEF N
  <2>2. CASE Gen(m, x) \notin {m.from, m.new}
    <3>1. Gen(e, x) = Gen(m, x) /\ Gen(m, x) > m.from
      BY <1>1, <1>16, <1>18, <2>2
    <3> QED BY <1>1, <1>16, <3>1
  <2> QED BY <2>1, <2>2
<1>25. \A x \in Addrs : IsObj(m, x) /\ Kept(m, x) =>
           /\ IsObj(e, x)
           /\ Gen(e, x) = IF Gen(m, x) \in {m.from, m.new} THEN N ELSE Gen(m, x)
           /\ Mark(e, x) = Mark(m, x)
  BY <1>10, <1>11
<1>26. Finished(m, e)
  BY <1>13, <1>23, <1>24, <1>25 DEF Finished, N
<1> QED BY <1>26 DEF e, l, f, o, none

------------------------------------------------------------------------------
(* garbage_collect_generation.                                              *)

\* A generation was collected: what the registers lead to is kept, its generation
\* is raised if it was the one collected, and its card remembers that the program
\* may be storing to it.
Collected(h, g, gen, raise) ==
  LET N == IF raise THEN gen + 1 ELSE gen
  IN  /\ Rest(g) /\ RegsOK(g) /\ Empty(g, N)
      /\ \A x \in Registers : reg[x] # Nil =>
           LET a == reg[x]
           IN  /\ Gen(g, a) = IF Gen(h, a) = gen THEN N ELSE Gen(h, a)
               /\ Gen(h, a) # gen /\ Mark(h, a) = "sticky" => Mark(g, a) = "sticky"
               /\ gen = 0 /\ Gen(h, a) # gen /\ Mark(h, a) = "marked" => Mark(g, a) = "sticky"

\* garbage_collect_generation.
LEMMA CollectGenerationOK ==
  ASSUME NEW h, Rest(h), RegsOK(h), reg \in [Registers -> Addrs \cup {Nil}],
         NEW gen \in 0..Oldest, NEW raise \in BOOLEAN, raise => gen < Oldest, Empty(h, gen),
         NEW junk \in SUBSET Addrs
  PROVE  LET g == CollectGeneration(h, gen, raise, junk)
         IN  g \in Heaps /\ ~g.lost /\ (~g.full => Collected(h, g, gen, raise))
<1> DEFINE regs == {reg[x] : x \in Registers} \ {Nil}
           from == gen + 1 + IF raise THEN 1 ELSE 0
           f == FlipSpaces(h, gen, raise)
           s == StackScan(f, regs, junk)
           v == ScavengeNewspace(ScavengePinned(ScavengeRootGens(ScavengeRoots(s), from)))
           m == SmashWeakPointers(v)
           e == [Lower(FreeOldspace(Obliterate(m))) EXCEPT !.pinned = {}]
           g == CollectGeneration(h, gen, raise, junk)
           N == IF raise THEN gen + 1 ELSE gen
<1>0. Oldest \in Nat /\ gen \in Int /\ Scratch = Oldest + 1 /\ h \in Heaps /\ ~h.lost
  BY GencgcAssumption DEF Scratch, Rest, Quiet
<1>1. g = IF v.full THEN [h EXCEPT !.full = TRUE] ELSE e
  BY DEF CollectGeneration
<1>2. /\ Begun(f) /\ SameWords(h, f) /\ f.pinned = {}
      /\ f.from = gen /\ f.new = IF raise THEN gen + 1 ELSE Scratch
      /\ \A p \in Pages : h.page[p].gen # gen => f.page[p].mark = h.page[p].mark
  BY FlipSpacesOK
<1> HIDE DEF f, g
<1>3. regs \in SUBSET Addrs /\ \A a \in regs : IsObj(h, a)
  BY DEF RegsOK
<1>4. /\ \A a \in Addrs : /\ IsObj(f, a) <=> IsObj(h, a)
                          /\ Gen(f, a) = Gen(h, a)
                          /\ Gen(h, a) # gen => Mark(f, a) = Mark(h, a)
  BY <1>2, PageSlot DEF SameWords, IsObj, Cell, Gen, Mark
<1>5. Scanned(f, s, regs)
  <2>1. \A a \in regs : IsObj(f, a)
    BY <1>3, <1>4
  <2> HIDE DEF regs
  <2> QED BY <1>2, <1>3, <2>1, StackScanOK
<1> HIDE DEF s, regs, from
<1>6. Mid(s) /\ s.below = 0 /\ s.areas = <<>> /\ ~s.lost
  BY <1>5 DEF Scanned, Begun
<1>7. RootsFrom(s, from)
  <2>1. s.from = gen /\ s.new = IF raise THEN gen + 1 ELSE Scratch
    BY <1>2, <1>5 DEF Scanned
  <2> QED BY <1>0, <2>1 DEF RootsFrom, from
<1>8. /\ Mid(v) /\ Sweep(s, v)
      /\ AllClosed(v) /\ v.areas = <<>> /\ v.below = 0
      /\ ~v.full => /\ Unclean(v) = {}
                    /\ \A r \in Roots : v.root[r] = Nil \/ (IsObj(v, v.root[r]) /\ Kept(v, v.root[r]))
  BY <1>6, <1>7, ScavengeAllOK
<1> HIDE DEF v
<1>9. CASE v.full
  <2>1. g = [h EXCEPT !.full = TRUE]
    BY <1>1, <1>9
  <2>2. g \in Heaps /\ g.lost = h.lost /\ g.full
    BY <1>0, <2>1 DEF Heaps
  <2> QED BY <1>0, <2>2 DEF g
<1>10. CASE ~v.full
  <2>1. g = e
    BY <1>1, <1>10
  <2>2. ~v.lost
    BY <1>6, <1>8 DEF Sweep
  <2>3. /\ Clean(m) /\ m.page = v.page /\ m.from = v.from /\ m.new = v.new
        /\ \A x : (IsObj(m, x) <=> IsObj(v, x)) /\ (Kept(m, x) <=> Kept(v, x))
    BY <1>8, <1>10, <2>2, SmashOK
  <2> HIDE DEF m
  <2>4. Finished(m, g)
    BY <2>1, <2>3, FinishOK
  <2> HIDE DEF e
  <2>5. /\ m.from = gen /\ m.new = IF raise THEN gen + 1 ELSE Scratch
        /\ m.new = Scratch <=> ~raise
        /\ N = IF m.new = Scratch THEN m.from ELSE m.new
        /\ N = IF m.new = Scratch THEN m.from ELSE m.from + 1
    <3>1. m.from = gen /\ m.new = IF raise THEN gen + 1 ELSE Scratch
      BY <1>2, <1>5, <1>8, <2>3 DEF Scanned, Sweep
    <3>2. CASE raise
      BY <1>0, <3>1, <3>2
    <3>3. CASE ~raise
      BY <1>0, <3>1, <3>3
    <3> QED BY <3>2, <3>3
  <2>6. Rest(g) /\ Empty(g, N)
    BY <2>4, <2>5 DEF Finished
  <2>7. ASSUME NEW x \in Registers, reg[x] # Nil, NEW a, a = reg[x]
        PROVE  /\ IsObj(g, a)
               /\ Gen(g, a) = IF Gen(h, a) = gen THEN N ELSE Gen(h, a)
               /\ Gen(h, a) # gen /\ Mark(h, a) = "sticky" => Mark(g, a) = "sticky"
               /\ gen = 0 /\ Gen(h, a) # gen /\ Mark(h, a) = "marked" => Mark(g, a) = "sticky"
    <3>1. a \in regs /\ a \in Addrs
      BY <2>7 DEF regs
    <3>2. IsObj(s, a) /\ Kept(s, a) /\ Cell(s, a)
      BY <1>5, <3>1 DEF Scanned, Kept
    <3>3. IsObj(h, a) /\ Cell(h, a) /\ Cell(f, a) /\ IsObj(f, a)
      BY <1>3, <1>4, <3>1 DEF IsObj
    <3>4. IsObj(v, a) /\ Kept(v, a)
      <4>1. Cell(v, a) /\ v.word[a].tag = s.word[a].tag
        BY <1>8, <3>1, <3>2 DEF Sweep
      <4>2. IsObj(v, a)
        BY <3>2, <4>1 DEF IsObj
      <4>3. Kept(v, a)
        BY <1>6, <1>8, <3>2, KeptStays
      <4> QED BY <4>2, <4>3
    <3>5. /\ IsObj(g, a)
          /\ Gen(g, a) = IF Gen(m, a) \in {m.from, m.new} THEN N ELSE Gen(m, a)
          /\ Mark(g, a) = Mark(m, a)
      BY <2>3, <2>4, <2>5, <3>1, <3>4 DEF Finished
    <3>6. Gen(m, a) = Gen(v, a) /\ Mark(m, a) = Mark(v, a)
      BY <2>3 DEF Gen, Mark
    <3>7. /\ Gen(f, a) = Gen(h, a)
          /\ Gen(s, a) = Gen(f, a) \/ (Gen(f, a) = gen /\ Gen(s, a) = m.new)
          /\ Gen(v, a) = Gen(s, a) \/ (Gen(s, a) = gen /\ Gen(v, a) = m.new)
      <4>1. f.from = gen /\ s.from = gen /\ f.new = m.new /\ s.new = m.new
        BY <1>2, <1>5, <2>5 DEF Scanned
      <4> QED BY <1>4, <1>5, <1>8, <3>1, <3>2, <3>3, <4>1 DEF Scanned, Sweep
    <3>8. Gen(g, a) = IF Gen(h, a) = gen THEN N ELSE Gen(h, a)
      <4>1. CASE Gen(h, a) = gen
        BY <2>5, <3>5, <3>6, <3>7, <4>1
      <4>2. CASE Gen(h, a) # gen
        <5>1. Gen(m, a) = Gen(h, a)
          BY <3>6, <3>7, <4>2
        <5>2. Gen(h, a) # Scratch
          BY <3>1, PageSlot DEF Rest, NoScratch, Gen
        <5>3. Gen(h, a) = m.new => N = Gen(h, a)
          BY <2>5, <5>2
        <5> QED BY <2>5, <3>5, <4>2, <5>1, <5>3
      <4> QED BY <4>1, <4>2
    <3>9. /\ Mark(s, a) = "sticky" => Mark(g, a) = "sticky"
          /\ Gen(h, a) # gen => Mark(f, a) = Mark(h, a)
      BY <1>4, <1>8, <3>1, <3>2, <3>5, <3>6 DEF Sweep
    <3>10. /\ Mark(f, a) = "sticky" => Mark(s, a) = "sticky"
           /\ f.from = 0 /\ Gen(f, a) # 0 /\ Mark(f, a) = "marked" => Mark(s, a) = "sticky"
      BY <1>5, <3>1, <3>3 DEF Scanned
    <3> QED BY <1>2, <3>5, <3>7, <3>8, <3>9, <3>10
  <2>8. RegsOK(g)
    BY <2>7 DEF RegsOK
  <2>9. Collected(h, g, gen, raise)
    BY <2>6, <2>7, <2>8 DEF Collected
  <2>10. g \in Heaps /\ ~g.lost
    BY <2>6 DEF Rest, Quiet
  <2> QED BY <2>9, <2>10 DEF g
<1> QED BY <1>9, <1>10

------------------------------------------------------------------------------
(* collect_garbage.                                                         *)

\* Marks that cover what they must are all that changed.
LEMMA RestRemarked ==
  ASSUME NEW h, Rest(h), NEW g, Remarked(h, g), FreeOK(g), CoverOK(g), NurseryOK(g)
  PROVE  Rest(g)
<1>1. RefsOK(g) /\ BytesOK(g)
  BY RemarkedSame DEF Rest
<1>2. Quiet(g) /\ NoScratch(g)
  BY DEF Rest, Quiet, NoScratch, Remarked
<1>3. NoForwards(g)
  BY RemarkedSame DEF Rest, NoForwards
<1> QED BY <1>1, <1>2, <1>3 DEF Rest, Remarked

\* A generation was protected: the next store to a card that a register leads to
\* finds it marked.
Protected(h, e) ==
  /\ Rest(e) /\ \A p \in Pages : e.page[p].mark # "sticky"
  /\ \A a \in Addrs : /\ IsObj(h, a) => IsObj(e, a)
                      /\ Gen(e, a) = Gen(h, a)
                      /\ Mark(h, a) = "sticky" => Mark(e, a) = "marked"

\* The end of collect_garbage.
LEMMA ProtectOK ==
  ASSUME NEW h, Rest(h), NEW gen \in 0..Oldest, Empty(h, gen)
  PROVE  Protected(h, Protect(h, gen))
<1> DEFINE empty == \A i \in Generations : i < gen => h.bytes[i] = 0
           P == {p \in Pages : /\ h.page[p].type # "free" /\ h.page[p].gen = gen
                               /\ h.page[p].fill # 0 /\ h.page[p].mark # "sticky"}
           w == SetMarks(h, P, "clear")
           d == IF gen > 0 THEN w ELSE h
           S == {p \in Pages : d.page[p].mark = "sticky"}
           u == SetMarks(d, S, "marked")
           from == -1
           new == 0
           e == [u EXCEPT !.from = from, !.new = new]
<1>1. h \in Heaps /\ gen \in Int /\ Oldest \in Nat
  BY GencgcAssumption DEF Rest
<1>2. \A x \in Addrs : Gen(h, x) \in Int
  BY <1>1, PageType, PageSlot, GencgcAssumption DEF Gen, Generations, Scratch
<1>3. empty
  <2> SUFFICES ASSUME NEW i \in Generations, i < gen PROVE h.bytes[i] = 0
    OBVIOUS
  <2>1. \A a \in Addrs : Cell(h, a) => Gen(h, a) # i
    BY <1>1, <1>2, GencgcAssumption DEF Empty, Generations, Scratch
  <2> QED BY <1>1, <2>1, ScratchEmpty DEF Rest, Quiet
<1>4. Protect(h, gen) = e
  BY <1>3, ZenonT(60) DEF Protect, WriteProtect, UnstickMarks, Check
<1> HIDE DEF empty, P
<1>5. /\ Remarked(h, w)
      /\ \A p \in Pages : /\ w.page[p].mark = IF p \in P THEN "clear" ELSE h.page[p].mark
                          /\ p \notin P => w.page[p] = h.page[p]
  <2>1. "clear" \in Marks
    BY DEF Marks
  <2> QED BY <1>1, <2>1, SetMarksOK
<1> HIDE DEF w
<1>6. /\ Remarked(h, d)
      /\ \A p \in Pages : /\ d.page[p].mark = IF gen > 0 /\ p \in P THEN "clear" ELSE h.page[p].mark
                          /\ p \notin P => d.page[p] = h.page[p]
  <2>1. CASE gen > 0
    BY <1>5, <2>1
  <2>2. CASE ~(gen > 0)
    <3>1. d = h
      BY <2>2
    <3> HIDE DEF d
    <3> QED BY <1>1, <2>2, <3>1 DEF Remarked
  <2> QED BY <2>1, <2>2
<1> HIDE DEF d, S
<1>7. /\ Remarked(d, u)
      /\ \A p \in Pages : /\ u.page[p].mark = IF p \in S THEN "marked" ELSE d.page[p].mark
                          /\ p \notin S => u.page[p] = d.page[p]
  <2>1. d \in Heaps /\ "marked" \in Marks
    BY <1>6 DEF Remarked, Marks
  <2> QED BY <2>1, SetMarksOK
<1>8. \A p \in Pages : p \in S <=> d.page[p].mark = "sticky"
  BY DEF S
<1> HIDE DEF u
<1>9. Remarked(h, u)
  BY <1>6, <1>7 DEF Remarked
<1>10. \A p \in Pages : u.page[p].mark = IF gen > 0 /\ p \in P THEN "clear"
                                        ELSE IF h.page[p].mark = "sticky" THEN "marked"
                                        ELSE h.page[p].mark
  BY <1>6, <1>7, <1>8
<1>11. \A p \in Pages : p \in P <=> /\ h.page[p].type # "free" /\ h.page[p].gen = gen
                                    /\ h.page[p].fill # 0 /\ h.page[p].mark # "sticky"
  BY DEF P
<1>12. FreeOK(u)
  <2> SUFFICES ASSUME NEW p \in Pages, u.page[p].type = "free" PROVE u.page[p] = FreePage
    BY DEF FreeOK
  <2>1. h.page[p] = FreePage
    BY <1>9 DEF Remarked, Rest, FreeOK
  <2>2. p \notin P /\ h.page[p].mark # "sticky"
    BY <1>11, <2>1 DEF FreePage
  <2> QED BY <1>6, <1>7, <1>8, <2>1, <2>2
<1>13. \A x \in Addrs : /\ Mark(u, x) = IF gen > 0 /\ Page(x) \in P THEN "clear"
                                        ELSE IF Mark(h, x) = "sticky" THEN "marked"
                                        ELSE Mark(h, x)
                        /\ Page(x) \in P => Gen(h, x) = gen
                        /\ Mark(h, x) = "sticky" => Page(x) \notin P
  BY <1>10, <1>11, PageSlot DEF Mark, Gen
<1>14. /\ \A x \in Addrs : Gen(u, x) = Gen(h, x)
       /\ \A x : (Cell(u, x) <=> Cell(h, x)) /\ (IsObj(u, x) <=> IsObj(h, x))
       /\ u.word = h.word
  BY <1>9, RemarkedSame DEF Remarked
<1>15. CoverOK(u)
  <2> SUFFICES ASSUME NEW x \in Addrs, IsObj(h, x), NEW r, r = h.word[x].ref, r # Nil,
                      Gen(u, r) < Gen(u, x), Mark(u, x) = "clear"
               PROVE  FALSE
    BY <1>14 DEF CoverOK
  <2>1. r \in Addrs /\ Cell(h, r)
    BY DEF Rest, RefsOK, Target, Cell
  <2>2. Gen(h, r) < Gen(h, x)
    BY <1>14, <2>1
  <2>3. Mark(h, x) # "clear"
    BY <2>2 DEF Rest, CoverOK
  <2>4. Gen(h, x) = gen
    BY <1>13, <2>3
  <2> QED BY <1>1, <1>2, <2>1, <2>2, <2>4 DEF Empty
<1>16. NurseryOK(u)
  <2> SUFFICES ASSUME NEW x \in Addrs, Cell(h, x), Gen(h, x) = 0, Mark(u, x) = "clear" PROVE FALSE
    BY <1>14 DEF NurseryOK
  <2>1. Mark(h, x) # "clear"
    BY DEF Rest, NurseryOK
  <2> QED BY <1>13, <2>1
<1>17. Rest(u)
  BY <1>9, <1>12, <1>15, <1>16, RestRemarked
<1>18. /\ e \in Heaps
       /\ e.page = u.page /\ e.word = u.word /\ e.bytes = u.bytes
       /\ e.region = u.region /\ e.areas = u.areas /\ e.below = u.below
       /\ e.pinned = u.pinned /\ e.chain = u.chain /\ e.root = u.root
       /\ e.lost = u.lost /\ e.full = u.full
  <2>1. u \in Heaps /\ from \in Int /\ new \in Generations
    BY <1>17, GencgcAssumption DEF Rest, Generations, Scratch
  <2> HIDE DEF from, new
  <2> QED BY <2>1 DEF Heaps
<1> HIDE DEF e
<1>19. Rest(e)
  <2>1. /\ \A x : /\ Cell(e, x) <=> Cell(u, x)
                  /\ IsObj(e, x) <=> IsObj(u, x)
                  /\ IsFwd(e, x) <=> IsFwd(u, x)
                  /\ Target(e, x) <=> Target(u, x)
                  /\ Gen(e, x) = Gen(u, x) /\ Mark(e, x) = Mark(u, x)
        /\ \A k : CellsOf(e, k) = CellsOf(u, k)
    BY <1>18 DEF Cell, IsObj, IsFwd, Target, Gen, Mark, CellsOf, Used, Open
  <2>2. FreeOK(e) /\ NoScratch(e) /\ Quiet(e)
    BY <1>17, <1>18 DEF Rest, FreeOK, NoScratch, Quiet
  <2>3. RefsOK(e)
    BY <1>17, <1>18, <2>1 DEF Rest, RefsOK
  <2>4. BytesOK(e)
    BY <1>17, <1>18, <2>1 DEF Rest, BytesOK
  <2>5. NoForwards(e)
    BY <1>17, <2>1 DEF Rest, NoForwards
  <2>6. CoverOK(e) /\ NurseryOK(e)
    BY <1>17, <1>18, <2>1 DEF Rest, CoverOK, NurseryOK
  <2> QED BY <1>18, <2>2, <2>3, <2>4, <2>5, <2>6 DEF Rest
<1>20. \A p \in Pages : e.page[p].mark # "sticky"
  BY <1>10, <1>18
<1>21. \A a \in Addrs : /\ IsObj(h, a) => IsObj(e, a)
                        /\ Gen(e, a) = Gen(h, a)
                        /\ Mark(h, a) = "sticky" => Mark(e, a) = "marked"
  BY <1>13, <1>14, <1>18 DEF IsObj, Cell, Gen, Mark
<1>22. Protected(h, e)
  BY <1>19, <1>20, <1>21 DEF Protected
<1> QED BY <1>4, <1>22 DEF e, from, new, u, S, d, w, P

\* The store that is under way when a generation is collected.
LEMMA PendingCollected ==
  ASSUME NEW h, Rest(h), RegsOK(h), reg \in [Registers -> Addrs \cup {Nil}],
         storing = <<>> \/ storing \in Registers \X Registers,
         NEW gen \in 0..Oldest, NEW raise \in BOOLEAN, Empty(h, gen),
         PendingOK(h, "sticky") \/ (gen = 0 /\ PendingOK(h, "marked")),
         NEW g, Collected(h, g, gen, raise)
  PROVE  PendingOK(g, "sticky")
<1> SUFFICES ASSUME storing # <<>>,
                    NEW x, x = reg[storing[1]], NEW r, r = reg[storing[2]]
             PROVE  /\ x # Nil
                    /\ r # Nil /\ Gen(g, r) < Gen(g, x) => Mark(g, x) = "sticky"
  BY DEF PendingOK
<1> DEFINE N == IF raise THEN gen + 1 ELSE gen
<1>1. storing[1] \in Registers /\ storing[2] \in Registers
  OBVIOUS
<1>2. x # Nil
  BY DEF PendingOK
<1> SUFFICES ASSUME r # Nil, Gen(g, r) < Gen(g, x) PROVE Mark(g, x) = "sticky"
  BY <1>2
<1>3. x \in Addrs /\ r \in Addrs /\ Cell(h, x) /\ Cell(h, r)
  BY <1>1, <1>2 DEF RegsOK, IsObj, Cell
<1>4. /\ Gen(g, x) = IF Gen(h, x) = gen THEN N ELSE Gen(h, x)
      /\ Gen(g, r) = IF Gen(h, r) = gen THEN N ELSE Gen(h, r)
      /\ Gen(h, x) # gen /\ Mark(h, x) = "sticky" => Mark(g, x) = "sticky"
      /\ gen = 0 /\ Gen(h, x) # gen /\ Mark(h, x) = "marked" => Mark(g, x) = "sticky"
  BY <1>1, <1>2 DEF Collected
<1>5. /\ gen \in Int /\ Gen(h, x) \in Int /\ Gen(h, r) \in Int
      /\ Gen(h, x) >= gen /\ Gen(h, r) >= gen
  <2>1. h \in Heaps
    BY DEF Rest
  <2>2. Gen(h, x) \in Generations /\ Gen(h, r) \in Generations
    BY <1>3, <2>1, PageType, PageSlot DEF Gen
  <2>3. gen \in Int /\ Gen(h, x) \in Int /\ Gen(h, r) \in Int
    BY <2>2, GencgcAssumption DEF Generations, Scratch
  <2> QED BY <1>3, <2>3 DEF Empty
<1>6. N \in Int /\ (N = gen \/ N = gen + 1)
  BY <1>5
<1> HIDE DEF N
<1>7. Gen(h, x) # gen /\ Gen(h, r) < Gen(h, x)
  BY <1>4, <1>5, <1>6
<1>8. Mark(h, x) = "sticky" \/ (gen = 0 /\ Mark(h, x) = "marked")
  BY <1>7 DEF PendingOK
<1> QED BY <1>4, <1>7, <1>8

\* A step of collect_garbage.
LEMMA CollectOK ==
  ASSUME StateOK, pc \in {"run", "collect"},
         NEW last, last \in 0..(Oldest + 1), NEW gen \in 0..Oldest, NEW more \in BOOLEAN,
         Empty(heap, gen), more => gen > last,
         PendingOK(heap, "sticky") \/ (gen = 0 /\ PendingOK(heap, "marked")),
         Collect(last, gen, more), UNCHANGED <<reg, storing>>
  PROVE  StateOK'
<1>0. /\ Rest(heap) /\ RegsOK(heap) /\ reg \in [Registers -> Addrs \cup {Nil}]
      /\ storing = <<>> \/ storing \in Registers \X Registers
      /\ Oldest \in Nat /\ gen \in Int /\ last \in Int /\ heap \in Heaps
  BY GencgcAssumption DEF StateOK
<1>1. PICK raise \in BOOLEAN, more2 \in BOOLEAN, old \in BOOLEAN :
        /\ IF more \/ gen >= Oldest THEN ~raise /\ ~more2
           ELSE /\ gen < last => raise /\ ~more2
                /\ more2 => raise /\ gen = last
        /\ old => raise /\ ~more2 /\ gen + 1 >= last /\ gen + 1 <= Oldest
        /\ \E junk \in Junk(gen) : \E h \in {CollectGeneration(heap, gen, raise, junk)} :
             IF gen + 1 <= Oldest /\ (gen + 1 < last \/ more2 \/ old) /\ ~h.full
             THEN /\ heap' = h
                  /\ pc' = "collect"
                  /\ gc' = [gen |-> gen + 1, last |-> last, more |-> more2]
             ELSE /\ heap' = IF h.full THEN h ELSE Protect(h, IF raise THEN gen + 1 ELSE gen)
                  /\ pc' = IF h.full THEN "exhausted" ELSE "run"
                  /\ gc' = NotCollecting
  BY DEF Collect
<1>j. PICK junk \in Junk(gen) : \E h \in {CollectGeneration(heap, gen, raise, junk)} :
        IF gen + 1 <= Oldest /\ (gen + 1 < last \/ more2 \/ old) /\ ~h.full
        THEN /\ heap' = h
             /\ pc' = "collect"
             /\ gc' = [gen |-> gen + 1, last |-> last, more |-> more2]
        ELSE /\ heap' = IF h.full THEN h ELSE Protect(h, IF raise THEN gen + 1 ELSE gen)
             /\ pc' = IF h.full THEN "exhausted" ELSE "run"
             /\ gc' = NotCollecting
  BY <1>1
<1>2. PICK h \in {CollectGeneration(heap, gen, raise, junk)} :
        IF gen + 1 <= Oldest /\ (gen + 1 < last \/ more2 \/ old) /\ ~h.full
        THEN /\ heap' = h
             /\ pc' = "collect"
             /\ gc' = [gen |-> gen + 1, last |-> last, more |-> more2]
        ELSE /\ heap' = IF h.full THEN h ELSE Protect(h, IF raise THEN gen + 1 ELSE gen)
             /\ pc' = IF h.full THEN "exhausted" ELSE "run"
             /\ gc' = NotCollecting
  BY <1>j
<1> DEFINE N == IF raise THEN gen + 1 ELSE gen
<1>3. raise => gen < Oldest
  BY <1>0, <1>1
<1>4. h \in Heaps /\ ~h.lost /\ (~h.full => Collected(heap, h, gen, raise))
  <2>1. junk \in SUBSET Addrs
    BY DEF Junk, ConservativeRoots
  <2>2. h = CollectGeneration(heap, gen, raise, junk)
    OBVIOUS
  <2> QED BY <1>0, <1>3, <2>1, <2>2, CollectGenerationOK
<1>5. N \in 0..Oldest
  BY <1>0, <1>3
<1>6. ~h.full => Rest(h) /\ RegsOK(h) /\ Empty(h, N) /\ PendingOK(h, "sticky")
  BY <1>0, <1>4, PendingCollected DEF Collected
<1>7. reg' = reg /\ storing' = storing
  OBVIOUS
<1>8. CASE gen + 1 <= Oldest /\ (gen + 1 < last \/ more2 \/ old) /\ ~h.full
  <2>1. /\ heap' = h /\ pc' = "collect"
        /\ gc' = [gen |-> gen + 1, last |-> last, more |-> more2]
    BY <1>2, <1>8
  <2>2. raise
    BY <1>0, <1>1, <1>8
  <2>3. gc'.gen = gen + 1 /\ gc'.last \in 0..(Oldest + 1) /\ gc'.gen \in 1..Oldest /\ gc'.more \in BOOLEAN /\ (gc'.more => gc'.gen > gc'.last)
    BY <1>0, <1>1, <1>8, <2>1
  <2>4. Empty(h, gc'.gen)
    BY <1>6, <1>8, <2>2, <2>3
  <2>5. RegsOK(heap)'
    BY <1>6, <1>7, <1>8, <2>1 DEF RegsOK
  <2>6. PendingOK(heap, "sticky")'
    BY <1>6, <1>7, <1>8, <2>1 DEF PendingOK
  <2>7. Rest(heap') /\ Empty(heap', gc'.gen) /\ heap' \in Heaps /\ ~heap'.lost
    BY <1>4, <1>6, <1>8, <2>1, <2>4
  <2> QED BY <1>0, <1>7, <2>1, <2>3, <2>5, <2>6, <2>7 DEF StateOK
<1>9. CASE h.full
  <2>1. heap' = h /\ pc' = "exhausted"
    BY <1>2, <1>9
  <2> QED BY <1>0, <1>4, <1>7, <2>1 DEF StateOK
<1>10. CASE ~(gen + 1 <= Oldest /\ (gen + 1 < last \/ more2 \/ old)) /\ ~h.full
  <2>1. heap' = Protect(h, N) /\ pc' = "run" /\ gc' = NotCollecting
    BY <1>2, <1>10
  <2>2. Protected(h, heap')
    BY <1>5, <1>6, <1>10, <2>1, ProtectOK
  <2>3. Rest(heap') /\ heap' \in Heaps /\ ~heap'.lost /\ \A p \in Pages : heap'.page[p].mark # "sticky"
    BY <2>2 DEF Protected, Rest, Quiet
  <2>4. \A a \in Addrs : /\ IsObj(h, a) => IsObj(heap', a)
                         /\ Gen(heap', a) = Gen(h, a)
                         /\ Mark(h, a) = "sticky" => Mark(heap', a) = "marked"
    BY <2>2 DEF Protected
  <2>5. RegsOK(heap)'
    <3>1. \A x \in Registers : reg[x] = Nil \/ (IsObj(h, reg[x]) /\ reg[x] \in Addrs)
      BY <1>6, <1>10 DEF RegsOK, IsObj, Cell
    <3>2. \A x \in Registers : reg[x] = Nil \/ IsObj(heap', reg[x])
      BY <2>4, <3>1
    <3> QED BY <1>7, <3>2 DEF RegsOK
  <2>6. PendingOK(heap, "marked")'
    <3> SUFFICES ASSUME storing # <<>>, NEW x, x = reg[storing[1]], NEW r, r = reg[storing[2]]
                 PROVE  /\ x # Nil
                        /\ r # Nil /\ Gen(heap', r) < Gen(heap', x) => Mark(heap', x) = "marked"
      BY <1>7 DEF PendingOK
    <3>1. storing[1] \in Registers /\ storing[2] \in Registers
      BY <1>0
    <3>2. x \in Addrs \cup {Nil} /\ r \in Addrs \cup {Nil}
      BY <1>0, <3>1
    <3>3. x # Nil /\ (r # Nil /\ Gen(h, r) < Gen(h, x) => Mark(h, x) = "sticky")
      BY <1>6, <1>10 DEF PendingOK
    <3> QED BY <2>4, <3>2, <3>3
  <2> QED BY <1>0, <1>7, <2>1, <2>3, <2>5, <2>6 DEF StateOK
<1> QED BY <1>8, <1>9, <1>10

------------------------------------------------------------------------------
(* The program.                                                             *)

\* Between collections a reference leads to an object.
LEMMA RestTarget ==
  ASSUME NEW h, Rest(h), NEW r, Target(h, r), r # Nil
  PROVE  IsObj(h, r) /\ r \in Addrs
<1>1. Cell(h, r) /\ r \in Addrs /\ h.word[r].tag # "filler" /\ h.word[r] \in Cells
  BY DEF Target, Cell, Rest, Heaps
<1>2. ~IsFwd(h, r)
  BY <1>1 DEF Rest, NoForwards
<1> QED BY <1>1, <1>2, CellType DEF IsObj, IsFwd

\* The program writes to a cell whose card is marked.
LEMMA WriteOK ==
  ASSUME NEW h, Rest(h), NEW x \in Addrs, IsObj(h, x), NEW r, r = Nil \/ IsObj(h, r),
         r # Nil /\ Gen(h, r) < Gen(h, x) => Mark(h, x) = "marked"
  PROVE  LET g == SetRef(h, x, r)
         IN  /\ Rest(g) /\ g.page = h.page
             /\ \A y : IsObj(g, y) <=> IsObj(h, y)
<1> DEFINE g == SetRef(h, x, r)
           w == [h.word[x] EXCEPT !.ref = r]
           W == [h.word EXCEPT ![x] = w]
<1>1. h \in Heaps
  BY DEF Rest
<1>2. r \in Addrs \cup {Nil} /\ x \in Addrs /\ Cell(h, x)
  BY DEF IsObj, Cell
<1>3. /\ w \in Cells /\ w.tag = "object" /\ w.ref = r
  <2>1. h.word[x] \in Cells /\ h.word[x].tag = "object"
    BY <1>1, <1>2 DEF Heaps, IsObj
  <2>2. h.word[x] \in [tag : {"object"}, id : Ids, weak : BOOLEAN, ref : Addrs \cup {Nil}]
    BY <2>1, CellType
  <2>3. w \in [tag : {"object"}, id : Ids, weak : BOOLEAN, ref : Addrs \cup {Nil}]
    BY <1>2, <2>2
  <2> QED BY <2>2, <2>3 DEF Cells
<1>4. g = [h EXCEPT !.word = W]
  BY DEF SetRef
<1> HIDE DEF w
<1>5. W \in [Addrs -> Cells] /\ W[x] = w /\ \A y \in Addrs : y # x => W[y] = h.word[y]
  BY <1>1, <1>2, <1>3 DEF Heaps
<1> HIDE DEF W, g
<1>6. /\ g \in Heaps
      /\ g.page = h.page /\ g.word = W /\ g.bytes = h.bytes
      /\ g.region = h.region /\ g.areas = h.areas /\ g.below = h.below
      /\ g.pinned = h.pinned /\ g.chain = h.chain /\ g.root = h.root
      /\ g.lost = h.lost /\ g.full = h.full
  BY <1>1, <1>4, <1>5 DEF Heaps
<1>7. /\ \A y : /\ Cell(g, y) <=> Cell(h, y)
                /\ Gen(g, y) = Gen(h, y) /\ Mark(g, y) = Mark(h, y)
      /\ \A k : CellsOf(g, k) = CellsOf(h, k)
  BY <1>6 DEF Cell, Gen, Mark, CellsOf, Used, Open
<1>8. /\ \A y : /\ IsObj(g, y) <=> IsObj(h, y)
                /\ IsFwd(g, y) <=> IsFwd(h, y)
                /\ Target(g, y) <=> Target(h, y)
  <2>1. \A y \in Addrs : W[y].tag = h.word[y].tag
    BY <1>2, <1>3, <1>5 DEF IsObj
  <2> QED BY <1>6, <1>7, <2>1 DEF IsObj, IsFwd, Target, Cell
<1>9. FreeOK(g) /\ Quiet(g) /\ NoScratch(g)
  BY <1>6 DEF Rest, FreeOK, Quiet, NoScratch
<1>10. BytesOK(g) /\ NurseryOK(g) /\ NoForwards(g)
  BY <1>6, <1>7, <1>8 DEF Rest, BytesOK, NurseryOK, NoForwards
<1>11. \A y \in Addrs : IsObj(h, y) => g.word[y].ref = IF y = x THEN r ELSE h.word[y].ref
  BY <1>3, <1>5, <1>6
<1>12. RefsOK(g)
  <2>1. Target(h, r)
    BY DEF Target, IsObj
  <2>2. \A y \in Addrs : IsObj(h, y) => Target(h, g.word[y].ref)
    BY <1>11, <2>1 DEF Rest, RefsOK
  <2> QED BY <1>6, <1>8, <2>2 DEF Rest, RefsOK
<1>13. CoverOK(g)
  <2> SUFFICES ASSUME NEW y \in Addrs, IsObj(h, y), NEW t, t = g.word[y].ref, t # Nil,
                      Gen(h, t) < Gen(h, y)
               PROVE  Mark(h, y) # "clear"
    BY <1>7, <1>8 DEF CoverOK
  <2>1. CASE y = x
    BY <1>11, <2>1
  <2>2. CASE y # x
    BY <1>11, <2>2 DEF Rest, CoverOK
  <2> QED BY <2>1, <2>2
<1>14. Rest(g)
  BY <1>6, <1>9, <1>10, <1>12, <1>13 DEF Rest
<1> QED BY <1>6, <1>8, <1>14 DEF g

\* The program writes to a root.
LEMMA RootOK ==
  ASSUME NEW h, Rest(h), NEW x \in Roots, NEW r, r = Nil \/ IsObj(h, r)
  PROVE  LET g == [h EXCEPT !.root[x] = r]
         IN  /\ Rest(g) /\ g.page = h.page
             /\ \A y : IsObj(g, y) <=> IsObj(h, y)
<1> DEFINE R == [h.root EXCEPT ![x] = r]
           g == [h EXCEPT !.root = R]
<1>1. h \in Heaps /\ r \in Addrs \cup {Nil}
  BY DEF Rest, IsObj, Cell
<1>2. R \in [Roots -> Addrs \cup {Nil}] /\ \A y \in Roots : R[y] = IF y = x THEN r ELSE h.root[y]
  BY <1>1 DEF Heaps
<1> HIDE DEF R
<1>3. /\ g \in Heaps
      /\ g.page = h.page /\ g.word = h.word /\ g.bytes = h.bytes
      /\ g.region = h.region /\ g.areas = h.areas /\ g.below = h.below
      /\ g.pinned = h.pinned /\ g.chain = h.chain /\ g.root = R
      /\ g.lost = h.lost /\ g.full = h.full
  BY <1>1, <1>2 DEF Heaps
<1> HIDE DEF g
<1>4. /\ \A y : /\ Cell(g, y) <=> Cell(h, y)
                /\ IsObj(g, y) <=> IsObj(h, y)
                /\ IsFwd(g, y) <=> IsFwd(h, y)
                /\ Target(g, y) <=> Target(h, y)
                /\ Gen(g, y) = Gen(h, y) /\ Mark(g, y) = Mark(h, y)
      /\ \A k : CellsOf(g, k) = CellsOf(h, k)
  BY <1>3 DEF Cell, IsObj, IsFwd, Target, Gen, Mark, CellsOf, Used, Open
<1>5. FreeOK(g) /\ Quiet(g) /\ NoScratch(g)
  BY <1>3 DEF Rest, FreeOK, Quiet, NoScratch
<1>6. BytesOK(g) /\ NurseryOK(g) /\ NoForwards(g)
  BY <1>3, <1>4 DEF Rest, BytesOK, NurseryOK, NoForwards
<1>7. CoverOK(g)
  BY <1>3, <1>4 DEF Rest, CoverOK
<1>8. RefsOK(g)
  <2>1. Target(h, r)
    BY DEF Target, IsObj
  <2> QED BY <1>2, <1>3, <1>4, <2>1 DEF Rest, RefsOK
<1>9. Rest(g)
  BY <1>3, <1>5, <1>6, <1>7, <1>8 DEF Rest
<1> QED BY <1>3, <1>4, <1>9 DEF g, R

\* The program marks a card.
LEMMA CardOK ==
  ASSUME NEW h, Rest(h), \A p \in Pages : h.page[p].mark # "sticky", NEW q \in Pages
  PROVE  LET g == [h EXCEPT !.page[q].mark = "marked"]
         IN  /\ Rest(g)
             /\ \A y : IsObj(g, y) <=> IsObj(h, y)
             /\ \A p \in Pages : g.page[p].mark = IF p = q THEN "marked" ELSE h.page[p].mark
<1> DEFINE S == {q}
           u == SetMarks(h, S, "marked")
           g == [h EXCEPT !.page[q].mark = "marked"]
<1>1. h \in Heaps /\ "marked" \in Marks
  BY DEF Rest, Marks
<1>2. g = u
  <2>1. h.page = [p \in Pages |-> h.page[p]]
    BY <1>1 DEF Heaps
  <2>2. [h.page EXCEPT ![q].mark = "marked"]
          = [p \in Pages |-> IF p \in S THEN [h.page[p] EXCEPT !.mark = "marked"] ELSE h.page[p]]
    BY <2>1
  <2>3. u = [h EXCEPT !.page = [p \in Pages |-> IF p \in S THEN [h.page[p] EXCEPT !.mark = "marked"] ELSE h.page[p]]]
    BY DEF SetMarks
  <2>4. g = [h EXCEPT !.page = [h.page EXCEPT ![q].mark = "marked"]]
    OBVIOUS
  <2> QED BY <2>2, <2>3, <2>4
<1> HIDE DEF S, g
<1>3. /\ Remarked(h, u)
      /\ \A p \in Pages : /\ u.page[p].mark = IF p \in S THEN "marked" ELSE h.page[p].mark
                          /\ p \notin S => u.page[p] = h.page[p]
  BY <1>1, SetMarksOK
<1> HIDE DEF u
<1>4. \A p : p \in S <=> p = q
  BY DEF S
<1>5. \A x \in Addrs : Mark(u, x) = "clear" => Mark(h, x) = "clear"
  BY <1>3, PageSlot DEF Mark
<1>6. /\ \A x \in Addrs : Gen(u, x) = Gen(h, x)
      /\ \A x : (Cell(u, x) <=> Cell(h, x)) /\ (IsObj(u, x) <=> IsObj(h, x))
      /\ u.word = h.word
  BY <1>3, RemarkedSame DEF Remarked
<1>7. FreeOK(u)
  <2> SUFFICES ASSUME NEW p \in Pages, u.page[p].type = "free" PROVE u.page[p] = FreePage
    BY DEF FreeOK
  <2>1. h.page[p] = FreePage
    BY <1>3 DEF Remarked, Rest, FreeOK
  <2>2. /\ u.page[p].type = h.page[p].type /\ u.page[p].gen = h.page[p].gen
        /\ u.page[p].fill = h.page[p].fill /\ u.page[p].mark = h.page[p].mark
    BY <1>3, <2>1 DEF Remarked, FreePage
  <2>3. /\ u.page[p] \in [type : PageTypes, gen : Generations, mark : Marks, fill : 0..Cap]
        /\ h.page[p] \in [type : PageTypes, gen : Generations, mark : Marks, fill : 0..Cap]
    BY <1>3, PageType DEF Remarked
  <2> QED BY <2>1, <2>2, <2>3
<1>8. CoverOK(u)
  <2> SUFFICES ASSUME NEW x \in Addrs, IsObj(h, x), NEW r, r = h.word[x].ref, r # Nil,
                      Gen(u, r) < Gen(u, x), Mark(u, x) = "clear"
               PROVE  FALSE
    BY <1>6 DEF CoverOK
  <2>1. r \in Addrs /\ Cell(h, r)
    BY DEF Rest, RefsOK, Target, Cell
  <2> QED BY <1>5, <1>6, <2>1 DEF Rest, CoverOK
<1>9. NurseryOK(u)
  BY <1>5, <1>6 DEF Rest, NurseryOK
<1>10. Rest(u)
  BY <1>3, <1>7, <1>8, <1>9, RestRemarked
<1>11. \A p \in Pages : g.page[p].mark = IF p = q THEN "marked" ELSE h.page[p].mark
  BY <1>2, <1>3, <1>4
<1> QED BY <1>2, <1>6, <1>10, <1>11 DEF g

\* The heap with an object more at "a", on page p of the youngest generation.
Placed(h, p, type, a, w) ==
  [h EXCEPT !.page[p].type = type, !.page[p].gen = 0,
            !.page[p].fill = @ + 1, !.word[a] = w, !.bytes[0] = @ + 1]

\* lisp_alloc.
LEMMA NewOK ==
  ASSUME NEW h, Rest(h), NEW type \in {"cons", "mixed", "large"}, NEW p \in Pages,
         \/ h.page[p].type = "free"
         \/ h.page[p].type = type /\ h.page[p].gen = 0 /\ h.page[p].mark = "marked",
         h.page[p].fill < Cap,
         NEW w \in Cells, w.tag = "object", w.ref = Nil \/ IsObj(h, w.ref),
         NEW a, a = Addr(p, h.page[p].fill + 1)
  PROVE  LET g == Placed(h, p, type, a, w)
         IN  /\ Rest(g) /\ IsObj(g, a)
             /\ \A y : IsObj(h, y) => IsObj(g, y)
             /\ \A q \in Pages : g.page[q].mark = h.page[q].mark
<1> DEFINE T == [type : PageTypes, gen : Generations, mark : Marks, fill : 0..Cap]
           n == h.page[p].fill + 1
           b == h.bytes[0] + 1
           v == [h.page[p] EXCEPT !.type = type, !.gen = 0, !.fill = n]
           P == [h.page EXCEPT ![p] = v]
           W == [h.word EXCEPT ![a] = w]
           B == [h.bytes EXCEPT ![0] = b]
           g == [h EXCEPT !.page = P, !.word = W, !.bytes = B]
<1>1. h \in Heaps /\ 0 \in Generations /\ 0 # Scratch
  BY GencgcAssumption DEF Rest, Generations, Scratch
<1>2. /\ h.page[p] \in T /\ h.page[p].gen = 0 /\ h.page[p].mark = "marked"
      /\ h.page[p].fill \in Nat /\ n \in 1..Cap /\ Cap \in Nat /\ n \in 0..Cap
      /\ type \in PageTypes
  <2>1. h.page[p].gen = 0 /\ h.page[p].mark = "marked"
    BY DEF Rest, FreeOK, FreePage
  <2>2. h.page[p] \in T /\ h.page[p].fill \in Nat /\ Cap \in Nat
    BY <1>1, PageType, GencgcAssumption
  <2>3. n \in 1..Cap /\ n \in 0..Cap
    BY <2>2
  <2> QED BY <2>1, <2>2, <2>3 DEF PageTypes
<1>3. Placed(h, p, type, a, w) = g
  <2> DEFINE Q == [[[h.page EXCEPT ![p].type = type] EXCEPT ![p].gen = 0] EXCEPT ![p].fill = n]
  <2>1. h.page \in [Pages -> T] /\ h.bytes \in [Generations -> Int]
    BY <1>1 DEF Heaps
  <2>2. Q = P
    <3>1. [[[h.page[p] EXCEPT !.type = type] EXCEPT !.gen = 0] EXCEPT !.fill = n] = v
      BY <1>2
    <3>2. DOMAIN Q = Pages /\ Q[p] = [[[h.page[p] EXCEPT !.type = type] EXCEPT !.gen = 0] EXCEPT !.fill = n]
          /\ \A q \in Pages : q # p => Q[q] = h.page[q]
      <4> HIDE DEF n, T
      <4> QED BY <2>1
    <3>3. DOMAIN P = Pages /\ P[p] = v /\ \A q \in Pages : q # p => P[q] = h.page[q]
      <4> HIDE DEF v, T
      <4> QED BY <2>1
    <3>4. Q = [q \in Pages |-> Q[q]] /\ P = [q \in Pages |-> P[q]]
      <4> HIDE DEF n, v, T
      <4> QED BY <2>1
    <3> HIDE DEF Q, P, v
    <3> QED BY <3>1, <3>2, <3>3, <3>4
  <2>3. Placed(h, p, type, a, w) = [h EXCEPT !.page = Q, !.word = W, !.bytes = B]
    BY <1>1 DEF Placed, Heaps
  <2> HIDE DEF Q, P
  <2> QED BY <2>2, <2>3
<1>4. /\ v \in T /\ v.type = type /\ v.gen = 0 /\ v.fill = n /\ v.mark = "marked"
  <2>1. 0 \in Generations
    BY <1>1
  <2> HIDE DEF n
  <2> QED BY <1>2, <2>1
<1> HIDE DEF v
<1>5. /\ P \in [Pages -> T] /\ P[p] = v /\ \A q \in Pages : q # p => P[q] = h.page[q]
  BY <1>1, <1>4 DEF Heaps
<1>6. a \in Addrs /\ Page(a) = p /\ Slot(a) = n
  BY <1>2, AddrOf
<1>7. W \in [Addrs -> Cells] /\ W[a] = w /\ \A x \in Addrs : x # a => W[x] = h.word[x]
  BY <1>1, <1>6 DEF Heaps
<1>8. /\ B \in [Generations -> Int] /\ B[0] = b
      /\ \A k \in Generations : k # 0 => B[k] = h.bytes[k]
  BY <1>1 DEF Heaps
<1> HIDE DEF P, W, B
<1>9. /\ g \in Heaps
      /\ g.page = P /\ g.word = W /\ g.bytes = B
      /\ g.region = h.region /\ g.areas = h.areas /\ g.below = h.below
      /\ g.pinned = h.pinned /\ g.chain = h.chain /\ g.root = h.root
      /\ g.lost = h.lost /\ g.full = h.full
  BY <1>1, <1>5, <1>7, <1>8 DEF Heaps
<1> HIDE DEF g
<1>10. \A q \in Pages : /\ g.page[q].mark = h.page[q].mark /\ g.page[q].gen = h.page[q].gen
                        /\ g.page[q].fill = IF q = p THEN n ELSE h.page[q].fill
                        /\ q # p => g.page[q] = h.page[q]
  BY <1>2, <1>4, <1>5, <1>9
<1>11. \A x \in Addrs : /\ Cell(g, x) <=> Cell(h, x) \/ x = a
                        /\ Gen(g, x) = Gen(h, x) /\ Mark(g, x) = Mark(h, x)
  <2> SUFFICES ASSUME NEW x \in Addrs
               PROVE  /\ Cell(g, x) <=> Cell(h, x) \/ x = a
                      /\ Gen(g, x) = Gen(h, x) /\ Mark(g, x) = Mark(h, x)
    OBVIOUS
  <2>1. Page(x) \in Pages /\ Slot(x) \in 1..Cap /\ x = Addr(Page(x), Slot(x))
    BY PageSlot
  <2>2. Gen(g, x) = Gen(h, x) /\ Mark(g, x) = Mark(h, x)
    BY <1>10, <2>1 DEF Gen, Mark
  <2>3. CASE Page(x) = p
    <3>1. Slot(x) <= n <=> Slot(x) <= h.page[p].fill \/ Slot(x) = n
      BY <1>2, <2>1
    <3>2. Slot(x) = n <=> x = a
      BY <1>6, <2>1, <2>3
    <3> QED BY <1>6, <1>10, <2>2, <2>3, <3>1, <3>2 DEF Cell
  <2>4. CASE Page(x) # p
    BY <1>6, <1>10, <2>1, <2>2, <2>4 DEF Cell
  <2> QED BY <2>3, <2>4
<1>12. ~Cell(h, a) /\ Cell(g, a) /\ g.word[a] = w /\ \A x \in Addrs : x # a => g.word[x] = h.word[x]
  <2>1. ~(n <= h.page[p].fill)
    BY <1>2
  <2>2. ~Cell(h, a)
    BY <1>6, <2>1 DEF Cell
  <2> QED BY <1>6, <1>7, <1>9, <1>11, <2>2
<1> HIDE DEF n, b
<1>13. \A x : /\ IsObj(g, x) <=> IsObj(h, x) \/ x = a
              /\ IsFwd(g, x) <=> IsFwd(h, x)
              /\ Target(h, x) => Target(g, x)
  <2>1. \A x : Cell(g, x) \/ Cell(h, x) => x \in Addrs
    BY DEF Cell
  <2>2. \A x \in Addrs : IsObj(g, x) <=> IsObj(h, x) \/ x = a
    BY <1>11, <1>12 DEF IsObj
  <2>3. \A x \in Addrs : IsFwd(g, x) <=> IsFwd(h, x)
    BY <1>11, <1>12 DEF IsFwd
  <2>4. \A x \in Addrs : Target(h, x) => Target(g, x)
    BY <1>11, <1>12 DEF Target
  <2> QED BY <1>6, <2>1, <2>2, <2>3, <2>4 DEF IsObj, IsFwd, Target
<1>14. FreeOK(g)
  <2> SUFFICES ASSUME NEW q \in Pages, g.page[q].type = "free" PROVE g.page[q] = FreePage
    BY DEF FreeOK
  <2>1. q # p
    BY <1>4, <1>5, <1>9
  <2> QED BY <1>10, <2>1 DEF Rest, FreeOK
<1>15. Quiet(g) /\ NoScratch(g)
  BY <1>9, <1>10 DEF Rest, Quiet, NoScratch
<1>16. NoForwards(g)
  BY <1>13 DEF Rest, NoForwards
<1>17. NurseryOK(g)
  <2> SUFFICES ASSUME NEW x \in Addrs, Cell(g, x), Gen(h, x) = 0 PROVE Mark(h, x) # "clear"
    BY <1>11 DEF NurseryOK
  <2>1. CASE x = a
    BY <1>2, <1>6, <2>1 DEF Mark
  <2> QED BY <1>11, <2>1 DEF Rest, NurseryOK
<1>18. RefsOK(g)
  <2>1. ASSUME NEW x \in Addrs, IsObj(g, x) PROVE Target(g, g.word[x].ref)
    <3>1. CASE x = a
      BY <1>12, <1>13, <3>1 DEF Target, IsObj
    <3>2. CASE x # a
      <4>1. Target(h, h.word[x].ref)
        BY <1>13, <2>1, <3>2 DEF Rest, RefsOK
      <4> QED BY <1>12, <1>13, <3>2, <4>1
    <3> QED BY <3>1, <3>2
  <2>2. ASSUME NEW r \in Roots PROVE Target(g, g.root[r])
    BY <1>9, <1>13 DEF Rest, RefsOK
  <2> QED BY <2>1, <2>2 DEF RefsOK
<1>19. \A x \in Addrs : Gen(h, x) \in 0..Scratch /\ Scratch \in Int
  BY <1>1, PageType, PageSlot, GencgcAssumption DEF Gen, Generations, Scratch
<1>20. CoverOK(g)
  <2> SUFFICES ASSUME NEW x \in Addrs, IsObj(g, x), NEW r, r = g.word[x].ref, r # Nil,
                      Gen(g, r) < Gen(g, x)
               PROVE  Mark(h, x) # "clear"
    BY <1>11 DEF CoverOK
  <2>1. r \in Addrs
    BY <1>18 DEF RefsOK, Target, Cell
  <2>2. Gen(h, r) < Gen(h, x)
    BY <1>11, <2>1
  <2>3. x # a
    BY <1>2, <1>6, <1>19, <2>1, <2>2 DEF Gen
  <2>4. IsObj(h, x) /\ r = h.word[x].ref
    BY <1>12, <1>13, <2>3
  <2> QED BY <2>2, <2>4 DEF Rest, CoverOK
<1>21. BytesOK(g)
  <2> SUFFICES ASSUME NEW k \in Generations PROVE g.bytes[k] = Cardinality(CellsOf(g, k))
    BY DEF BytesOK
  <2>0. AllClosed(h) /\ AllClosed(g)
    BY <1>9 DEF Rest, Quiet, AllClosed
  <2>1. \A x : x \in CellsOf(g, k) <=> x \in Addrs /\ Gen(g, x) = k /\ Cell(g, x)
    BY <2>0, ClosedCells
  <2>2. \A x : x \in CellsOf(h, k) <=> x \in Addrs /\ Gen(h, x) = k /\ Cell(h, x)
    BY <2>0, ClosedCells
  <2>3. CellsOf(h, k) \in SUBSET Addrs /\ CellsOf(g, k) \in SUBSET Addrs
    BY <2>1, <2>2
  <2>4. h.bytes[k] = Cardinality(CellsOf(h, k))
    BY DEF Rest, BytesOK
  <2>5. Gen(h, a) = 0
    BY <1>2, <1>6 DEF Gen
  <2>6. CASE k = 0
    <3>1. CellsOf(g, k) = CellsOf(h, k) \cup {a}
      BY <1>6, <1>11, <2>1, <2>2, <2>5, <2>6
    <3>2. CellsOf(h, k) \cap {a} = {} /\ {a} \in SUBSET Addrs
      BY <1>6, <1>12, <2>2
    <3>3. Cardinality({a}) = 1
      BY FS_Singleton
    <3>4. Cardinality(CellsOf(g, k)) = Cardinality(CellsOf(h, k)) + 1
      BY <2>3, <3>1, <3>2, <3>3, Disjoint
    <3> QED BY <1>8, <1>9, <2>4, <2>6, <3>4 DEF b
  <2>7. CASE k # 0
    <3>1. \A x : x \in CellsOf(g, k) <=> x \in CellsOf(h, k)
      BY <1>11, <1>12, <2>1, <2>2, <2>5, <2>7
    <3>2. CellsOf(g, k) = CellsOf(h, k)
      BY <2>3, <3>1
    <3> QED BY <1>8, <1>9, <2>4, <2>7, <3>2
  <2> QED BY <2>6, <2>7
<1>22. Rest(g)
  BY <1>9, <1>14, <1>15, <1>16, <1>17, <1>18, <1>20, <1>21 DEF Rest
<1> QED BY <1>3, <1>10, <1>13, <1>22 DEF g

\* What the program sees when it runs.
LEMMA Running ==
  ASSUME StateOK, pc = "run"
  PROVE  /\ Rest(heap) /\ RegsOK(heap) /\ heap \in Heaps
         /\ reg \in [Registers -> Addrs \cup {Nil}]
         /\ storing = <<>> \/ storing \in Registers \X Registers
         /\ \A p \in Pages : heap.page[p].mark # "sticky"
         /\ PendingOK(heap, "marked") /\ gc = NotCollecting
  BY DEF StateOK

\* A step of the program keeps what was proved when the new heap does.
LEMMA RunningStep ==
  ASSUME StateOK, pc = "run", pc' = pc, gc' = gc, Rest(heap'),
         \A p \in Pages : heap'.page[p].mark # "sticky",
         reg' \in [Registers -> Addrs \cup {Nil}],
         \A x \in Registers : reg'[x] = Nil \/ IsObj(heap', reg'[x]),
         \/ storing' = <<>>
         \/ /\ storing' \in Registers \X Registers
            /\ reg'[storing'[1]] # Nil /\ Mark(heap', reg'[storing'[1]]) = "marked"
  PROVE  StateOK'
<1>1. RegsOK(heap)'
  BY DEF RegsOK
<1>2. PendingOK(heap, "marked")'
  BY DEF PendingOK
<1>3. pc' = "run" /\ gc' = NotCollecting
  BY Running
<1>4. heap' \in Heaps /\ ~heap'.lost
  BY DEF Rest, Quiet
<1> QED BY <1>1, <1>2, <1>3, <1>4 DEF StateOK

\* A reference that the program reads is one to an object.
LEMMA LoadOK ==
  ASSUME StateOK, NEW x, NEW y \in Registers, Load(x, y) PROVE StateOK'
<1>1. /\ pc = "run" /\ storing = <<>> /\ reg[y] # Nil /\ pc' = pc /\ gc' = gc
      /\ reg' = [reg EXCEPT ![x] = At(heap, reg[y]).ref]
      /\ heap' = heap /\ storing' = <<>>
  BY DEF Load, Idle
<1>2. /\ Rest(heap) /\ RegsOK(heap) /\ reg \in [Registers -> Addrs \cup {Nil}]
      /\ \A p \in Pages : heap.page[p].mark # "sticky"
  BY <1>1, Running
<1> DEFINE r == At(heap, reg[y]).ref
<1>3. r = Nil \/ (IsObj(heap, r) /\ r \in Addrs)
  <2>1. IsObj(heap, reg[y]) /\ reg[y] \in Addrs
    BY <1>1, <1>2 DEF RegsOK, IsObj, Cell
  <2>2. Target(heap, r)
    BY <1>2, <2>1 DEF Rest, RefsOK, At
  <2> QED BY <1>2, <2>2, RestTarget
<1> HIDE DEF r
<1>4. reg' \in [Registers -> Addrs \cup {Nil}] /\ \A z \in Registers : reg'[z] = r \/ reg'[z] = reg[z]
  BY <1>1, <1>2, <1>3 DEF r
<1>5. \A z \in Registers : reg'[z] = Nil \/ IsObj(heap', reg'[z])
  BY <1>1, <1>2, <1>3, <1>4 DEF RegsOK
<1> QED BY <1>1, <1>2, <1>4, <1>5, RunningStep

\* A root that the program reads leads to an object.
LEMMA LoadRootOK ==
  ASSUME StateOK, NEW x, NEW r \in Roots, LoadRoot(x, r) PROVE StateOK'
<1>1. /\ pc = "run" /\ storing = <<>> /\ pc' = pc /\ gc' = gc
      /\ reg' = [reg EXCEPT ![x] = heap.root[r]]
      /\ heap' = heap /\ storing' = <<>>
  BY DEF LoadRoot, Idle
<1>2. /\ Rest(heap) /\ RegsOK(heap) /\ reg \in [Registers -> Addrs \cup {Nil}]
      /\ \A p \in Pages : heap.page[p].mark # "sticky"
  BY <1>1, Running
<1> DEFINE t == heap.root[r]
<1>3. t = Nil \/ (IsObj(heap, t) /\ t \in Addrs)
  BY <1>2, RestTarget DEF Rest, RefsOK
<1> HIDE DEF t
<1>4. reg' \in [Registers -> Addrs \cup {Nil}] /\ \A z \in Registers : reg'[z] = t \/ reg'[z] = reg[z]
  BY <1>1, <1>2, <1>3 DEF t
<1>5. \A z \in Registers : reg'[z] = Nil \/ IsObj(heap', reg'[z])
  BY <1>1, <1>2, <1>3, <1>4 DEF RegsOK
<1> QED BY <1>1, <1>2, <1>4, <1>5, RunningStep

\* A root that the program writes leads to an object.
LEMMA StoreRootOK ==
  ASSUME StateOK, NEW r \in Roots, NEW x \in Registers, StoreRoot(r, x) PROVE StateOK'
<1>1. /\ pc = "run" /\ storing = <<>> /\ pc' = pc /\ gc' = gc
      /\ heap' = [heap EXCEPT !.root[r] = reg[x]]
      /\ reg' = reg /\ storing' = <<>>
  BY DEF StoreRoot, Idle
<1>2. /\ Rest(heap) /\ RegsOK(heap) /\ reg \in [Registers -> Addrs \cup {Nil}]
      /\ \A p \in Pages : heap.page[p].mark # "sticky"
  BY <1>1, Running
<1> DEFINE v == reg[x]
<1>3. v = Nil \/ IsObj(heap, v)
  BY <1>2 DEF RegsOK
<1>4. heap' = [heap EXCEPT !.root[r] = v]
  BY <1>1
<1> HIDE DEF v
<1>5. /\ Rest([heap EXCEPT !.root[r] = v]) /\ [heap EXCEPT !.root[r] = v].page = heap.page
      /\ \A y : IsObj([heap EXCEPT !.root[r] = v], y) <=> IsObj(heap, y)
  BY <1>2, <1>3, RootOK
<1>6. Rest(heap') /\ heap'.page = heap.page /\ \A y : IsObj(heap', y) <=> IsObj(heap, y)
  BY <1>4, <1>5
<1>7. \A z \in Registers : reg'[z] = Nil \/ IsObj(heap', reg'[z])
  BY <1>1, <1>2, <1>6 DEF RegsOK
<1> QED BY <1>1, <1>2, <1>6, <1>7, RunningStep

\* A register is dropped.
LEMMA ForgetOK ==
  ASSUME StateOK, NEW x, Forget(x) PROVE StateOK'
<1>1. /\ pc = "run" /\ storing = <<>> /\ pc' = pc /\ gc' = gc
      /\ reg' = [reg EXCEPT ![x] = Nil]
      /\ heap' = heap /\ storing' = <<>>
  BY DEF Forget, Idle
<1>2. /\ Rest(heap) /\ RegsOK(heap) /\ reg \in [Registers -> Addrs \cup {Nil}]
      /\ \A p \in Pages : heap.page[p].mark # "sticky"
  BY <1>1, Running
<1>3. reg' \in [Registers -> Addrs \cup {Nil}] /\ \A z \in Registers : reg'[z] = Nil \/ reg'[z] = reg[z]
  BY <1>1, <1>2
<1>4. \A z \in Registers : reg'[z] = Nil \/ IsObj(heap', reg'[z])
  BY <1>1, <1>2, <1>3 DEF RegsOK
<1> QED BY <1>1, <1>2, <1>3, <1>4, RunningStep

\* The card is marked before the word is written.
LEMMA MarkCardOK ==
  ASSUME StateOK, NEW x \in Registers, NEW y \in Registers, MarkCard(x, y) PROVE StateOK'
<1> DEFINE q == Page(reg[x])
<1>1. /\ pc = "run" /\ storing = <<>> /\ pc' = pc /\ gc' = gc /\ reg[x] # Nil
      /\ heap' = [heap EXCEPT !.page[q].mark = "marked"]
      /\ reg' = reg /\ storing' = <<x, y>>
  BY DEF MarkCard, Idle
<1>2. /\ Rest(heap) /\ RegsOK(heap) /\ reg \in [Registers -> Addrs \cup {Nil}]
      /\ \A p \in Pages : heap.page[p].mark # "sticky"
  BY <1>1, Running
<1>3. q \in Pages
  BY <1>1, <1>2, PageSlot
<1>4. /\ Rest(heap')
      /\ \A z : IsObj(heap', z) <=> IsObj(heap, z)
      /\ \A p \in Pages : heap'.page[p].mark = IF p = q THEN "marked" ELSE heap.page[p].mark
  <2> HIDE DEF q
  <2>1. LET g == [heap EXCEPT !.page[q].mark = "marked"]
        IN  /\ Rest(g)
            /\ \A y1 : IsObj(g, y1) <=> IsObj(heap, y1)
            /\ \A p \in Pages : g.page[p].mark = IF p = q THEN "marked" ELSE heap.page[p].mark
    BY <1>2, <1>3, CardOK
  <2> QED BY <1>1, <2>1
<1>5. \A z \in Registers : reg'[z] = Nil \/ IsObj(heap', reg'[z])
  BY <1>1, <1>2, <1>4 DEF RegsOK
<1>6. storing' \in Registers \X Registers /\ storing'[1] = x /\ Mark(heap', reg[x]) = "marked"
  BY <1>1, <1>3, <1>4 DEF Mark
<1>7. \A p \in Pages : heap'.page[p].mark # "sticky"
  BY <1>2, <1>4
<1> QED BY <1>1, <1>2, <1>4, <1>5, <1>6, <1>7, RunningStep

\* The word is written, after a collection it may be, on a card that is marked.
LEMMA WriteStepOK ==
  ASSUME StateOK, Write PROVE StateOK'
<1> DEFINE x == reg[storing[1]]
           r == reg[storing[2]]
<1>1. /\ pc = "run" /\ storing # <<>> /\ pc' = pc /\ gc' = gc
      /\ heap' = SetRef(heap, x, r)
      /\ reg' = reg /\ storing' = <<>>
  BY DEF Write
<1>2. /\ Rest(heap) /\ RegsOK(heap) /\ reg \in [Registers -> Addrs \cup {Nil}]
      /\ \A p \in Pages : heap.page[p].mark # "sticky"
      /\ storing \in Registers \X Registers /\ PendingOK(heap, "marked")
  BY <1>1, Running
<1>3. storing[1] \in Registers /\ storing[2] \in Registers
  BY <1>2
<1>4. /\ x # Nil /\ x \in Addrs /\ IsObj(heap, x)
      /\ r = Nil \/ IsObj(heap, r)
      /\ r # Nil /\ Gen(heap, r) < Gen(heap, x) => Mark(heap, x) = "marked"
  BY <1>1, <1>2, <1>3 DEF PendingOK, RegsOK
<1> HIDE DEF x, r
<1>5. Rest(heap') /\ heap'.page = heap.page /\ \A y : IsObj(heap', y) <=> IsObj(heap, y)
  BY <1>1, <1>2, <1>4, WriteOK
<1>6. \A z \in Registers : reg'[z] = Nil \/ IsObj(heap', reg'[z])
  BY <1>1, <1>2, <1>5 DEF RegsOK
<1> QED BY <1>1, <1>2, <1>5, <1>6, RunningStep

\* The program allocates an object and leads to what a register led to.
LEMMA NewStepOK ==
  ASSUME StateOK, NEW x \in Registers, NEW y \in Registers, NEW i \in FreshIds, NEW kind \in Kinds,
         New(x, y, i, kind)
  PROVE  StateOK'
<1> DEFINE type == IF kind = "weak" THEN "mixed" ELSE kind
           fits == IF type = "large" THEN LargePages(heap) ELSE Fits(heap, type, 0)
           p == CHOOSE q \in fits : \A r \in fits : q <= r
           a == Addr(p, heap.page[p].fill + 1)
           w == Object(i, kind = "weak", reg[y])
<1>1. /\ pc = "run" /\ storing = <<>> /\ pc' = pc /\ gc' = gc /\ fits # {}
      /\ heap' = Placed(heap, p, type, a, w)
      /\ reg' = [reg EXCEPT ![x] = a] /\ storing' = <<>>
  BY DEF New, Idle, Placed
<1>2. /\ Rest(heap) /\ RegsOK(heap) /\ reg \in [Registers -> Addrs \cup {Nil}]
      /\ \A q \in Pages : heap.page[q].mark # "sticky"
  BY <1>1, Running
<1>3. type \in {"cons", "mixed", "large"}
  BY GencgcAssumption
<1>4. p \in fits
  <2>1. fits \subseteq Nat
    BY DEF LargePages, Fits, Pages
  <2> HIDE DEF fits
  <2>2. \E q \in fits : \A r \in fits : q <= r
    BY <1>1, <2>1, Least
  <2> QED BY <2>2
<1> HIDE DEF p
<1>5. /\ p \in Pages /\ heap.page[p].fill < Cap
      /\ \/ heap.page[p].type = "free"
         \/ heap.page[p].type = type /\ heap.page[p].gen = 0 /\ heap.page[p].mark = "marked"
  <2>1. p \in Pages /\ (\/ heap.page[p].type = "free"
                        \/ /\ heap.page[p].fill < Cap /\ heap.page[p].type = type
                           /\ heap.page[p].gen = 0 /\ heap.page[p].mark = "marked")
    <3> HIDE DEF type
    <3> QED BY <1>4 DEF LargePages, Fits, Extensible
  <2>2. heap.page[p].type = "free" => heap.page[p].fill < Cap
    BY <1>2, <2>1, GencgcAssumption DEF Rest, FreeOK, FreePage
  <2> HIDE DEF type
  <2> QED BY <2>1, <2>2
<1> HIDE DEF type, fits
<1>6. reg[y] = Nil \/ (IsObj(heap, reg[y]) /\ reg[y] \in Addrs)
  BY <1>2 DEF RegsOK, IsObj, Cell
<1>7. w \in Cells /\ w.tag = "object" /\ (w.ref = Nil \/ IsObj(heap, w.ref))
  <2>1. i \in Ids /\ (kind = "weak") \in BOOLEAN
    BY DEF FreshIds
  <2> QED BY <1>6, <2>1 DEF Object, Cells
<1> HIDE DEF w
<1>8. a = Addr(p, heap.page[p].fill + 1)
  OBVIOUS
<1> HIDE DEF a
<1>9. /\ Rest(heap') /\ IsObj(heap', a)
      /\ \A z : IsObj(heap, z) => IsObj(heap', z)
      /\ \A q \in Pages : heap'.page[q].mark = heap.page[q].mark
  <2>1. LET g == Placed(heap, p, type, a, w)
        IN  /\ Rest(g) /\ IsObj(g, a)
            /\ \A z : IsObj(heap, z) => IsObj(g, z)
            /\ \A q \in Pages : g.page[q].mark = heap.page[q].mark
    BY <1>2, <1>3, <1>5, <1>7, <1>8, NewOK
  <2> QED BY <1>1, <2>1
<1>10. a \in Addrs
  BY <1>9 DEF IsObj, Cell
<1>11. reg' \in [Registers -> Addrs \cup {Nil}] /\ \A z \in Registers : reg'[z] = a \/ reg'[z] = reg[z]
  BY <1>1, <1>2, <1>10
<1>12. \A z \in Registers : reg'[z] = Nil \/ IsObj(heap', reg'[z])
  BY <1>2, <1>9, <1>11 DEF RegsOK
<1> QED BY <1>1, <1>2, <1>9, <1>11, <1>12, RunningStep

------------------------------------------------------------------------------
(* The theorems.                                                            *)

\* The program starts with an empty heap.
LEMMA InitOK == Init => StateOK
<1> SUFFICES ASSUME Init PROVE StateOK
  OBVIOUS
<1> DEFINE N == <<>>
           Z == 0
           M == -1
           E == {}
           P == [p \in Pages |-> FreePage]
           W == [a \in Addrs |-> Filler]
           B == [g \in Generations |-> Z]
           R == [t \in {"cons", "mixed"} |-> Closed]
           T == [r \in Roots |-> Nil]
           h == [page |-> P, word |-> W, bytes |-> B, from |-> M, new |-> Z, region |-> R,
                 areas |-> N, below |-> Z, pinned |-> E, chain |-> E, root |-> T,
                 lost |-> FALSE, full |-> FALSE]
<1>1. /\ heap = h /\ reg = [x \in Registers |-> Nil] /\ storing = <<>> /\ pc = "run"
      /\ gc = NotCollecting
  BY DEF Init
<1>2. /\ N \in Seq([start : Int, size : Nat]) /\ Z \in Generations /\ Z \in Int /\ M \in Int
      /\ E \in SUBSET Addrs /\ FreePage \in [type : PageTypes, gen : Generations, mark : Marks, fill : 0..Cap]
      /\ Filler \in Cells /\ Closed \in [page : {0} \cup Pages, start : 0..Cap]
  <2>1. N \in Seq([start : Int, size : Nat]) /\ M \in Int /\ E \in SUBSET Addrs /\ Filler \in Cells
    BY DEF Cells
  <2>2. Z \in Generations /\ Z \in Int /\ 0 \in 0..Cap
    BY GencgcAssumption DEF Generations, Scratch
  <2>3. FreePage \in [type : PageTypes, gen : Generations, mark : Marks, fill : 0..Cap]
    BY <2>2 DEF FreePage, PageTypes, Marks
  <2>4. Closed \in [page : {0} \cup Pages, start : 0..Cap]
    BY <2>2 DEF Closed
  <2> QED BY <2>1, <2>2, <2>3, <2>4
<1>3. /\ \A p \in Pages : P[p] = FreePage
      /\ \A g \in Generations : B[g] = 0
      /\ \A r \in Roots : T[r] = Nil
      /\ R = [t \in Regions |-> Closed]
      /\ P \in [Pages -> [type : PageTypes, gen : Generations, mark : Marks, fill : 0..Cap]]
      /\ W \in [Addrs -> Cells] /\ B \in [Generations -> Int]
      /\ R \in [Regions -> [page : {0} \cup Pages, start : 0..Cap]]
      /\ T \in [Roots -> Addrs \cup {Nil}]
      /\ N = <<>> /\ E = {} /\ Z = 0
  BY <1>2 DEF Regions
<1> HIDE DEF N, Z, M, E, P, W, B, R, T
<1>4. /\ heap \in Heaps
      /\ heap.page = P /\ heap.bytes = B /\ heap.region = R /\ heap.areas = N /\ heap.below = Z
      /\ heap.pinned = E /\ heap.chain = E /\ heap.root = T /\ ~heap.lost /\ ~heap.full
  BY <1>1, <1>2, <1>3 DEF Heaps
<1> HIDE DEF h
<1>5. \A a : ~Cell(heap, a)
  BY <1>3, <1>4, PageSlot DEF Cell, FreePage
<1>6. \A a : ~IsObj(heap, a) /\ ~IsFwd(heap, a)
  BY <1>5 DEF IsObj, IsFwd
<1>7. FreeOK(heap)
  BY <1>3, <1>4 DEF FreeOK
<1>8. RefsOK(heap)
  BY <1>3, <1>4, <1>6 DEF RefsOK, Target
<1>9. Quiet(heap)
  BY <1>3, <1>4 DEF Quiet
<1>10. NoForwards(heap) /\ CoverOK(heap) /\ NurseryOK(heap)
  BY <1>5, <1>6 DEF NoForwards, CoverOK, NurseryOK
<1>11. NoScratch(heap)
  BY <1>3, <1>4, GencgcAssumption DEF NoScratch, FreePage, Scratch
<1>12. BytesOK(heap)
  <2> SUFFICES ASSUME NEW g \in Generations PROVE heap.bytes[g] = Cardinality(CellsOf(heap, g))
    BY DEF BytesOK
  <2>1. AllClosed(heap)
    BY <1>9 DEF Quiet, AllClosed
  <2>2. CellsOf(heap, g) = {}
    BY <1>5, <2>1, ClosedCells
  <2> QED BY <1>3, <1>4, <2>2, FS_EmptySet
<1>13. Rest(heap)
  BY <1>4, <1>7, <1>8, <1>9, <1>10, <1>11, <1>12 DEF Rest
<1>14. RegsOK(heap) /\ reg \in [Registers -> Addrs \cup {Nil}]
  BY <1>1 DEF RegsOK
<1>15. \A p \in Pages : heap.page[p].mark # "sticky"
  BY <1>3, <1>4 DEF FreePage
<1>16. PendingOK(heap, "marked")
  BY <1>1 DEF PendingOK
<1> QED BY <1>1, <1>4, <1>13, <1>14, <1>15, <1>16 DEF StateOK

\* Every step of the program and of its collections.
LEMMA NextOK == StateOK /\ [Next]_vars => StateOK'
<1> SUFFICES ASSUME StateOK, [Next]_vars PROVE StateOK'
  OBVIOUS
<1>1. CASE UNCHANGED vars
  BY <1>1 DEF vars, StateOK, RegsOK, PendingOK
<1>2. CASE Program
  <2>1. ASSUME NEW x \in Registers, NEW y \in Registers, Load(x, y) PROVE StateOK'
    BY <2>1, LoadOK
  <2>2. ASSUME NEW x \in Registers, NEW y \in Registers, MarkCard(x, y) PROVE StateOK'
    BY <2>2, MarkCardOK
  <2>3. ASSUME NEW i \in FreshIds, NEW x \in Registers, NEW y \in Registers, NEW k \in Kinds, New(x, y, i, k)
        PROVE  StateOK'
    BY <2>3, NewStepOK
  <2>4. ASSUME NEW x \in Registers, NEW r \in Roots, LoadRoot(x, r) PROVE StateOK'
    BY <2>4, LoadRootOK
  <2>5. ASSUME NEW x \in Registers, NEW r \in Roots, StoreRoot(r, x) PROVE StateOK'
    BY <2>5, StoreRootOK
  <2>6. ASSUME NEW x \in Registers, Forget(x) PROVE StateOK'
    BY <2>6, ForgetOK
  <2>7. CASE Write
    BY <2>7, WriteStepOK
  <2> QED BY <1>2, <2>1, <2>2, <2>3, <2>4, <2>5, <2>6, <2>7 DEF Program
<1>3. CASE NextGeneration
  <2>1. pc = "collect" /\ Collect(gc.last, gc.gen, gc.more) /\ UNCHANGED <<reg, storing>>
    BY <1>3 DEF NextGeneration
  <2>2. /\ gc.gen \in 1..Oldest /\ Empty(heap, gc.gen)
        /\ gc.last \in 0..(Oldest + 1) /\ gc.more \in BOOLEAN
        /\ gc.more => gc.gen > gc.last
        /\ PendingOK(heap, "sticky")
    BY <2>1 DEF StateOK
  <2>3. gc.gen \in 0..Oldest
    BY <2>2, GencgcAssumption
  <2> QED BY <2>1, <2>2, <2>3, CollectOK
<1>4. ASSUME NEW last \in Requests, CollectGarbage(last) PROVE StateOK'
  <2>1. pc = "run" /\ Collect(last, 0, FALSE) /\ UNCHANGED <<reg, storing>>
    BY <1>4 DEF CollectGarbage
  <2>2. last \in 0..(Oldest + 1) /\ 0 \in 0..Oldest /\ FALSE \in BOOLEAN
    BY GencgcAssumption
  <2>3. Empty(heap, 0)
    <3>1. \A a \in Addrs : Gen(heap, a) \in Generations
      BY <2>1, Running, PageType, PageSlot DEF Gen
    <3> QED BY <3>1, GencgcAssumption DEF Empty, Generations, Scratch
  <2>4. PendingOK(heap, "marked")
    BY <2>1, Running
  <2> QED BY <2>1, <2>2, <2>3, <2>4, CollectOK
<1> QED BY <1>1, <1>2, <1>3, <1>4 DEF Next

\* Where no collection is under way, the words of a page are its cells.
LEMMA WordsCells ==
  ASSUME heap \in Heaps, NEW S \in SUBSET Pages
  PROVE  \A a : a \in UNION {WordsOf(p) : p \in S} <=> a \in Addrs /\ Page(a) \in S /\ Cell(heap, a)
<1>1. ASSUME NEW a, NEW p \in S, a \in WordsOf(p)
      PROVE  a \in Addrs /\ Page(a) \in S /\ Cell(heap, a)
  <2>1. PICK i \in 1..heap.page[p].fill : a = Addr(p, i)
    BY <1>1 DEF WordsOf
  <2>2. p \in Pages /\ heap.page[p].fill \in Nat /\ heap.page[p].fill <= Cap
    BY PageType
  <2>3. i \in 1..Cap
    BY <2>2, GencgcAssumption
  <2> QED BY <2>1, <2>2, <2>3, AddrOf DEF Cell
<1>2. ASSUME NEW a \in Addrs, Page(a) \in S, Cell(heap, a)
      PROVE  a \in WordsOf(Page(a))
  <2>1. Slot(a) \in 1..heap.page[Page(a)].fill /\ a = Addr(Page(a), Slot(a))
    <3>1. Slot(a) \in 1..Cap /\ a = Addr(Page(a), Slot(a)) /\ Page(a) \in Pages
      BY PageSlot
    <3>2. heap.page[Page(a)].fill \in Nat
      BY <3>1, PageType
    <3> QED BY <1>2, <3>1, <3>2, GencgcAssumption DEF Cell
  <2> QED BY <2>1 DEF WordsOf
<1> QED BY <1>1, <1>2

\* The objects that the program can find.
LEMMA ObjectsAre ==
  ASSUME heap \in Heaps
  PROVE  \A x : x \in Objects <=> x \in Addrs /\ IsObj(heap, x)
<1>1. Pages \in SUBSET Pages
  OBVIOUS
<1>2. \A a : a \in UNION {WordsOf(p) : p \in Pages} <=> a \in Addrs /\ Page(a) \in Pages /\ Cell(heap, a)
  BY <1>1, WordsCells
<1> QED BY <1>2, PageSlot DEF Objects, IsObj, At

\* What holds in every state implies what the runs check.
LEMMA StateHolds ==
  StateOK => TypeOK /\ NeverLoses /\ HeapVerifies /\ CardsCover /\ CountsRight
<1> SUFFICES ASSUME StateOK PROVE TypeOK /\ NeverLoses /\ HeapVerifies /\ CardsCover /\ CountsRight
  OBVIOUS
<1>1. heap \in Heaps /\ ~heap.lost /\ pc \in {"run", "collect", "exhausted"}
  BY DEF StateOK
<1>2. TypeOK
  <2>1. \A p \in Pages : /\ heap.page[p].type \in PageTypes
                         /\ heap.page[p].gen \in Generations
                         /\ heap.page[p].mark \in Marks
                         /\ heap.page[p].fill \in 0..Cap
    BY <1>1, PageType, GencgcAssumption
  <2>2. heap.word \in [Addrs -> Cells] /\ heap.pinned \cup heap.chain \subseteq Addrs
    BY <1>1 DEF Heaps
  <2>3. pc = "run" => \A p \in Pages : heap.page[p].gen # Scratch /\ heap.page[p].mark # "sticky"
    BY DEF StateOK, Rest, NoScratch
  <2> QED BY <1>1, <2>1, <2>2, <2>3 DEF TypeOK
<1>3. HeapVerifies
  <2> SUFFICES ASSUME pc = "run",
                      NEW a \in ({At(heap, x).ref : x \in Objects} \cup {heap.root[r] : r \in Roots}
                                 \cup {reg[x] : x \in Registers}) \ {Nil}
               PROVE  InUse(heap, a) /\ At(heap, a).tag = "object"
    BY DEF HeapVerifies
  <2>1. Rest(heap) /\ RegsOK(heap)
    BY Running
  <2>2. IsObj(heap, a) /\ a \in Addrs /\ Cell(heap, a)
    <3>1. CASE a \in {At(heap, x).ref : x \in Objects}
      <4>1. PICK x \in Objects : a = At(heap, x).ref
        BY <3>1
      <4>2. Target(heap, a)
        BY <1>1, <2>1, <4>1, ObjectsAre DEF Rest, RefsOK, At
      <4>3. a # Nil
        OBVIOUS
      <4> QED BY <2>1, <4>2, <4>3, RestTarget DEF IsObj
    <3>2. CASE a \in {heap.root[r] : r \in Roots}
      <4>1. Target(heap, a)
        BY <2>1, <3>2 DEF Rest, RefsOK
      <4>3. a # Nil
        OBVIOUS
      <4> QED BY <2>1, <4>1, <4>3, RestTarget DEF IsObj
    <3>3. CASE a \in {reg[x] : x \in Registers}
      BY <2>1, <3>3 DEF RegsOK, IsObj, Cell
    <3> QED BY <3>1, <3>2, <3>3
  <2>3. Page(a) \in Pages /\ Slot(a) \in 1..Cap /\ a # Nil
    BY <2>2, PageSlot, NilFacts
  <2>4. Used(heap, Page(a)) = heap.page[Page(a)].fill
    <3>1. AllClosed(heap)
      BY <2>1 DEF Rest, Quiet, AllClosed
    <3> QED BY <2>3, <3>1, ClosedCells
  <2>5. heap.page[Page(a)].type # "free"
    <3> SUFFICES ASSUME heap.page[Page(a)].type = "free" PROVE FALSE
      OBVIOUS
    <3>1. heap.page[Page(a)].fill = 0
      BY <2>1, <2>3 DEF Rest, FreeOK, FreePage
    <3> QED BY <2>2, <2>3, <3>1 DEF Cell
  <2> QED BY <2>2, <2>3, <2>4, <2>5 DEF InUse, Cell, IsObj, At
<1>4. CardsCover
  <2> SUFFICES ASSUME pc = "run"
               PROVE  /\ \A x \in Objects : LET r == At(heap, x).ref IN
                           r # Nil /\ heap.page[Page(r)].gen < heap.page[Page(x)].gen
                           => heap.page[Page(x)].mark = "marked"
                      /\ storing # <<>> =>
                           LET x == reg[storing[1]]
                               r == reg[storing[2]] IN
                           r # Nil /\ heap.page[Page(r)].gen < heap.page[Page(x)].gen
                           => heap.page[Page(x)].mark = "marked"
    BY DEF CardsCover
  <2>1. Rest(heap) /\ PendingOK(heap, "marked") /\ \A p \in Pages : heap.page[p].mark # "sticky"
    BY Running
  <2>2. ASSUME NEW x \in Objects, NEW r, r = At(heap, x).ref, r # Nil,
               heap.page[Page(r)].gen < heap.page[Page(x)].gen
        PROVE  heap.page[Page(x)].mark = "marked"
    <3>1. x \in Addrs /\ IsObj(heap, x) /\ r = heap.word[x].ref
      BY <1>1, <2>2, ObjectsAre DEF At
    <3>2. Mark(heap, x) # "clear"
      BY <2>1, <2>2, <3>1 DEF Rest, CoverOK, Gen
    <3>3. Page(x) \in Pages /\ heap.page[Page(x)].mark \in Marks
      BY <1>1, <3>1, PageSlot, PageType
    <3> QED BY <2>1, <3>2, <3>3 DEF Mark, Marks
  <2> QED BY <2>1, <2>2 DEF PendingOK, Gen, Mark
<1>5. CountsRight
  <2> SUFFICES ASSUME pc = "run", NEW g \in Generations
               PROVE  heap.bytes[g] = Cardinality(UNION {WordsOf(p) : p \in {q \in Pages : heap.page[q].gen = g}})
    BY DEF CountsRight
  <2> DEFINE S == {q \in Pages : heap.page[q].gen = g}
  <2>1. Rest(heap) /\ AllClosed(heap)
    BY Running DEF Rest, Quiet, AllClosed
  <2>2. \A a : a \in UNION {WordsOf(p) : p \in S} <=> a \in Addrs /\ Page(a) \in S /\ Cell(heap, a)
    <3>1. S \in SUBSET Pages
      OBVIOUS
    <3> HIDE DEF S
    <3> QED BY <1>1, <3>1, WordsCells
  <2>3. \A a : a \in CellsOf(heap, g) <=> a \in Addrs /\ Gen(heap, a) = g /\ Cell(heap, a)
    BY <2>1, ClosedCells
  <2>4. \A a \in Addrs : Page(a) \in S <=> Gen(heap, a) = g
    BY PageSlot DEF Gen
  <2>5. \A a : a \in UNION {WordsOf(p) : p \in S} <=> a \in CellsOf(heap, g)
    <3> HIDE DEF S
    <3> QED BY <2>2, <2>3, <2>4
  <2> DEFINE U == UNION {WordsOf(p) : p \in S}
  <2>6. U = CellsOf(heap, g)
    <3>1. \A a : a \in U <=> a \in CellsOf(heap, g)
      BY <2>5
    <3> HIDE DEF U
    <3> QED BY <3>1
  <2>7. heap.bytes[g] = Cardinality(CellsOf(heap, g))
    BY <2>1 DEF Rest, BytesOK
  <2>8. heap.bytes[g] = Cardinality(U)
    BY <2>6, <2>7
  <2> QED BY <2>8
<1> QED BY <1>1, <1>2, <1>3, <1>4, <1>5 DEF NeverLoses

\* The invariant from which the others follow.
THEOREM Invariant == Spec => []StateOK
<1> QED BY InitOK, NextOK, PTL DEF Spec

\* The types of the page table, of the words and of the sets of objects; between
\* collections no page is in the scratch generation and no mark is sticky.
THEOREM TypeCorrect == Spec => []TypeOK
<1> QED BY Invariant, StateHolds, PTL

\* No assertion of the collector fails.
THEOREM NothingLost == Spec => []NeverLoses
<1> QED BY Invariant, StateHolds, PTL

\* verify_pointer finds nothing.
THEOREM Verified == Spec => []HeapVerifies
<1> QED BY Invariant, StateHolds, PTL

\* The marks cover every reference to something younger.
THEOREM CardsCovered == Spec => []CardsCover
<1> QED BY Invariant, StateHolds, PTL

\* bytes_allocated is what the pages of the generation hold.
THEOREM BytesCounted == Spec => []CountsRight
<1> QED BY Invariant, StateHolds, PTL
==============================================================================
