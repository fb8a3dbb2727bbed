---------------------------- MODULE GencgcCopying ----------------------------
(* The pages of the collector's heap, and what copying or promoting one object *)
(* does to them: gc_alloc_new_region and gc_close_region, gc_copy_object,       *)
(* trans_list, copy_potential_large_object and scav1 keep what holds inside a   *)
(* collection.                                                                 *)
EXTENDS GencgcInv, WellFoundedInduction, FiniteSetTheorems, SequenceTheorems, TLAPS

------------------------------------------------------------------------------
(* Numbers, addresses and pages.                                            *)

\* A set of natural numbers has a least one.
LEMMA Least ==
  ASSUME NEW B, B \subseteq Nat, B # {}
  PROVE  \E m \in B : \A i \in B : m <= i
<1>1. PICK m \in B : \A i \in B : ~(<<i, m>> \in OpToRel(<, Nat))
  BY NatLessThanWellFounded, WFMin
<1>2. \A i \in B : ~(i < m)
  BY <1>1 DEF OpToRel
<1> QED  BY <1>2

\* Induction over an interval, with a set for the predicate.
LEMMA Upward ==
  ASSUME NEW N \in Nat, NEW T, 0 \in T, \A n \in 0..(N - 1) : n \in T => n + 1 \in T
  PROVE  \A n \in 0..N : n \in T
<1> SUFFICES ASSUME NEW k \in 0..N, k \notin T PROVE FALSE
  OBVIOUS
<1> DEFINE B == {n \in 0..N : n \notin T}
<1>1. B \subseteq Nat /\ B # {}
  OBVIOUS
<1>2. PICK m \in B : \A i \in B : m <= i
  BY <1>1, Least
<1>3. \A i \in B : ~(i < m)
  BY <1>1, <1>2
<1>4. m \in 0..N /\ m # 0 /\ m \notin T
  OBVIOUS
<1>5. m - 1 \in 0..(N - 1) /\ m - 1 \in T
  BY <1>3, <1>4
<1> QED  BY <1>4, <1>5

\* Pages further up have higher addresses.
LEMMA AddrMono ==
  ASSUME NEW c \in Nat, NEW p \in Nat, NEW q \in Nat, p <= q PROVE p * c <= q * c
<1>1. q * c = p * c + (q - p) * c
  OBVIOUS
<1>2. (q - p) * c >= 0
  OBVIOUS
<1> QED BY <1>1, <1>2

\* A number with a quotient and a remainder has them.
LEMMA Divides ==
  ASSUME NEW c \in Nat \ {0}, NEW k \in Nat, NEW j \in 0..(c - 1)
  PROVE  (k * c + j) \div c = k /\ (k * c + j) % c = j
  OBVIOUS

\* Every number has a quotient and a remainder.
LEMMA Division ==
  ASSUME NEW c \in Nat \ {0}, NEW a \in Nat
  PROVE  a \div c \in Nat /\ a % c \in 0..(c - 1) /\ a = (a \div c) * c + (a % c)
  OBVIOUS

\* find_page_index: an address is a slot of a page.
LEMMA PageSlot ==
  ASSUME NEW a \in Addrs
  PROVE  Page(a) \in Pages /\ Slot(a) \in 1..Cap /\ Addr(Page(a), Slot(a)) = a
<1> USE GencgcAssumption
<1> DEFINE k == (a - 1) \div Cap
           j == (a - 1) % Cap
<1>0. a \in Int /\ 1 <= a /\ a <= NPages * Cap /\ NPages * Cap \in Nat
  BY DEF Addrs
<1>1. k \in Nat /\ j \in 0..(Cap - 1) /\ a - 1 = k * Cap + j
  <2> DEFINE b == a - 1
  <2>1. b \in Nat
    BY <1>0
  <2>2. k = b \div Cap /\ j = b % Cap
    OBVIOUS
  <2> HIDE DEF b, k, j
  <2>3. b \div Cap \in Nat /\ b % Cap \in 0..(Cap - 1) /\ b = (b \div Cap) * Cap + (b % Cap)
    BY <2>1, Division
  <2>4. k \in Nat /\ j \in 0..(Cap - 1) /\ b = k * Cap + j
    BY <2>2, <2>3
  <2> QED BY <2>4 DEF b
<1> HIDE DEF k, j
<1>2. k < NPages
  <2> SUFFICES ASSUME NPages <= k PROVE FALSE
    BY <1>1
  <2>1. NPages * Cap <= k * Cap
    BY <1>1, AddrMono
  <2>2. k * Cap \in Nat
    BY <1>1
  <2> QED BY <2>1, <2>2, <1>0, <1>1
<1>3. Page(a) = k + 1 /\ Slot(a) = j + 1
  BY DEF Page, Slot, k, j
<1>4. Addr(k + 1, j + 1) = a
  <2>1. (k + 1 - 1) * Cap = k * Cap
    BY <1>1
  <2>2. k * Cap \in Nat
    BY <1>1
  <2> QED BY <2>1, <2>2, <1>0, <1>1 DEF Addr
<1> QED BY <1>1, <1>2, <1>3, <1>4 DEF Pages

\* page_address: a slot of a page is an address.
LEMMA AddrOf ==
  ASSUME NEW p \in Pages, NEW i \in 1..Cap
  PROVE  Addr(p, i) \in Addrs /\ Page(Addr(p, i)) = p /\ Slot(Addr(p, i)) = i
<1> USE GencgcAssumption
<1>1. p - 1 \in Nat /\ i - 1 \in 0..(Cap - 1) /\ p <= NPages /\ p \in Nat /\ i \in Nat /\ 1 <= i /\ i <= Cap
  BY DEF Pages
<1>2. (p - 1) * Cap \in Nat /\ p * Cap = (p - 1) * Cap + Cap /\ p * Cap <= NPages * Cap /\ NPages * Cap \in Nat
  <2>1. p * Cap <= NPages * Cap
    BY <1>1, AddrMono
  <2>2. (p - 1) * Cap \in Nat /\ NPages * Cap \in Nat
    BY <1>1
  <2>3. p * Cap = (p - 1) * Cap + Cap
    BY <1>1
  <2> QED BY <2>1, <2>2, <2>3
<1>3. Addr(p, i) - 1 = (p - 1) * Cap + (i - 1)
  BY <1>1, <1>2 DEF Addr
<1>4. (Addr(p, i) - 1) \div Cap = p - 1 /\ (Addr(p, i) - 1) % Cap = i - 1
  <2> DEFINE k == p - 1
             j == i - 1
  <2>1. k \in Nat /\ j \in 0..(Cap - 1)
    BY <1>1
  <2> HIDE DEF k, j
  <2>2. (k * Cap + j) \div Cap = k /\ (k * Cap + j) % Cap = j
    BY <2>1, Divides
  <2> USE DEF k, j
  <2> QED BY <1>3, <2>2
<1>5. Addr(p, i) \in Addrs
  BY <1>1, <1>2 DEF Addr, Addrs
<1> QED BY <1>1, <1>4, <1>5 DEF Page, Slot

\* The cells from s + 1 to s + n of page p.
LEMMA AddrRange ==
  ASSUME NEW p \in Pages, NEW s \in Nat, NEW n \in Nat, s + n <= Cap, NEW x \in Int
  PROVE  Addr(p, s + 1) <= x /\ x < Addr(p, s + 1) + n
         <=> x \in Addrs /\ Page(x) = p /\ s < Slot(x) /\ Slot(x) <= s + n
<1> USE GencgcAssumption
<1> DEFINE b == (p - 1) * Cap
<1>1. b \in Int /\ Addr(p, s + 1) = b + s + 1
  <2>1. b \in Int
    BY DEF Pages
  <2> QED BY <2>1 DEF Addr
<1>2. ASSUME x \in Addrs, Page(x) = p, s < Slot(x), Slot(x) <= s + n
      PROVE  Addr(p, s + 1) <= x /\ x < Addr(p, s + 1) + n
  <2>1. x = Addr(p, Slot(x)) /\ Slot(x) \in Nat
    BY <1>2, PageSlot
  <2>2. x = b + Slot(x)
    BY <2>1 DEF Addr
  <2> HIDE DEF b
  <2> QED BY <1>1, <1>2, <2>1, <2>2
<1>3. ASSUME Addr(p, s + 1) <= x, x < Addr(p, s + 1) + n
      PROVE  x \in Addrs /\ Page(x) = p /\ s < Slot(x) /\ Slot(x) <= s + n
  <2> DEFINE i == x - b
  <2>1. i \in 1..Cap /\ s < i /\ i <= s + n /\ x = b + i
    <3> HIDE DEF b
    <3> QED BY <1>1, <1>3
  <2>2. x = Addr(p, i)
    BY <2>1 DEF Addr
  <2> HIDE DEF i
  <2> QED BY <2>1, <2>2, AddrOf
<1> QED BY <1>2, <1>3

------------------------------------------------------------------------------
(* The page table, the regions and the areas.                               *)

\* What an entry of the page table is.
LEMMA PageType ==
  ASSUME NEW h \in Heaps, NEW p \in Pages
  PROVE  /\ h.page[p] \in [type : PageTypes, gen : Generations, mark : Marks, fill : 0..Cap]
         /\ h.page[p].type \in PageTypes /\ h.page[p].gen \in Generations
         /\ h.page[p].mark \in Marks /\ h.page[p].fill \in Nat /\ h.page[p].fill <= Cap
  BY GencgcAssumption DEF Heaps

\* A word is an object, a forwarding pointer or a filler.
LEMMA CellType ==
  ASSUME NEW c \in Cells
  PROVE  /\ c.tag \in {"object", "forward", "filler"}
         /\ c.tag = "object" => c.ref \in Addrs \cup {Nil} /\ c.weak \in BOOLEAN /\ c.id \in Ids
         /\ c.tag = "object" => c \in [tag : {"object"}, id : Ids, weak : BOOLEAN, ref : Addrs \cup {Nil}]
         /\ c.tag = "forward" => c.to \in Addrs
  BY DEF Cells, Filler

\* NULL is not an address and not on a page.
LEMMA NilFacts == Nil \notin Addrs /\ 0 \notin Pages /\ Nil = 0
  BY DEF Addrs, Pages, Nil

\* What a region is.
LEMMA RegionType ==
  ASSUME NEW h \in Heaps, NEW t \in Regions
  PROVE  /\ h.region[t] \in [page : {0} \cup Pages, start : 0..Cap]
         /\ h.region[t].page = 0 \/ h.region[t].page \in Pages
         /\ h.region[t].start \in Nat /\ h.region[t].start <= Cap
  BY GencgcAssumption DEF Heaps

\* A page without an open region uses what was written to it.
LEMMA UsedClosed ==
  ASSUME NEW h, NEW p, ~Open(h, p)
  PROVE  Used(h, p) = h.page[p].fill
  BY DEF Used

\* Two regions are not open on one page.
LEMMA OneRegion ==
  ASSUME NEW h \in Heaps, RegionsOK(h), NEW t \in Regions, NEW u \in Regions,
         h.region[t].page = h.region[u].page, h.region[t].page # 0
  PROVE  t = u
  BY DEF RegionsOK, Closed

\* A page with an open region uses what is below it.
LEMMA UsedOpen ==
  ASSUME NEW h \in Heaps, RegionsOK(h), NEW t \in Regions, h.region[t].page # 0
  PROVE  Used(h, h.region[t].page) = h.region[t].start
<1> DEFINE p == h.region[t].page
           S == {h.region[u] : u \in {"cons", "mixed"}}
           r == CHOOSE r \in S : r.page = p
<1>1. h.region[t] \in S /\ h.region[t].page = p
  BY DEF Regions
<1>2. r \in S /\ r.page = p
  BY <1>1
<1>3. r = h.region[t]
  <2>1. PICK u \in Regions : r = h.region[u]
    BY <1>2 DEF Regions
  <2>2. u = t
    BY <1>2, <2>1, OneRegion
  <2> QED BY <2>1, <2>2
<1>4. Open(h, p)
  BY DEF Open, Regions
<1>5. Used(h, p) = r.start
  BY <1>4 DEF Used
<1> QED BY <1>3, <1>5

\* What is used is at most what was written.
LEMMA UsedBound ==
  ASSUME NEW h \in Heaps, RegionsOK(h), NEW p \in Pages
  PROVE  Used(h, p) \in 0..h.page[p].fill
<1>1. CASE ~Open(h, p)
  BY <1>1, UsedClosed, PageType
<1>2. CASE Open(h, p)
  <2>1. PICK t \in Regions : h.region[t].page = p
    BY <1>2 DEF Open, Regions
  <2>2. Used(h, p) = h.region[t].start
    BY <2>1, UsedOpen, NilFacts
  <2>3. h.region[t].start <= h.page[p].fill
    BY <2>1, NilFacts DEF RegionsOK, Closed
  <2> QED BY <2>2, <2>3, RegionType, PageType
<1> QED BY <1>1, <1>2

\* add_new_area: what is recorded, and nothing else than what was or is added.
LEMMA AreaAdded ==
  ASSUME NEW h \in Heaps, NEW a \in Int, 1 <= a, NEW n \in Nat
  PROVE  \E A \in Seq([start : Int, size : Nat]) :
           /\ AddArea(h, a, n) = [h EXCEPT !.areas = A]
           /\ Len(h.areas) <= Len(A)
           /\ \A x \in Int : InAreas(h.areas, x) => InAreas(A, x)
           /\ \A x \in Int : InAreas(A, x) => InAreas(h.areas, x) \/ (a <= x /\ x < a + n)
           /\ \/ Page(a) >= h.below \/ Len(A) >= NumNewAreas
              \/ \A x \in Int : a <= x /\ x < a + n => InAreas(A, x)
           /\ h.below = 0 => A = h.areas
<1> DEFINE L == h.areas
           Good(A) == /\ A \in Seq([start : Int, size : Nat])
                      /\ AddArea(h, a, n) = [h EXCEPT !.areas = A]
                      /\ Len(L) <= Len(A)
                      /\ \A x \in Int : InAreas(L, x) => InAreas(A, x)
                      /\ \A x \in Int : InAreas(A, x) => InAreas(L, x) \/ (a <= x /\ x < a + n)
                      /\ \/ Page(a) >= h.below \/ Len(A) >= NumNewAreas
                         \/ \A x \in Int : a <= x /\ x < a + n => InAreas(A, x)
                      /\ h.below = 0 => A = L
           follows == {i \in DOMAIN L : i > Len(L) - 8 /\ L[i].start + L[i].size = a}
           last == CHOOSE j \in follows : \A k \in follows : k <= j
<1>1. L \in Seq([start : Int, size : Nat])
  BY DEF Heaps
<1>0. h.below = 0 => Page(a) >= h.below
  <2>1. a - 1 \in Nat /\ Cap \in Nat \ {0}
    BY GencgcAssumption
  <2>2. (a - 1) \div Cap \in Nat
    BY <2>1, Division
  <2> QED BY <2>2 DEF Page
<1>2. CASE Page(a) >= h.below \/ Len(h.areas) >= NumNewAreas
  <2>1. AddArea(h, a, n) = h /\ h = [h EXCEPT !.areas = L]
    BY <1>2 DEF AddArea, Heaps
  <2>2. Good(L)
    BY <1>1, <1>2, <2>1
  <2> QED BY <2>2
<1>3. CASE ~(Page(a) >= h.below \/ Len(h.areas) >= NumNewAreas) /\ follows = {}
  <2> DEFINE A == Append(L, [start |-> a, size |-> n])
  <2>1. AddArea(h, a, n) = [h EXCEPT !.areas = A]
    BY <1>3 DEF AddArea
  <2>2. /\ A \in Seq([start : Int, size : Nat]) /\ Len(A) = Len(L) + 1 /\ Len(L) \in Nat
        /\ DOMAIN L = 1..Len(L) /\ DOMAIN A = 1..(Len(L) + 1)
        /\ \A i \in DOMAIN L : A[i] = L[i]
        /\ A[Len(L) + 1] = [start |-> a, size |-> n]
    BY <1>1
  <2> HIDE DEF A, L
  <2> HIDE DEF Good, follows, last
  <2>3. \A x \in Int : InAreas(L, x) => InAreas(A, x)
    BY <2>2 DEF InAreas
  <2>4. \A x \in Int : InAreas(A, x) => InAreas(L, x) \/ (a <= x /\ x < a + n)
    <3> SUFFICES ASSUME NEW x \in Int, NEW i \in DOMAIN A,
                        A[i].start <= x, x < A[i].start + A[i].size, ~(a <= x /\ x < a + n)
                 PROVE  InAreas(L, x)
      BY DEF InAreas
    <3>1. A[Len(L) + 1].start = a /\ A[Len(L) + 1].size = n
      BY <2>2
    <3>2. i # Len(L) + 1
      BY <3>1
    <3>3. i \in DOMAIN L
      BY <2>2, <3>2
    <3> QED BY <2>2, <3>3 DEF InAreas
  <2>5. \A x \in Int : a <= x /\ x < a + n => InAreas(A, x)
    BY <2>2 DEF InAreas
  <2> USE DEF Good
  <2>6. Good(A)
    BY <1>0, <1>3, <2>1, <2>2, <2>3, <2>4, <2>5
  <2> QED BY <2>6 DEF L
<1>4. CASE ~(Page(a) >= h.below \/ Len(h.areas) >= NumNewAreas) /\ follows # {}
  <2> DEFINE A == [L EXCEPT ![last].size = @ + n]
  <2>1. AddArea(h, a, n) = [h EXCEPT !.areas = A]
    BY <1>4 DEF AddArea
  <2>2. last \in follows
    <3>1. \E j \in follows : \A k \in follows : k <= j
      <4> DEFINE B == {Len(L) - i : i \in follows}
      <4>0. Len(L) \in Nat /\ DOMAIN L = 1..Len(L) /\ follows \subseteq 1..Len(L) /\ follows # {}
        <5>1. Len(L) \in Nat /\ DOMAIN L = 1..Len(L)
          BY <1>1
        <5>2. follows \subseteq DOMAIN L
          OBVIOUS
        <5> HIDE DEF follows, L
        <5> QED BY <1>4, <5>1, <5>2
      <4> HIDE DEF follows, L
      <4>1. B \subseteq Nat /\ B # {}
        <5>1. PICK i \in follows : TRUE
          BY <4>0
        <5>2. Len(L) - i \in B
          OBVIOUS
        <5>3. \A k \in follows : Len(L) - k \in Nat
          BY <4>0
        <5> QED BY <5>2, <5>3
      <4>2. PICK m \in B : \A i \in B : m <= i
        BY <4>1, Least
      <4>3. PICK j \in follows : m = Len(L) - j
        BY <4>2
      <4>4. ASSUME NEW k \in follows PROVE k <= j
        <5>1. Len(L) - j <= Len(L) - k
          BY <4>2, <4>3
        <5>2. j \in Int /\ k \in Int
          BY <4>0
        <5> QED BY <5>1, <5>2, <4>0
      <4> QED BY <4>4
    <3> HIDE DEF follows
    <3> QED BY <3>1
  <2> HIDE DEF last
  <2>3. /\ A \in Seq([start : Int, size : Nat]) /\ Len(A) = Len(L)
        /\ DOMAIN A = DOMAIN L /\ last \in DOMAIN L
        /\ \A i \in DOMAIN L : A[i].start = L[i].start /\ L[i].start \in Int /\ L[i].size \in Nat
        /\ \A i \in DOMAIN L : i # last => A[i].size = L[i].size
        /\ A[last].size = L[last].size + n
        /\ L[last].start + L[last].size = a
    <3> DEFINE B == [L[last] EXCEPT !.size = @ + n]
    <3>1. last \in DOMAIN L /\ L[last].start + L[last].size = a
      BY <2>2 DEF follows, L
    <3> HIDE DEF last, follows
    <3>0. DOMAIN L = 1..Len(L) /\ \A i \in 1..Len(L) : L[i] \in [start : Int, size : Nat]
      <4> HIDE DEF L
      <4>1. DOMAIN L = 1..Len(L)
        BY <1>1
      <4> QED BY <1>1, <4>1, ElementOfSeq
    <3>2. L[last] \in [start : Int, size : Nat]
      BY <3>0, <3>1
    <3>3. B \in [start : Int, size : Nat] /\ B.start = L[last].start /\ B.size = L[last].size + n
      BY <3>2
    <3>4. A = [L EXCEPT ![last] = B]
      OBVIOUS
    <3> HIDE DEF A, B, L
    <3>4a. last \in 1..Len(L) /\ DOMAIN L = 1..Len(L)
      BY <1>1, <3>1
    <3>5. /\ A \in Seq([start : Int, size : Nat]) /\ Len(A) = Len(L)
          /\ \A i \in 1..Len(L) : A[i] = IF i = last THEN B ELSE L[i]
      BY <1>1, <3>3, <3>4, <3>4a, ExceptSeq
    <3>6. DOMAIN A = DOMAIN L /\ \A i \in DOMAIN L : A[i] = IF i = last THEN B ELSE L[i]
      BY <3>4a, <3>5
    <3>7. \A i \in DOMAIN L : L[i] \in [start : Int, size : Nat]
      BY <3>0
    <3>8. \A i \in DOMAIN L : A[i].start = L[i].start /\ L[i].start \in Int /\ L[i].size \in Nat
      BY <3>3, <3>6, <3>7
    <3>9. A[last].size = L[last].size + n /\ \A i \in DOMAIN L : i # last => A[i].size = L[i].size
      BY <3>1, <3>3, <3>6
    <3> QED BY <3>1, <3>5, <3>6, <3>8, <3>9
  <2> HIDE DEF A, L, follows
  <2>3a. ASSUME NEW x \in Int, NEW i \in DOMAIN L
         PROVE  A[i].start <= x /\ x < A[i].start + A[i].size
                <=> \/ L[i].start <= x /\ x < L[i].start + L[i].size
                    \/ i = last /\ a <= x /\ x < a + n
    <3>1. A[i].start = L[i].start /\ L[i].start \in Int /\ L[i].size \in Nat
      BY <2>3
    <3>2. CASE i = last
      <4>1. A[i].size = L[i].size + n /\ L[i].start + L[i].size = a
        BY <2>3, <3>2
      <4>2. /\ L[i].start \in Int /\ L[i].size \in Nat /\ A[i].start = L[i].start
        BY <3>1
      <4> DEFINE s == L[i].start
                 z == L[i].size
      <4>3. s <= x /\ x < s + (z + n) <=> (s <= x /\ x < s + z) \/ (a <= x /\ x < a + n)
        <5>1. s \in Int /\ z \in Nat /\ s + z = a
          BY <4>1, <4>2
        <5> HIDE DEF s, z
        <5> QED BY <5>1
      <4> QED BY <4>1, <4>2, <4>3, <3>2
    <3>3. CASE i # last
      BY <2>3, <3>1, <3>3
    <3> QED BY <3>2, <3>3
  <2>4. \A x \in Int : InAreas(L, x) => InAreas(A, x)
    BY <2>3, <2>3a DEF InAreas
  <2>5. \A x \in Int : InAreas(A, x) => InAreas(L, x) \/ (a <= x /\ x < a + n)
    BY <2>3, <2>3a DEF InAreas
  <2>6. \A x \in Int : a <= x /\ x < a + n => InAreas(A, x)
    BY <2>3, <2>3a DEF InAreas
  <2>7. Good(A)
    <3>1. Len(A) = Len(L) /\ Len(L) \in Nat
      BY <2>3, <1>1
    <3> QED BY <1>0, <1>4, <2>1, <2>3, <2>4, <2>5, <2>6, <3>1
  <2> QED BY <2>7 DEF L
<1> QED BY <1>2, <1>3, <1>4

\* A heap in which only the areas differ.
LEMMA AreasOnly ==
  ASSUME NEW h, Mid(h), NEW A \in Seq([start : Int, size : Nat]),
         \A x \in Int : InAreas(A, x) => InAreas(h.areas, x) \/ (Cell(h, x) /\ Gen(h, x) = h.new),
         Len(h.areas) <= Len(A), h.below = 0 => A = h.areas,
         \A x \in Int : InAreas(h.areas, x) => InAreas(A, x)
  PROVE  LET g == [h EXCEPT !.areas = A]
         IN  Mid(g) /\ Step(h, g) /\ \A b \in Int : Due(h, b) \subseteq Due(g, b)
<1> DEFINE g == [h EXCEPT !.areas = A]
<1>1. h \in Heaps
  BY DEF Mid
<1>2. /\ g \in Heaps
      /\ g.page = h.page /\ g.word = h.word /\ g.bytes = h.bytes /\ g.from = h.from
      /\ g.new = h.new /\ g.region = h.region /\ g.areas = A /\ g.below = h.below
      /\ g.pinned = h.pinned /\ g.chain = h.chain /\ g.root = h.root
      /\ g.lost = h.lost /\ g.full = h.full
  BY <1>1 DEF Heaps
<1> HIDE DEF g
<1>3. \A a : /\ Cell(g, a) <=> Cell(h, a)
             /\ Gen(g, a) = Gen(h, a) /\ Mark(g, a) = Mark(h, a)
             /\ IsObj(g, a) <=> IsObj(h, a)
             /\ IsFwd(g, a) <=> IsFwd(h, a)
             /\ InFromSpace(g, a) <=> InFromSpace(h, a)
             /\ Kept(g, a) <=> Kept(h, a)
             /\ Target(g, a) <=> Target(h, a)
  BY <1>2 DEF Cell, Gen, Mark, IsObj, IsFwd, InFromSpace, Kept, Target
<1>4. \A p : Used(g, p) = Used(h, p)
  BY <1>2 DEF Used, Open
<1>5. \A k : CellsOf(g, k) = CellsOf(h, k)
  BY <1>3, <1>4 DEF CellsOf
<1>6. FreeOK(g) /\ SpacesOK(g) /\ RegionsOK(g)
  BY <1>2 DEF Mid, FreeOK, SpacesOK, RegionsOK
<1>7. ForwardsOK(g)
  BY <1>2, <1>3 DEF Mid, ForwardsOK
<1>8. RefsOK(g)
  BY <1>2, <1>3 DEF Mid, RefsOK
<1>9. PinnedOK(g)
  BY <1>2, <1>3 DEF Mid, PinnedOK
<1>10. ChainOK(g)
  BY <1>2, <1>3 DEF Mid, ChainOK
<1>11. GensOK(g) /\ MarksOK(g)
  BY <1>2, <1>3 DEF Mid, GensOK, MarksOK
<1>12. CleanOK(g)
  BY <1>2, <1>3 DEF Mid, CleanOK
<1>13. BytesOK(g)
  BY <1>2, <1>5 DEF Mid, BytesOK
<1>14. AreasOK(g)
  BY <1>2, <1>3 DEF Mid, AreasOK
<1>14a. ScratchOK(g)
  BY <1>2 DEF Mid, ScratchOK
<1>15. Mid(g)
  BY <1>14a, <1>2, <1>6, <1>7, <1>8, <1>9, <1>10, <1>11, <1>12, <1>13, <1>14 DEF Mid
<1>16. \A b \in Int : Due(h, b) \subseteq Due(g, b)
  <2>1. Len(A) \in Nat /\ Len(h.areas) \in Nat /\ NumNewAreas \in Nat
    BY <1>1, GencgcAssumption DEF Heaps
  <2>2. Len(h.areas) >= NumNewAreas => Len(A) >= NumNewAreas
    BY <2>1
  <2>3. \A x \in Addrs : x \in Int
    BY DEF Addrs
  <2> QED BY <1>2, <1>3, <1>4, <2>2, <2>3 DEF Due
<1>17. Step(h, g)
  <2>1. Movable(g) = Movable(h)
    BY <1>3 DEF Movable
  <2>2. h.below \in Int
    BY <1>1 DEF Heaps
  <2> QED BY <1>2, <1>3, <1>16, <2>1, <2>2 DEF Step
<1> QED BY <1>15, <1>16, <1>17 DEF g

\* Sets of cells are finite, and so can be counted.
LEMMA AddrsFinite ==
  ASSUME NEW S \in SUBSET Addrs
  PROVE  IsFiniteSet(S) /\ Cardinality(S) \in Nat
<1>1. NPages * Cap \in Int /\ 1 \in Int
  BY GencgcAssumption
<1>2. IsFiniteSet(1..(NPages * Cap))
  BY <1>1, FS_Interval
<1>3. IsFiniteSet(S)
  BY <1>2, FS_Subset DEF Addrs
<1> QED BY <1>3, FS_CardinalityType

\* What is counted once is counted once.
LEMMA Disjoint ==
  ASSUME NEW S \in SUBSET Addrs, NEW T \in SUBSET Addrs, S \cap T = {}
  PROVE  Cardinality(S \cup T) = Cardinality(S) + Cardinality(T)
<1>1. Cardinality({}) = 0
  BY FS_EmptySet
<1>2. Cardinality(S \cup T) = Cardinality(S) + Cardinality(T) - Cardinality(S \cap T)
  BY AddrsFinite, FS_Union
<1>3. Cardinality(S) \in Nat /\ Cardinality(T) \in Nat
  BY AddrsFinite
<1>4. Cardinality(S \cap T) = 0
  BY <1>1
<1> QED BY <1>2, <1>3, <1>4

\* What is taken away is no longer counted.
LEMMA Removed ==
  ASSUME NEW S \in SUBSET Addrs, NEW T \in SUBSET S
  PROVE  Cardinality(S \ T) = Cardinality(S) - Cardinality(T)
<1>1. S \cap T = T
  OBVIOUS
<1> QED BY <1>1, AddrsFinite, FS_Difference

\* ... are n.
LEMMA RangeSize ==
  ASSUME NEW p \in Pages, NEW s \in Nat, NEW n \in Nat, s + n <= Cap
  PROVE  Cardinality({x \in Addrs : Page(x) = p /\ s < Slot(x) /\ Slot(x) <= s + n}) = n
<1> DEFINE S == {x \in Addrs : Page(x) = p /\ s < Slot(x) /\ Slot(x) <= s + n}
           a == Addr(p, s + 1)
<1>1. a \in Int
  <2>1. (p - 1) * Cap \in Int
    BY GencgcAssumption DEF Pages
  <2> QED BY <2>1 DEF Addr
<1>2. \A x \in Int : a <= x /\ x < a + n <=> x \in S
  BY AddrRange
<1>3. \A x \in S : x \in Int
  BY DEF Addrs
<1> HIDE DEF S, a
<1>4. S = a..(a + n - 1)
  <2>1. \A x \in a..(a + n - 1) : x \in S
    <3>1. \A x \in a..(a + n - 1) : x \in Int /\ a <= x /\ x < a + n
      BY <1>1
    <3> QED BY <1>2, <3>1
  <2>2. \A x \in S : x \in a..(a + n - 1)
    <3>1. \A x \in S : x \in Int /\ a <= x /\ x < a + n
      BY <1>2, <1>3
    <3> QED BY <1>1, <3>1
  <2> QED BY <2>1, <2>2
<1>5. Cardinality(a..(a + n - 1)) = IF a > a + n - 1 THEN 0 ELSE (a + n - 1) - a + 1
  BY <1>1, FS_Interval
<1>6. Cardinality(S) = n
  BY <1>1, <1>4, <1>5
<1> QED BY <1>6 DEF S

\* add_new_area keeps what holds inside a collection, and makes what it records due.
LEMMA AddAreaOK ==
  ASSUME NEW h, Mid(h), NEW a \in Nat \ {0}, NEW n \in Nat,
         \A x \in Int : a <= x /\ x < a + n => Cell(h, x) /\ Gen(h, x) = h.new /\ Page(x) = Page(a)
  PROVE  LET g == AddArea(h, a, n)
         IN  /\ Mid(g) /\ Step(h, g)
             /\ \E A : g = [h EXCEPT !.areas = A]
             /\ \A b \in Int : Due(h, b) \subseteq Due(g, b)
             /\ \A x \in Int : a <= x /\ x < a + n => x \in Due(g, h.below)
<1> DEFINE g == AddArea(h, a, n)
<1>1. h \in Heaps
  BY DEF Mid
<1>2. PICK A \in Seq([start : Int, size : Nat]) :
           /\ AddArea(h, a, n) = [h EXCEPT !.areas = A]
           /\ Len(h.areas) <= Len(A)
           /\ \A x \in Int : InAreas(h.areas, x) => InAreas(A, x)
           /\ \A x \in Int : InAreas(A, x) => InAreas(h.areas, x) \/ (a <= x /\ x < a + n)
           /\ \/ Page(a) >= h.below \/ Len(A) >= NumNewAreas
              \/ \A x \in Int : a <= x /\ x < a + n => InAreas(A, x)
           /\ h.below = 0 => A = h.areas
  <2>1. a \in Int /\ 1 <= a
    OBVIOUS
  <2> QED BY <1>1, <2>1, AreaAdded
<1>3. \A x \in Int : InAreas(A, x) => InAreas(h.areas, x) \/ (Cell(h, x) /\ Gen(h, x) = h.new)
  BY <1>2
<1>4. /\ Mid([h EXCEPT !.areas = A]) /\ Step(h, [h EXCEPT !.areas = A])
      /\ \A b \in Int : Due(h, b) \subseteq Due([h EXCEPT !.areas = A], b)
  BY <1>2, <1>3, AreasOnly
<1>5. g.areas = A /\ g.page = h.page /\ g.new = h.new
  BY <1>1, <1>2 DEF Heaps
<1> HIDE DEF g
<1>6. ASSUME NEW x \in Int, a <= x, x < a + n PROVE x \in Due(g, h.below)
  <2>1. Cell(g, x) /\ Gen(g, x) = g.new /\ x \in Addrs /\ Page(x) = Page(a)
    BY <1>5, <1>6 DEF Cell, Gen
  <2> QED BY <1>2, <1>5, <1>6, <2>1 DEF Due
<1> QED BY <1>2, <1>4, <1>6 DEF g

\* gc_close_region counts what the region holds, and makes it due.
LEMMA CloseRegionOK ==
  ASSUME NEW h, Mid(h), NEW t \in Regions
  PROVE  LET g == CloseRegion(h, t)
         IN  /\ Mid(g) /\ Step(h, g)
             /\ g.region = [h.region EXCEPT ![t] = Closed]
             /\ g.page = h.page /\ g.word = h.word /\ g.full = h.full
             /\ h.region[t].page = 0 => g = h
<1> DEFINE g == CloseRegion(h, t)
           r == h.region[t]
           p == r.page
           n == h.page[p].fill - r.start
           c == [h EXCEPT !.region[t] = Closed, !.bytes[h.new] = @ + n]
           a == Addr(p, r.start + 1)
<1>1. h \in Heaps /\ RegionsOK(h)
  BY DEF Mid
<1>2. CASE p = 0
  <2>1. g = h
    BY <1>2 DEF CloseRegion
  <2>2. r = Closed
    BY <1>1, <1>2 DEF RegionsOK
  <2>3. h.region = [h.region EXCEPT ![t] = Closed]
    BY <1>1, <2>2 DEF Heaps
  <2>4. Step(h, h)
    BY <1>1 DEF Step
  <2> QED BY <2>1, <2>3, <2>4
<1>3. CASE p # 0
  <2>1. g = AddArea(c, a, n)
    BY <1>3 DEF CloseRegion
  <2>2. /\ p \in Pages /\ r.start \in Nat /\ r.start <= h.page[p].fill /\ n \in Nat
        /\ h.page[p].fill \in Nat /\ h.page[p].fill <= Cap /\ r.start + n = h.page[p].fill
        /\ h.page[p].gen = h.new /\ h.page[p].type = t /\ h.new \in Generations
    <3>1. p \in Pages /\ r.start \in Nat
      BY <1>1, <1>3, RegionType
    <3>2. h.page[p].fill \in Nat /\ h.page[p].fill <= Cap
      BY <1>1, <3>1, PageType
    <3>3. r.start <= h.page[p].fill /\ h.page[p].gen = h.new /\ h.page[p].type = t
      BY <1>1, <1>3 DEF RegionsOK, Closed
    <3>4. h.new \in Generations
      BY <1>1 DEF Heaps
    <3> QED BY <3>1, <3>2, <3>3, <3>4
  <2>3. /\ c \in Heaps
        /\ c.page = h.page /\ c.word = h.word /\ c.from = h.from
        /\ c.new = h.new /\ c.areas = h.areas /\ c.below = h.below
        /\ c.pinned = h.pinned /\ c.chain = h.chain /\ c.root = h.root
        /\ c.lost = h.lost /\ c.full = h.full
        /\ c.region = [h.region EXCEPT ![t] = Closed]
        /\ c.bytes = [h.bytes EXCEPT ![h.new] = @ + n]
    <3>1. Closed \in [page : {0} \cup Pages, start : 0..Cap]
      BY GencgcAssumption DEF Closed
    <3> DEFINE R == [h.region EXCEPT ![t] = Closed]
               B == [h.bytes EXCEPT ![h.new] = @ + n]
    <3>2. R \in [Regions -> [page : {0} \cup Pages, start : 0..Cap]]
      BY <1>1, <3>1 DEF Heaps
    <3>3. B \in [Generations -> Int]
      <4> HIDE DEF n
      <4> QED BY <1>1, <2>2 DEF Heaps
    <3>4. c = [h EXCEPT !.region = R, !.bytes = B]
      OBVIOUS
    <3> HIDE DEF c, R, B, n
    <3>5. /\ c \in Heaps
          /\ c.page = h.page /\ c.word = h.word /\ c.from = h.from
          /\ c.new = h.new /\ c.areas = h.areas /\ c.below = h.below
          /\ c.pinned = h.pinned /\ c.chain = h.chain /\ c.root = h.root
          /\ c.lost = h.lost /\ c.full = h.full
          /\ c.region = R /\ c.bytes = B
      BY <1>1, <3>2, <3>3, <3>4 DEF Heaps
    <3> QED BY <3>5 DEF R, B
  <2> HIDE DEF c, g
  <2>4. \A x : /\ Cell(c, x) <=> Cell(h, x)
               /\ Gen(c, x) = Gen(h, x) /\ Mark(c, x) = Mark(h, x)
               /\ IsObj(c, x) <=> IsObj(h, x)
               /\ IsFwd(c, x) <=> IsFwd(h, x)
               /\ InFromSpace(c, x) <=> InFromSpace(h, x)
               /\ Kept(c, x) <=> Kept(h, x)
               /\ Target(c, x) <=> Target(h, x)
    BY <2>3 DEF Cell, Gen, Mark, IsObj, IsFwd, InFromSpace, Kept, Target
  <2>5. RegionsOK(c)
    BY <1>1, <2>3 DEF RegionsOK, Heaps
  <2>6. \A q \in Pages : q # p => Used(c, q) = Used(h, q)
    <3> SUFFICES ASSUME NEW q \in Pages, q # p PROVE Used(c, q) = Used(h, q)
      OBVIOUS
    <3>1. q # 0
      BY NilFacts
    <3>2. CASE Open(h, q)
      <4>1. PICK u \in Regions : h.region[u].page = q
        BY <3>2 DEF Open, Regions
      <4>2. u # t /\ c.region[u] = h.region[u]
        BY <1>1, <4>1, <2>3 DEF Heaps
      <4>3. Used(h, q) = h.region[u].start
        BY <1>1, <3>1, <4>1, UsedOpen
      <4>4. Used(c, q) = c.region[u].start
        <5>1. c.region[u].page = q /\ c \in Heaps
          BY <2>3, <4>1, <4>2
        <5>2. Used(c, c.region[u].page) = c.region[u].start
          BY <2>5, <3>1, <5>1, UsedOpen
        <5> QED BY <5>1, <5>2
      <4> QED BY <4>2, <4>3, <4>4
    <3>3. CASE ~Open(h, q)
      <4>1. ~Open(c, q)
        BY <1>1, <2>3, <3>1, <3>3 DEF Open, Closed, Heaps
      <4> QED BY <2>3, <3>3, <4>1, UsedClosed
    <3> QED BY <3>2, <3>3
  <2>7. Used(c, p) = h.page[p].fill /\ Used(h, p) = r.start
    <3>1. ~Open(c, p)
      <4> SUFFICES ASSUME NEW u \in Regions, c.region[u].page = p PROVE FALSE
        BY DEF Open, Regions
      <4>1. u # t
        BY <1>1, <1>3, <2>3 DEF Closed, Heaps
      <4>2. h.region[u].page = h.region[t].page
        BY <1>1, <2>3, <4>1 DEF Heaps
      <4> QED BY <1>1, <1>3, <4>1, <4>2, OneRegion
    <3>2. Used(c, p) = h.page[p].fill
      BY <2>3, <3>1, UsedClosed
    <3> QED BY <1>1, <1>3, <3>2, UsedOpen
  <2> DEFINE W == {x \in Addrs : Page(x) = p /\ r.start < Slot(x) /\ Slot(x) <= r.start + n}
  <2>8. /\ CellsOf(c, h.new) = CellsOf(h, h.new) \cup W /\ CellsOf(h, h.new) \cap W = {}
        /\ \A k \in Generations : k # h.new => CellsOf(c, k) = CellsOf(h, k)
    <3>1. \A x \in Addrs : Page(x) \in Pages /\ Slot(x) \in Int
      BY PageSlot
    <3>2. \A x \in Addrs : Page(x) # p => Used(c, Page(x)) = Used(h, Page(x))
      BY <2>6, <3>1
    <3>3. \A x \in Addrs : Page(x) = p => Gen(h, x) = h.new
      BY <2>2 DEF Gen
    <3>4. ASSUME NEW x \in Addrs PROVE x \in CellsOf(c, h.new) <=> x \in CellsOf(h, h.new) \cup W
      <4>1. CASE Page(x) = p
        BY <4>1, <2>2, <2>4, <2>7, <3>1, <3>3 DEF CellsOf
      <4>2. CASE Page(x) # p
        BY <4>2, <2>4, <3>2 DEF CellsOf
      <4> QED BY <4>1, <4>2
    <3>5. CellsOf(c, h.new) = CellsOf(h, h.new) \cup W
      <4>1. CellsOf(c, h.new) \subseteq Addrs /\ CellsOf(h, h.new) \cup W \subseteq Addrs
        BY DEF CellsOf
      <4> HIDE DEF W
      <4> QED BY <3>4, <4>1
    <3>6. CellsOf(h, h.new) \cap W = {}
      <4> SUFFICES ASSUME NEW x \in CellsOf(h, h.new), x \in W PROVE FALSE
        BY DEF CellsOf
      <4>1. Page(x) = p /\ r.start < Slot(x) /\ x \in Addrs
        OBVIOUS
      <4>2. Slot(x) <= Used(h, p)
        BY <4>1 DEF CellsOf
      <4> QED BY <2>2, <2>7, <3>1, <4>1, <4>2
    <3>7. ASSUME NEW k \in Generations, k # h.new PROVE CellsOf(c, k) = CellsOf(h, k)
      BY <2>4, <3>2, <3>3, <3>7 DEF CellsOf
    <3> QED BY <3>5, <3>6, <3>7
  <2>9. BytesOK(c)
    <3>1. Cardinality(W) = n
      BY <2>2, RangeSize, ZenonT(60)
    <3>2. Cardinality(CellsOf(h, h.new) \cup W) = Cardinality(CellsOf(h, h.new)) + Cardinality(W)
      <4>1. CellsOf(h, h.new) \subseteq Addrs /\ W \subseteq Addrs
        BY DEF CellsOf
      <4> HIDE DEF W
      <4> QED BY <2>8, <4>1, Disjoint
    <3>3. BytesOK(h)
      BY DEF Mid
    <3>4. \A k \in Generations : c.bytes[k] = IF k = h.new THEN h.bytes[k] + n ELSE h.bytes[k]
      <4> HIDE DEF n
      <4> QED BY <1>1, <2>3 DEF Heaps
    <3> HIDE DEF n, W
    <3> QED BY <2>2, <2>8, <3>1, <3>2, <3>3, <3>4 DEF BytesOK
  <2>10. Mid(c)
    <3>1. FreeOK(c) /\ SpacesOK(c)
      BY <2>3 DEF Mid, FreeOK, SpacesOK
    <3>2. ForwardsOK(c) /\ RefsOK(c)
      BY <2>3, <2>4 DEF Mid, ForwardsOK, RefsOK
    <3>3. PinnedOK(c) /\ ChainOK(c)
      BY <2>3, <2>4 DEF Mid, PinnedOK, ChainOK
    <3>4. GensOK(c) /\ MarksOK(c)
      BY <2>3, <2>4 DEF Mid, GensOK, MarksOK
    <3>5. CleanOK(c)
      BY <2>3, <2>4 DEF Mid, CleanOK
    <3>6. AreasOK(c)
      BY <2>3, <2>4 DEF Mid, AreasOK
    <3>7. ScratchOK(c)
      BY <2>3 DEF Mid, ScratchOK
    <3> QED BY <2>3, <2>5, <2>9, <3>7, <3>1, <3>2, <3>3, <3>4, <3>5, <3>6 DEF Mid
  <2>11. (a \in Int /\ Page(a) = p) \/ n = 0
    <3>1. CASE n # 0
      <4>1. r.start + 1 \in 1..Cap
        <5>1. Cap \in Nat
          BY GencgcAssumption
        <5> QED BY <2>2, <3>1, <5>1
      <4>2. a \in Addrs /\ Page(a) = p
        BY <2>2, <4>1, AddrOf
      <4> QED BY <4>2 DEF Addrs
    <3> QED BY <3>1
  <2>12. a \in Nat \ {0}
    <3>1. (p - 1) * Cap \in Nat
      BY <2>2, GencgcAssumption DEF Pages
    <3> QED BY <2>2, <3>1 DEF Addr
  <2>13. \A x \in Int : a <= x /\ x < a + n <=> x \in W
    BY <2>2, AddrRange
  <2>14. \A x \in W : Cell(c, x) /\ Gen(c, x) = c.new /\ Page(x) = p
    BY <2>2, <2>3 DEF Cell, Gen
  <2>15. \A x \in Int : a <= x /\ x < a + n => Cell(c, x) /\ Gen(c, x) = c.new /\ Page(x) = Page(a)
    <3> SUFFICES ASSUME NEW x \in Int, a <= x, x < a + n
                 PROVE  Cell(c, x) /\ Gen(c, x) = c.new /\ Page(x) = Page(a)
      OBVIOUS
    <3>1. n # 0
      BY <2>12, <2>2
    <3> HIDE DEF n, W, a
    <3> QED BY <2>11, <2>13, <2>14, <3>1
  <2>16. /\ Mid(g) /\ Step(c, g)
         /\ \E A : g = [c EXCEPT !.areas = A]
         /\ \A b \in Int : Due(c, b) \subseteq Due(g, b)
         /\ \A x \in Int : a <= x /\ x < a + n => x \in Due(g, c.below)
    <3>1. n \in Nat
      BY <2>2
    <3> HIDE DEF n, a, W, r, p
    <3> DEFINE k == AddArea(c, a, n)
    <3>2. /\ Mid(k) /\ Step(c, k)
          /\ \E A : k = [c EXCEPT !.areas = A]
          /\ \A b \in Int : Due(c, b) \subseteq Due(k, b)
          /\ \A x \in Int : a <= x /\ x < a + n => x \in Due(k, c.below)
      BY <3>1, <2>10, <2>12, <2>15, AddAreaOK
    <3>3. g = k
      BY <2>1
    <3> HIDE DEF k
    <3> QED BY <3>2, <3>3
  <2>17. /\ g.region = c.region /\ g.page = c.page /\ g.word = c.word /\ g.full = c.full
         /\ g.below = c.below
    BY <2>3, <2>16 DEF Heaps
  <2>18. Due(h, h.below) \subseteq Due(g, h.below)
    <3> SUFFICES ASSUME NEW x \in Due(h, h.below) PROVE x \in Due(g, h.below)
      OBVIOUS
    <3>0. x \in Addrs /\ Cell(h, x) /\ Gen(h, x) = h.new /\ x \in Int /\ Page(x) \in Pages
      BY PageSlot DEF Due, Addrs
    <3>1. CASE Page(x) = p /\ Slot(x) > Used(h, Page(x))
      <4>1. x \in W
        BY <2>2, <2>7, <3>0, <3>1 DEF Cell
      <4> HIDE DEF W
      <4> QED BY <2>3, <2>13, <2>16, <3>0, <4>1
    <3>2. CASE ~(Page(x) = p /\ Slot(x) > Used(h, Page(x)))
      <4>1. x \in Due(c, h.below)
        BY <2>3, <2>4, <2>6, <3>0, <3>2 DEF Due
      <4>2. h.below \in Int
        BY <1>1 DEF Heaps
      <4> QED BY <2>16, <4>1, <4>2
    <3> QED BY <3>1, <3>2
  <2>19. Step(h, g)
    <3>1. \A x : /\ Cell(g, x) <=> Cell(h, x)
                 /\ Gen(g, x) = Gen(h, x) /\ Mark(g, x) = Mark(h, x)
                 /\ Kept(g, x) <=> Kept(h, x)
      <4>1. g.from = h.from /\ g.pinned = h.pinned
        BY <2>3, <2>16 DEF Step
      <4> QED BY <2>3, <2>17, <4>1 DEF Cell, Gen, Mark, Kept, InFromSpace
    <3>2. Movable(g) \subseteq Movable(h)
      <4>1. Movable(c) = Movable(h)
        BY <2>4 DEF Movable
      <4> QED BY <2>16, <4>1 DEF Step
    <3>3. /\ g.from = h.from /\ g.new = h.new /\ g.pinned = h.pinned /\ g.lost = h.lost
          /\ g.chain = h.chain /\ g.root = h.root /\ g.below = h.below
          /\ h.full => g.full
          /\ h.below = 0 => g.areas = h.areas
      BY <2>3, <2>16 DEF Step
    <3> QED BY <2>3, <2>17, <2>18, <3>1, <3>2, <3>3 DEF Step
  <2> QED BY <1>3, <2>3, <2>16, <2>17, <2>19 DEF g
<1> QED BY <1>2, <1>3

------------------------------------------------------------------------------
(* Steps of the collector.                                                  *)

\* Two heaps with the same cells.
LEMMA SameCells ==
  ASSUME NEW h, NEW g, Mid(h),
         g.word = h.word, g.from = h.from, g.new = h.new, g.pinned = h.pinned,
         g.chain = h.chain, g.root = h.root,
         \A x \in Addrs : /\ Cell(g, x) <=> Cell(h, x)
                          /\ Cell(h, x) => /\ Gen(g, x) = Gen(h, x)
                                           /\ Mark(g, x) = Mark(h, x)
                                           /\ g.page[Page(x)].type = h.page[Page(x)].type
  PROVE  /\ SpacesOK(g) /\ ForwardsOK(g) /\ RefsOK(g) /\ PinnedOK(g) /\ ChainOK(g)
         /\ GensOK(g) /\ CleanOK(g) /\ MarksOK(g)
         /\ g.areas = h.areas => AreasOK(g)
         /\ \A x \in Addrs : Kept(g, x) <=> Kept(h, x)
         /\ Movable(g) = Movable(h)
<1>1. h \in Heaps
  BY DEF Mid
<1>2. \A x \in Addrs : /\ IsObj(g, x) <=> IsObj(h, x)
                       /\ IsFwd(g, x) <=> IsFwd(h, x)
                       /\ Cell(h, x) => (InFromSpace(g, x) <=> InFromSpace(h, x))
                       /\ Kept(g, x) <=> Kept(h, x)
                       /\ Target(g, x) <=> Target(h, x)
  BY DEF IsObj, IsFwd, InFromSpace, Kept, Target, Gen
<1>3. \A x : Cell(g, x) => x \in Addrs
  BY DEF Cell
<1>4. \A x : Cell(h, x) => x \in Addrs
  BY DEF Cell
<1>5. \A x : IsObj(g, x) <=> IsObj(h, x)
  BY <1>2, <1>3, <1>4 DEF IsObj
<1>6. \A x : Target(g, x) <=> Target(h, x)
  BY <1>2, <1>3, <1>4 DEF Target
<1>7. \A x \in Addrs : IsObj(h, x) => Target(h, h.word[x].ref)
  BY DEF Mid, RefsOK
<1>8. SpacesOK(g)
  BY DEF Mid, SpacesOK
<1>9. ForwardsOK(g)
  <2> SUFFICES ASSUME NEW a \in Addrs, IsFwd(g, a)
               PROVE  /\ InFromSpace(g, a)
                      /\ g.page[Page(a)].type # "large"
                      /\ IsObj(g, g.word[a].to)
                      /\ Gen(g, g.word[a].to) = g.new
    BY DEF ForwardsOK
  <2>1. IsFwd(h, a) /\ Cell(h, a)
    BY <1>2 DEF IsFwd
  <2>2. /\ InFromSpace(h, a)
        /\ h.page[Page(a)].type # "large"
        /\ IsObj(h, h.word[a].to)
        /\ Gen(h, h.word[a].to) = h.new
    BY <2>1 DEF Mid, ForwardsOK
  <2>3. Cell(h, h.word[a].to) /\ h.word[a].to \in Addrs
    BY <2>2 DEF IsObj, Cell
  <2> QED BY <1>2, <1>5, <2>1, <2>2, <2>3
<1>10. RefsOK(g)
  BY <1>5, <1>6 DEF Mid, RefsOK
<1>11. PinnedOK(g)
  BY <1>1, <1>5 DEF Mid, PinnedOK, IsObj, Heaps
<1>12. ChainOK(g)
  <2> SUFFICES ASSUME NEW x \in g.chain
               PROVE  /\ IsObj(g, x) /\ Kept(g, x) /\ g.word[x].weak
                      /\ LET r == g.word[x].ref IN
                         r # Nil /\ Gen(g, r) \in {g.from, g.new} /\ r \notin g.pinned
    BY DEF ChainOK
  <2>1. /\ IsObj(h, x) /\ Kept(h, x) /\ h.word[x].weak
        /\ LET r == h.word[x].ref IN
           r # Nil /\ Gen(h, r) \in {h.from, h.new} /\ r \notin h.pinned
    BY DEF Mid, ChainOK
  <2>2. x \in Addrs
    BY <2>1 DEF IsObj, Cell
  <2>3. Cell(h, h.word[x].ref) /\ h.word[x].ref \in Addrs
    BY <1>7, <2>1, <2>2 DEF Target, Cell
  <2> QED BY <1>2, <1>5, <2>1, <2>2, <2>3
<1>13. GensOK(g)
  BY DEF Mid, GensOK
<1>14. CleanOK(g)
  <2> SUFFICES ASSUME NEW x \in Addrs, IsObj(g, x), Gen(g, x) # g.from, Mark(g, x) = "clear",
                      g.word[x].ref # Nil
               PROVE  Gen(g, x) <= Gen(g, g.word[x].ref) /\ Gen(g, g.word[x].ref) <= Oldest
    BY DEF CleanOK
  <2>1. IsObj(h, x) /\ Cell(h, x)
    BY <1>2 DEF IsObj
  <2>2. Cell(h, h.word[x].ref) /\ h.word[x].ref \in Addrs
    BY <1>7, <2>1 DEF Target, Cell
  <2> QED BY <2>1, <2>2 DEF Mid, CleanOK
<1>15. MarksOK(g)
  BY DEF Mid, MarksOK
<1>16. g.areas = h.areas => AreasOK(g)
  BY <1>3, <1>4 DEF Mid, AreasOK
<1>17. Movable(g) = Movable(h)
  BY <1>2 DEF Movable, IsObj
<1> QED BY <1>2, <1>8, <1>9, <1>10, <1>11, <1>12, <1>13, <1>14, <1>15, <1>16, <1>17

\* Steps of the collector compose.
LEMMA StepTrans ==
  ASSUME NEW h, NEW g, NEW k, Mid(h), Step(h, g), Step(g, k)
  PROVE  Step(h, k)
<1>1. h.from # h.new
  BY GencgcAssumption DEF Mid, SpacesOK, Scratch
<1>2. ASSUME NEW a \in Addrs, Cell(h, a)
      PROVE  /\ Cell(k, a)
             /\ k.page[Page(a)].type = h.page[Page(a)].type
             /\ Mark(k, a) = Mark(h, a)
             /\ \/ Gen(k, a) = Gen(h, a)
                \/ /\ Gen(h, a) = h.from /\ Gen(k, a) = h.new
                   /\ h.page[Page(a)].type = "large" /\ a \in Due(k, h.below)
             /\ Kept(h, a) \/ h.page[Page(a)].type = "large" => k.word[a] = h.word[a]
  <2>1. /\ Cell(g, a)
        /\ g.page[Page(a)].type = h.page[Page(a)].type
        /\ Mark(g, a) = Mark(h, a)
        /\ \/ Gen(g, a) = Gen(h, a)
           \/ /\ Gen(h, a) = h.from /\ Gen(g, a) = h.new
              /\ h.page[Page(a)].type = "large" /\ a \in Due(g, h.below)
        /\ Kept(h, a) \/ h.page[Page(a)].type = "large" => g.word[a] = h.word[a]
    BY <1>2 DEF Step
  <2>2. /\ Cell(k, a)
        /\ k.page[Page(a)].type = g.page[Page(a)].type
        /\ Mark(k, a) = Mark(g, a)
        /\ \/ Gen(k, a) = Gen(g, a)
           \/ /\ Gen(g, a) = g.from /\ Gen(k, a) = g.new
              /\ g.page[Page(a)].type = "large" /\ a \in Due(k, g.below)
        /\ Kept(g, a) \/ g.page[Page(a)].type = "large" => k.word[a] = g.word[a]
    BY <2>1 DEF Step
  <2>3. /\ g.from = h.from /\ g.new = h.new /\ g.pinned = h.pinned /\ g.below = h.below
        /\ Due(g, g.below) \subseteq Due(k, g.below)
    BY DEF Step
  <2>4. Kept(h, a) => Kept(g, a)
    BY <1>1, <2>1, <2>3 DEF Kept, InFromSpace, Gen
  <2> QED BY <1>1, <2>1, <2>2, <2>3, <2>4
<1>3. \A a \in Addrs : Cell(k, a) /\ ~Cell(h, a) => a \in Due(k, h.below)
  BY DEF Step
<1>4. Due(h, h.below) \subseteq Due(k, h.below)
  BY DEF Step
<1>5. Movable(k) \subseteq Movable(h) /\ (h.below = 0 => k.areas = h.areas)
  BY DEF Step
<1> QED BY <1>2, <1>3, <1>4, <1>5 DEF Step

\* What a step leaves unclean was unclean, or is due.
LEMMA StepUnclean ==
  ASSUME NEW h, NEW g, Mid(h), Step(h, g)
  PROVE  Unclean(g) \subseteq Unclean(h) \cup Due(g, h.below)
<1> SUFFICES ASSUME NEW x \in Unclean(g), x \notin Due(g, h.below) PROVE x \in Unclean(h)
  OBVIOUS
<1>1. /\ x \in Addrs /\ IsObj(g, x) /\ Kept(g, x)
      /\ g.word[x].ref # Nil /\ InFromSpace(g, g.word[x].ref)
      /\ ~(g.word[x].weak /\ x \in g.chain)
  BY DEF Unclean
<1>2. Cell(h, x)
  BY <1>1 DEF Step, IsObj
<1>3. g.from = h.from /\ g.new = h.new /\ g.pinned = h.pinned /\ g.chain = h.chain
  BY DEF Step
<1>4. Gen(g, x) = Gen(h, x)
  BY <1>1, <1>2 DEF Step
<1>5. Kept(h, x)
  BY <1>1, <1>2, <1>3, <1>4 DEF Kept, InFromSpace, Gen
<1>6. g.word[x] = h.word[x] /\ IsObj(h, x)
  BY <1>1, <1>2, <1>5 DEF Step, IsObj
<1>7. Cell(h, h.word[x].ref) /\ h.word[x].ref \in Addrs
  BY <1>1, <1>6 DEF Mid, RefsOK, Target, Cell
<1>8. h.from # h.new
  BY GencgcAssumption DEF Mid, SpacesOK, Scratch
<1>9. \/ Gen(g, h.word[x].ref) = Gen(h, h.word[x].ref)
      \/ Gen(g, h.word[x].ref) = h.new
  BY <1>7 DEF Step
<1>10. InFromSpace(h, h.word[x].ref)
  BY <1>1, <1>3, <1>6, <1>8, <1>9 DEF InFromSpace, Gen
<1> QED BY <1>1, <1>3, <1>5, <1>6, <1>10 DEF Unclean

------------------------------------------------------------------------------
(* Regions are opened and objects placed.                                   *)

\* A heap that is exhausted is one that was not, but for that.
LEMMA FullOK ==
  ASSUME NEW h, Mid(h)
  PROVE  LET g == [h EXCEPT !.full = TRUE]
         IN  Mid(g) /\ Step(h, g) /\ g.full /\ g.region = h.region
<1> DEFINE g == [h EXCEPT !.full = TRUE]
<1>1. h \in Heaps
  BY DEF Mid
<1>2. /\ g \in Heaps
      /\ g.page = h.page /\ g.word = h.word /\ g.bytes = h.bytes /\ g.from = h.from
      /\ g.new = h.new /\ g.region = h.region /\ g.areas = h.areas /\ g.below = h.below
      /\ g.pinned = h.pinned /\ g.chain = h.chain /\ g.root = h.root
      /\ g.lost = h.lost /\ g.full
  BY <1>1 DEF Heaps
<1> HIDE DEF g
<1>3. \A x \in Addrs : /\ Cell(g, x) <=> Cell(h, x)
                       /\ Gen(g, x) = Gen(h, x) /\ Mark(g, x) = Mark(h, x)
  BY <1>2 DEF Cell, Gen, Mark
<1>4. \A p : Used(g, p) = Used(h, p)
  BY <1>2 DEF Used, Open
<1>5. \A k : CellsOf(g, k) = CellsOf(h, k)
  BY <1>3, <1>4 DEF CellsOf
<1>6. /\ SpacesOK(g) /\ ForwardsOK(g) /\ RefsOK(g) /\ PinnedOK(g) /\ ChainOK(g)
      /\ GensOK(g) /\ CleanOK(g) /\ MarksOK(g) /\ AreasOK(g)
      /\ \A x \in Addrs : Kept(g, x) <=> Kept(h, x)
      /\ Movable(g) = Movable(h)
  BY <1>2, <1>3, SameCells
<1>7. FreeOK(g) /\ RegionsOK(g) /\ BytesOK(g) /\ ScratchOK(g)
  BY <1>2, <1>5 DEF Mid, FreeOK, RegionsOK, BytesOK, ScratchOK
<1>8. Mid(g)
  BY <1>2, <1>6, <1>7 DEF Mid
<1>9. Due(h, h.below) = Due(g, h.below)
  BY <1>2, <1>3, <1>4 DEF Due
<1>10. Step(h, g)
  BY <1>2, <1>3, <1>6, <1>9 DEF Step
<1> QED BY <1>2, <1>8, <1>10 DEF g

\* find_single_page finds a page that fits.
LEMMA FindPageOK ==
  ASSUME NEW h, NEW t, NEW k, Fits(h, t, k) # {}
  PROVE  FindPage(h, t, k) \in Fits(h, t, k)
<1>1. Fits(h, t, k) \subseteq Nat
  BY DEF Fits, Pages
<1>2. \E p \in Fits(h, t, k) : \A q \in Fits(h, t, k) : p <= q
  BY <1>1, Least
<1> HIDE DEF Fits
<1> QED BY <1>2 DEF FindPage

\* A region is opened on a free page or at the end of one that is extensible.
LEMMA OpenRegionOK ==
  ASSUME NEW h, Mid(h), NEW t \in Regions, h.region[t] = Closed
  PROVE  LET g == OpenRegion(h, t)
         IN  /\ Mid(g) /\ Step(h, g) /\ g.word = h.word
             /\ \/ g.full
                \/ /\ g.full = h.full
                   /\ g.region[t].page \in Pages
                   /\ g.page[g.region[t].page].fill < Cap
<1> DEFINE g == OpenRegion(h, t)
           p == FindPage(h, t, h.new)
<1>1. h \in Heaps /\ RegionsOK(h) /\ FreeOK(h)
  BY DEF Mid
<1>2. CASE Fits(h, t, h.new) = {}
  <2>1. g = [h EXCEPT !.full = TRUE]
    BY <1>2 DEF OpenRegion
  <2>2. g.word = h.word
    BY <1>1, <2>1 DEF Heaps
  <2> HIDE DEF g
  <2>3. Mid(g) /\ Step(h, g) /\ g.full
    BY <2>1, FullOK
  <2> QED BY <2>2, <2>3 DEF g
<1>3. CASE Fits(h, t, h.new) # {}
  <2> DEFINE R == [h.region EXCEPT ![t] = [page |-> p, start |-> h.page[p].fill]]
             P == [h.page EXCEPT ![p] = [@ EXCEPT !.type = t, !.gen = h.new]]
  <2>1. p \in Fits(h, t, h.new)
    BY <1>3, FindPageOK
  <2>2. g = [h EXCEPT !.region = R, !.page = P]
    <3>1. p \in Pages
      BY <2>1 DEF Fits
    <3>2. g = [h EXCEPT !.region[t] = [page |-> p, start |-> h.page[p].fill],
                        !.page[p].type = t, !.page[p].gen = h.new]
      BY <1>3 DEF OpenRegion
    <3> HIDE DEF g, p
    <3>3. h.page \in [Pages -> [type : PageTypes, gen : Generations, mark : Marks, fill : 0..Cap]]
      BY <1>1 DEF Heaps
    <3> QED BY <1>1, <3>1, <3>2, <3>3 DEF Heaps
  <2> HIDE DEF p
  <2>3. p \in Pages /\ (h.page[p].type = "free" \/ (Extensible(h, p, t, h.new) /\ h.page[p].fill < Cap))
    BY <2>1 DEF Fits
  <2>4. /\ h.page[p].fill < Cap /\ h.page[p].fill \in 0..Cap /\ h.page[p].mark = "marked"
        /\ ~Open(h, p)
        /\ h.page[p].type = "free" => h.page[p].fill = 0
        /\ h.page[p].type # "free" => h.page[p].type = t /\ h.page[p].gen = h.new
    <3>1. CASE h.page[p].type = "free"
      <4>1. h.page[p] = FreePage
        BY <1>1, <2>3, <3>1 DEF FreeOK
      <4>2. ~Open(h, p)
        <5> SUFFICES ASSUME NEW u \in Regions, h.region[u].page = p PROVE FALSE
          BY DEF Open, Regions
        <5>1. h.page[p].type = u
          BY <1>1, <2>3, NilFacts DEF RegionsOK, Closed
        <5> QED BY <3>1, <5>1 DEF Regions
      <4>3. 0 < Cap /\ Cap \in Nat
        BY GencgcAssumption
      <4> QED BY <3>1, <4>1, <4>2, <4>3 DEF FreePage
    <3>2. CASE h.page[p].type # "free"
      <4>1. h.page[p].fill \in 0..Cap
        BY <1>1, <2>3 DEF Heaps
      <4> QED BY <2>3, <3>2, <4>1 DEF Extensible
    <3> QED BY <3>1, <3>2
  <2>5. t \in PageTypes /\ h.new \in Generations
    BY <1>1 DEF Heaps, Regions, PageTypes
  <2>6. /\ P \in [Pages -> [type : PageTypes, gen : Generations, mark : Marks, fill : 0..Cap]]
        /\ \A q \in Pages : q # p => P[q] = h.page[q]
        /\ P[p].type = t /\ P[p].gen = h.new /\ P[p].mark = h.page[p].mark
        /\ P[p].fill = h.page[p].fill
    <3>1. h.page[p] \in [type : PageTypes, gen : Generations, mark : Marks, fill : 0..Cap]
      BY <1>1, <2>3 DEF Heaps
    <3>2. [h.page[p] EXCEPT !.type = t, !.gen = h.new] \in [type : PageTypes, gen : Generations, mark : Marks, fill : 0..Cap]
      BY <2>5, <3>1
    <3> QED BY <1>1, <2>3, <3>1, <3>2 DEF Heaps
  <2>7. /\ R \in [Regions -> [page : {0} \cup Pages, start : 0..Cap]]
        /\ R[t] = [page |-> p, start |-> h.page[p].fill]
        /\ \A u \in Regions : u # t => R[u] = h.region[u]
    BY <1>1, <2>3, <2>4 DEF Heaps
  <2> HIDE DEF P, R
  <2>8. /\ g \in Heaps
        /\ g.page = P /\ g.word = h.word /\ g.bytes = h.bytes /\ g.from = h.from
        /\ g.new = h.new /\ g.region = R /\ g.areas = h.areas /\ g.below = h.below
        /\ g.pinned = h.pinned /\ g.chain = h.chain /\ g.root = h.root
        /\ g.lost = h.lost /\ g.full = h.full
    BY <1>1, <2>2, <2>6, <2>7 DEF Heaps
  <2> HIDE DEF g
  <2>9. \A x \in Addrs : /\ Cell(g, x) <=> Cell(h, x)
                         /\ Mark(g, x) = Mark(h, x)
                         /\ Cell(h, x) => /\ Gen(g, x) = Gen(h, x)
                                          /\ g.page[Page(x)].type = h.page[Page(x)].type
    <3> SUFFICES ASSUME NEW x \in Addrs
                 PROVE  /\ Cell(g, x) <=> Cell(h, x)
                        /\ Mark(g, x) = Mark(h, x)
                        /\ Cell(h, x) => /\ Gen(g, x) = Gen(h, x)
                                         /\ g.page[Page(x)].type = h.page[Page(x)].type
      OBVIOUS
    <3>1. Page(x) \in Pages /\ Slot(x) \in 1..Cap
      BY PageSlot
    <3>2. CASE Page(x) = p
      <4>1. ~(Slot(x) <= 0)
        BY <3>1
      <4> QED BY <2>4, <2>6, <2>8, <3>1, <3>2, <4>1 DEF Cell, Mark, Gen
    <3>3. CASE Page(x) # p
      BY <2>6, <2>8, <3>1, <3>3 DEF Cell, Mark, Gen
    <3> QED BY <3>2, <3>3
  <2>10. RegionsOK(g)
    <3> SUFFICES ASSUME NEW u \in Regions
                 PROVE  LET r == g.region[u] IN
                          \/ r = Closed
                          \/ /\ r.page # 0
                             /\ g.page[r.page].type = u
                             /\ g.page[r.page].gen = g.new
                             /\ g.page[r.page].mark = "marked"
                             /\ r.start <= g.page[r.page].fill
      BY DEF RegionsOK
    <3>1. CASE u = t
      <4>1. p # 0
        BY <2>3, NilFacts
      <4> QED BY <2>4, <2>6, <2>7, <2>8, <3>1, <4>1
    <3>2. CASE u # t /\ h.region[u] # Closed
      <4>1. h.region[u].page \in Pages
        BY <1>1, <3>2, RegionType DEF RegionsOK
      <4>2. h.region[u].page # p
        BY <2>4 DEF Open, Regions
      <4> QED BY <1>1, <2>6, <2>7, <2>8, <3>2, <4>1, <4>2 DEF RegionsOK
    <3>3. CASE u # t /\ h.region[u] = Closed
      BY <2>7, <2>8, <3>3
    <3> QED BY <3>1, <3>2, <3>3
  <2>11. \A q \in Pages : Used(g, q) = Used(h, q)
    <3> SUFFICES ASSUME NEW q \in Pages PROVE Used(g, q) = Used(h, q)
      OBVIOUS
    <3>0. q # 0
      BY NilFacts
    <3>1. CASE q = p
      <4>1. Used(g, g.region[t].page) = g.region[t].start
        BY <2>7, <2>8, <2>10, <3>0, <3>1, UsedOpen
      <4>2. Used(h, p) = h.page[p].fill
        BY <2>4, UsedClosed
      <4> QED BY <2>7, <2>8, <3>1, <4>1, <4>2
    <3>2. CASE q # p /\ Open(h, q)
      <4>1. PICK u \in Regions : h.region[u].page = q
        BY <3>2 DEF Open, Regions
      <4>2. u # t
        BY <3>0, <4>1 DEF Closed
      <4>3. g.region[u] = h.region[u]
        BY <2>7, <2>8, <4>2
      <4>4. Used(h, h.region[u].page) = h.region[u].start
        BY <1>1, <3>0, <4>1, UsedOpen
      <4>5. Used(g, g.region[u].page) = g.region[u].start
        BY <2>8, <2>10, <3>0, <4>1, <4>3, UsedOpen
      <4> QED BY <4>1, <4>3, <4>4, <4>5
    <3>3. CASE q # p /\ ~Open(h, q)
      <4>1. ~Open(g, q)
        <5> SUFFICES ASSUME NEW u \in Regions, g.region[u].page = q PROVE FALSE
          BY DEF Open, Regions
        <5>1. CASE u = t
          BY <2>7, <2>8, <3>3, <5>1
        <5>2. CASE u # t
          BY <2>7, <2>8, <3>3, <5>2 DEF Open, Regions
        <5> QED BY <5>1, <5>2
      <4>2. Used(h, q) = h.page[q].fill /\ Used(g, q) = g.page[q].fill
        BY <3>3, <4>1, UsedClosed
      <4> QED BY <2>6, <2>8, <3>3, <4>2
    <3> QED BY <3>1, <3>2, <3>3
  <2>12. \A x \in Addrs : Slot(x) <= Used(h, Page(x)) => Cell(h, x)
    <3> SUFFICES ASSUME NEW x \in Addrs, Slot(x) <= Used(h, Page(x)) PROVE Cell(h, x)
      OBVIOUS
    <3>1. Page(x) \in Pages /\ Slot(x) \in Int
      BY PageSlot
    <3>2. Used(h, Page(x)) \in 0..h.page[Page(x)].fill /\ h.page[Page(x)].fill \in Nat
      BY <1>1, <3>1, UsedBound, PageType
    <3> QED BY <3>1, <3>2 DEF Cell
  <2>13. \A k : CellsOf(g, k) = CellsOf(h, k)
    <3>1. \A x \in Addrs : Used(g, Page(x)) = Used(h, Page(x))
      BY <2>11, PageSlot
    <3> QED BY <2>9, <2>12, <3>1 DEF CellsOf
  <2>14. /\ SpacesOK(g) /\ ForwardsOK(g) /\ RefsOK(g) /\ PinnedOK(g) /\ ChainOK(g)
         /\ GensOK(g) /\ CleanOK(g) /\ MarksOK(g) /\ AreasOK(g)
         /\ \A x \in Addrs : Kept(g, x) <=> Kept(h, x)
         /\ Movable(g) = Movable(h)
    BY <2>8, <2>9, SameCells
  <2>15. FreeOK(g)
    <3> SUFFICES ASSUME NEW q \in Pages, g.page[q].type = "free" PROVE g.page[q] = FreePage
      BY DEF FreeOK
    <3>1. q # p
      BY <2>6, <2>8 DEF Regions
    <3> QED BY <1>1, <2>6, <2>8, <3>1 DEF FreeOK
  <2>15a. ScratchOK(g)
    <3> SUFFICES ASSUME NEW q \in Pages, g.page[q].gen = Scratch PROVE g.new = Scratch
      BY DEF ScratchOK
    <3>1. h.page[q].gen = Scratch => h.new = Scratch
      BY DEF Mid, ScratchOK
    <3> QED BY <2>6, <2>8, <3>1
  <2>16. Mid(g)
    BY <2>15a, <2>8, <2>10, <2>13, <2>14, <2>15 DEF Mid, BytesOK
  <2>17. Due(h, h.below) = Due(g, h.below)
    <3>1. \A x \in Addrs : Used(g, Page(x)) = Used(h, Page(x))
      BY <2>11, PageSlot
    <3> QED BY <2>8, <2>9, <3>1 DEF Due
  <2>18. Step(h, g)
    BY <2>8, <2>9, <2>14, <2>17 DEF Step
  <2>19. g.region[t].page \in Pages /\ g.page[g.region[t].page].fill < Cap
    BY <2>3, <2>4, <2>6, <2>7, <2>8
  <2> QED BY <2>8, <2>16, <2>18, <2>19 DEF g
<1> QED BY <1>2, <1>3

\* Region t is open on page p, and a is the next word of it.
Room(h, t, p, a) == p = h.region[t].page /\ h.page[p].fill < Cap /\ a = Addr(p, h.page[p].fill + 1)

\* An object is written at the end of an open region.
LEMMA PlaceOK ==
  ASSUME NEW h, Mid(h), NEW t \in Regions, NEW p \in Pages, NEW a, Room(h, t, p, a),
         NEW w \in Cells, w.tag = "object", Target(h, w.ref)
  PROVE  LET g == Place(h, p, w)
         IN  /\ Mid(g) /\ Step(h, g) /\ g.full = h.full
             /\ ~Cell(h, a) /\ IsObj(g, a) /\ Gen(g, a) = g.new
             /\ g.word[a] = w /\ \A x \in Addrs : x # a => g.word[x] = h.word[x]
             /\ Mark(g, a) = "marked" /\ Page(a) = p /\ g.page[p].type = t
<1> DEFINE g == Place(h, p, w)
           W == [h.word EXCEPT ![a] = w]
           P == [h.page EXCEPT ![p] = [h.page[p] EXCEPT !.fill = h.page[p].fill + 1]]
<1>1. h \in Heaps /\ RegionsOK(h)
  BY DEF Mid
<1>0. p = h.region[t].page /\ h.page[p].fill < Cap
  BY DEF Room
<1>0a. a = Addr(p, h.page[p].fill + 1)
  BY DEF Room
<1>2. /\ h.page[p].fill \in Nat /\ h.page[p].fill + 1 \in 1..Cap
      /\ h.page[p] \in [type : PageTypes, gen : Generations, mark : Marks, fill : 0..Cap]
      /\ p # 0 /\ Cap \in Nat
  BY <1>0, <1>1, PageType, NilFacts, GencgcAssumption
<1>3. a \in Addrs /\ Page(a) = p /\ Slot(a) = h.page[p].fill + 1
  BY <1>0a, <1>2, AddrOf
<1>4. /\ h.page[p].type = t /\ h.page[p].gen = h.new /\ h.page[p].mark = "marked"
      /\ h.region[t].start <= h.page[p].fill
  <2>1. h.region[t] # Closed
    BY <1>0, <1>2 DEF Closed
  <2> QED BY <1>0, <1>1, <2>1 DEF RegionsOK
<1>5. g = [h EXCEPT !.word = W, !.page = P]
  <2>1. g = [h EXCEPT !.word = W, !.page[p].fill = @ + 1]
    BY <1>0a, <1>1 DEF Put, Heaps, Place
  <2> HIDE DEF g, W
  <2>3. h.page \in [Pages -> [type : PageTypes, gen : Generations, mark : Marks, fill : 0..Cap]]
    BY <1>1 DEF Heaps
  <2> QED BY <1>1, <2>1, <2>3 DEF Heaps
<1> HIDE DEF g
<1>6. /\ P \in [Pages -> [type : PageTypes, gen : Generations, mark : Marks, fill : 0..Cap]]
      /\ \A q \in Pages : q # p => P[q] = h.page[q]
      /\ P[p].type = t /\ P[p].gen = h.new /\ P[p].mark = "marked"
      /\ P[p].fill = h.page[p].fill + 1
  <2>1. [h.page[p] EXCEPT !.fill = h.page[p].fill + 1] \in [type : PageTypes, gen : Generations, mark : Marks, fill : 0..Cap]
    <3>1. h.page[p].fill + 1 \in 0..Cap
      BY <1>2
    <3> QED BY <1>2, <3>1
  <2> QED BY <1>1, <1>2, <1>4, <2>1 DEF Heaps
<1>7. W \in [Addrs -> Cells] /\ W[a] = w /\ \A x \in Addrs : x # a => W[x] = h.word[x]
  BY <1>1, <1>3 DEF Heaps
<1> HIDE DEF P, W
<1>8. /\ g \in Heaps
      /\ g.page = P /\ g.word = W /\ g.bytes = h.bytes /\ g.from = h.from
      /\ g.new = h.new /\ g.region = h.region /\ g.areas = h.areas /\ g.below = h.below
      /\ g.pinned = h.pinned /\ g.chain = h.chain /\ g.root = h.root
      /\ g.lost = h.lost /\ g.full = h.full
  BY <1>1, <1>5, <1>6, <1>7 DEF Heaps
<1>9. ~Cell(h, a) /\ Cell(g, a) /\ IsObj(g, a) /\ Gen(g, a) = g.new /\ Mark(g, a) = "marked"
  <2>1. ~(h.page[p].fill + 1 <= h.page[p].fill) /\ h.page[p].fill + 1 <= h.page[p].fill + 1
    BY <1>2
  <2>2. ~Cell(h, a)
    BY <1>3, <2>1 DEF Cell
  <2>3. Cell(g, a)
    BY <1>3, <1>6, <1>8, <2>1 DEF Cell
  <2>4. g.word[a] = w
    BY <1>3, <1>7, <1>8
  <2> QED BY <1>3, <1>6, <1>8, <2>2, <2>3, <2>4 DEF IsObj, Gen, Mark
<1>10. \A x \in Addrs : /\ Cell(g, x) <=> Cell(h, x) \/ x = a
                        /\ Gen(g, x) = Gen(h, x) /\ Mark(g, x) = Mark(h, x)
                        /\ g.page[Page(x)].type = h.page[Page(x)].type
  <2> SUFFICES ASSUME NEW x \in Addrs
               PROVE  /\ Cell(g, x) <=> Cell(h, x) \/ x = a
                      /\ Gen(g, x) = Gen(h, x) /\ Mark(g, x) = Mark(h, x)
                      /\ g.page[Page(x)].type = h.page[Page(x)].type
    OBVIOUS
  <2>1. Page(x) \in Pages /\ Slot(x) \in 1..Cap /\ x = Addr(Page(x), Slot(x))
    BY PageSlot
  <2>2. CASE Page(x) = p
    <3>1. Slot(x) <= h.page[p].fill + 1 <=> Slot(x) <= h.page[p].fill \/ Slot(x) = h.page[p].fill + 1
      <4>1. \A i, n \in Nat : i <= n + 1 <=> i <= n \/ i = n + 1
        OBVIOUS
      <4>2. Slot(x) \in Nat /\ h.page[p].fill \in Nat
        BY <1>2, <2>1
      <4> QED BY <4>1, <4>2
    <3>2. Slot(x) = h.page[p].fill + 1 <=> x = a
      BY <1>0a, <1>3, <2>1, <2>2
    <3> QED BY <1>4, <1>6, <1>8, <2>2, <3>1, <3>2 DEF Cell, Gen, Mark
  <2>3. CASE Page(x) # p
    BY <1>3, <1>6, <1>8, <2>1, <2>3 DEF Cell, Gen, Mark
  <2> QED BY <2>2, <2>3
<1>11. RegionsOK(g)
  <2> SUFFICES ASSUME NEW u \in Regions, g.region[u] # Closed
               PROVE  /\ g.region[u].page # 0
                      /\ g.page[g.region[u].page].type = u
                      /\ g.page[g.region[u].page].gen = g.new
                      /\ g.page[g.region[u].page].mark = "marked"
                      /\ g.region[u].start <= g.page[g.region[u].page].fill
    BY DEF RegionsOK
  <2> DEFINE q == h.region[u].page
  <2>1. /\ q # 0 /\ h.page[q].type = u /\ h.page[q].gen = h.new /\ h.page[q].mark = "marked"
        /\ h.region[u].start <= h.page[q].fill
    BY <1>1, <1>8 DEF RegionsOK
  <2>2. q \in Pages /\ h.region[u].start \in Nat /\ h.page[q].fill \in Nat
    BY <1>1, <2>1, RegionType, PageType
  <2>3. CASE q = p
    <3>1. P[q].type = u /\ P[q].gen = h.new /\ P[q].mark = "marked"
      <4>1. u = t
        BY <1>4, <2>1, <2>3
      <4> QED BY <1>6, <2>3, <4>1
    <3>2. h.region[u].start <= P[q].fill
      <4>1. P[q].fill = h.page[q].fill + 1
        BY <1>6, <2>3
      <4> QED BY <2>1, <2>2, <4>1
    <3> QED BY <1>8, <2>1, <3>1, <3>2
  <2>4. CASE q # p
    <3>1. P[q] = h.page[q]
      BY <1>6, <2>2, <2>4
    <3> QED BY <1>8, <2>1, <3>1
  <2> QED BY <2>3, <2>4
<1>12. \A q \in Pages : Used(g, q) = Used(h, q)
  <2> SUFFICES ASSUME NEW q \in Pages PROVE Used(g, q) = Used(h, q)
    OBVIOUS
  <2>1. CASE Open(h, q)
    <3>1. Open(g, q)
      BY <1>8, <2>1 DEF Open
    <3> QED BY <1>8, <2>1, <3>1 DEF Used
  <2>2. CASE ~Open(h, q)
    <3>1. ~Open(g, q) /\ q # p
      BY <1>0, <1>2, <1>8, <2>2 DEF Open, Regions
    <3> QED BY <1>6, <1>8, <2>2, <3>1, UsedClosed
  <2> QED BY <2>1, <2>2
<1>13. \A x \in Addrs : Used(g, Page(x)) = Used(h, Page(x))
  BY <1>12, PageSlot
<1>14. \A k : CellsOf(g, k) = CellsOf(h, k)
  BY <1>10, <1>13 DEF CellsOf
<1>15. \A x \in Addrs : /\ x # a => g.word[x] = h.word[x]
                        /\ InFromSpace(g, x) <=> InFromSpace(h, x)
                        /\ Kept(h, x) => Kept(g, x)
                        /\ IsObj(h, x) => IsObj(g, x)
                        /\ IsFwd(g, x) <=> IsFwd(h, x)
                        /\ Target(h, x) => Target(g, x)
  <2>1. \A x \in Addrs : x # a => g.word[x] = h.word[x]
    BY <1>7, <1>8
  <2>2. \A x \in Addrs : InFromSpace(g, x) <=> InFromSpace(h, x)
    BY <1>8, <1>10 DEF InFromSpace, Gen
  <2> QED BY <1>7, <1>8, <1>9, <1>10, <2>1, <2>2 DEF Kept, IsObj, IsFwd, Target
<1>15a. \A x : Target(h, x) => Target(g, x)
  BY <1>15 DEF Target, Cell
<1>15b. \A x : Cell(h, x) => x \in Addrs
  BY DEF Cell
<1>15c. \A x : Cell(h, x) => Cell(g, x) /\ x # a
  BY <1>9, <1>10, <1>15b
<1>16. FreeOK(g)
  <2> SUFFICES ASSUME NEW q \in Pages, g.page[q].type = "free" PROVE g.page[q] = FreePage
    BY DEF FreeOK
  <2>1. q # p
    BY <1>6, <1>8 DEF Regions
  <2> QED BY <1>6, <1>8, <2>1 DEF Mid, FreeOK
<1>17. SpacesOK(g)
  BY <1>8 DEF Mid, SpacesOK
<1>18. ForwardsOK(g)
  <2> SUFFICES ASSUME NEW x \in Addrs, IsFwd(g, x)
               PROVE  /\ InFromSpace(g, x)
                      /\ g.page[Page(x)].type # "large"
                      /\ IsObj(g, g.word[x].to)
                      /\ Gen(g, g.word[x].to) = g.new
    BY DEF ForwardsOK
  <2>1. IsFwd(h, x) /\ Cell(h, x) /\ x # a
    BY <1>15, <1>15c DEF IsFwd
  <2>2. /\ InFromSpace(h, x)
        /\ h.page[Page(x)].type # "large"
        /\ IsObj(h, h.word[x].to)
        /\ Gen(h, h.word[x].to) = h.new
    BY <2>1 DEF Mid, ForwardsOK
  <2>3. h.word[x].to \in Addrs
    BY <2>2 DEF IsObj, Cell
  <2> QED BY <1>8, <1>10, <1>15, <2>1, <2>2, <2>3
<1>19. RefsOK(g)
  <2>1. ASSUME NEW x \in Addrs, IsObj(g, x) PROVE Target(g, g.word[x].ref)
    <3>1. CASE x = a
      BY <1>7, <1>8, <1>15a, <3>1
    <3>2. CASE x # a
      <4>1. IsObj(h, x) /\ g.word[x] = h.word[x]
        BY <1>10, <1>15, <2>1, <3>2 DEF IsObj
      <4> QED BY <1>15a, <4>1 DEF Mid, RefsOK
    <3> QED BY <3>1, <3>2
  <2> QED BY <1>8, <1>15a, <2>1 DEF Mid, RefsOK
<1>20. PinnedOK(g)
  <2>1. \A x \in h.pinned : x \in Addrs
    BY <1>1 DEF Heaps
  <2> QED BY <1>8, <1>10, <1>15, <2>1 DEF Mid, PinnedOK
<1>21. ChainOK(g)
  <2> SUFFICES ASSUME NEW x \in g.chain
               PROVE  /\ IsObj(g, x) /\ Kept(g, x) /\ g.word[x].weak
                      /\ LET r == g.word[x].ref IN
                         r # Nil /\ Gen(g, r) \in {g.from, g.new} /\ r \notin g.pinned
    BY DEF ChainOK
  <2>1. /\ IsObj(h, x) /\ Kept(h, x) /\ h.word[x].weak
        /\ LET r == h.word[x].ref IN
           r # Nil /\ Gen(h, r) \in {h.from, h.new} /\ r \notin h.pinned
    BY <1>8 DEF Mid, ChainOK
  <2>2. x \in Addrs /\ x # a
    BY <1>15b, <1>15c, <2>1 DEF IsObj
  <2>3. h.word[x].ref \in Addrs
    BY <1>15b, <2>1, <2>2 DEF Mid, RefsOK, Target
  <2> QED BY <1>8, <1>10, <1>15, <2>1, <2>2, <2>3
<1>22. GensOK(g)
  <2>1. Gen(g, a) >= g.from /\ (Gen(g, a) = Scratch => g.new = Scratch)
    <3>1. h.new \in Int /\ h.new >= h.from
      BY GencgcAssumption DEF Mid, SpacesOK, Scratch
    <3> QED BY <1>8, <1>9, <3>1
  <2> QED BY <1>8, <1>10, <2>1 DEF Mid, GensOK
<1>23. CleanOK(g)
  <2> SUFFICES ASSUME NEW x \in Addrs, IsObj(g, x), Gen(g, x) # g.from, Mark(g, x) = "clear",
                      g.word[x].ref # Nil
               PROVE  Gen(g, x) <= Gen(g, g.word[x].ref) /\ Gen(g, g.word[x].ref) <= Oldest
    BY DEF CleanOK
  <2>1. x # a
    BY <1>9
  <2>2. IsObj(h, x) /\ g.word[x] = h.word[x]
    BY <1>10, <1>15, <2>1 DEF IsObj
  <2>3. h.word[x].ref \in Addrs
    BY <1>15b, <2>2 DEF Mid, RefsOK, Target
  <2> QED BY <1>8, <1>10, <2>2, <2>3 DEF Mid, CleanOK
<1>24. MarksOK(g)
  BY <1>8, <1>9, <1>10 DEF Mid, MarksOK
<1>25. AreasOK(g)
  BY <1>8, <1>10, <1>15b, <1>15c DEF Mid, AreasOK
<1>25a. ScratchOK(g)
  <2> SUFFICES ASSUME NEW q \in Pages, g.page[q].gen = Scratch PROVE g.new = Scratch
    BY DEF ScratchOK
  <2>1. h.page[q].gen = Scratch => h.new = Scratch
    BY DEF Mid, ScratchOK
  <2> QED BY <1>6, <1>8, <2>1
<1>26. Mid(g)
  BY <1>25a, <1>8, <1>11, <1>14, <1>16, <1>17, <1>18, <1>19, <1>20, <1>21, <1>22, <1>23, <1>24, <1>25
     DEF Mid, BytesOK
<1>27. a \in Due(g, h.below)
  <2>1. Slot(a) > Used(g, Page(a))
    <3>1. Used(h, p) = h.region[t].start
      BY <1>0, <1>1, <1>2, UsedOpen
    <3>2. h.region[t].start \in Nat
      BY <1>1, RegionType
    <3>3. Used(g, p) = h.region[t].start
      BY <1>12, <3>1
    <3>4. h.page[p].fill + 1 > h.region[t].start
      <4>1. \A m, n \in Nat : n <= m => m + 1 > n
        OBVIOUS
      <4>2. h.page[p].fill \in Nat /\ h.region[t].start \in Nat /\ h.region[t].start <= h.page[p].fill
        BY <1>2, <1>4, <3>2
      <4> QED BY <4>1, <4>2
    <3> QED BY <1>3, <3>3, <3>4
  <2> QED BY <1>3, <1>9, <2>1 DEF Due
<1>28. Due(h, h.below) \subseteq Due(g, h.below)
  BY <1>8, <1>10, <1>13 DEF Due
<1>29. Movable(g) \subseteq Movable(h)
  <2> SUFFICES ASSUME NEW x \in Movable(g) PROVE x \in Movable(h)
    OBVIOUS
  <2>1. x \in Addrs /\ IsObj(g, x) /\ InFromSpace(g, x)
    BY DEF Movable
  <2>2. x # a
    <3>1. h.from # h.new
      BY GencgcAssumption DEF Mid, SpacesOK, Scratch
    <3> QED BY <1>8, <1>9, <2>1, <3>1 DEF InFromSpace, Gen
  <2> QED BY <1>10, <1>15, <2>1, <2>2 DEF Movable, IsObj
<1>30. Step(h, g)
  BY <1>8, <1>10, <1>15, <1>15c, <1>27, <1>28, <1>29 DEF Step
<1>31. Page(a) = p /\ g.page[p].type = t
  BY <1>3, <1>6, <1>8
<1>32. g.word[a] = w /\ \A x \in Addrs : x # a => g.word[x] = h.word[x]
  BY <1>3, <1>7, <1>8
<1>33. /\ Mid(g) /\ Step(h, g) /\ g.full = h.full
       /\ ~Cell(h, a) /\ IsObj(g, a) /\ Gen(g, a) = g.new
       /\ g.word[a] = w /\ \A x \in Addrs : x # a => g.word[x] = h.word[x]
       /\ Mark(g, a) = "marked" /\ Page(a) = p /\ g.page[p].type = t
  BY <1>8, <1>9, <1>26, <1>30, <1>31, <1>32
<1> QED BY <1>33 DEF g

------------------------------------------------------------------------------
(* Words are written.                                                       *)

\* What does not depend on the words.
LEMMA SamePages ==
  ASSUME NEW h, NEW g, g.page = h.page, g.region = h.region, g.from = h.from, g.new = h.new,
         g.pinned = h.pinned, g.areas = h.areas
  PROVE  /\ \A x : /\ Cell(g, x) <=> Cell(h, x)
                   /\ Gen(g, x) = Gen(h, x) /\ Mark(g, x) = Mark(h, x)
                   /\ InFromSpace(g, x) <=> InFromSpace(h, x)
                   /\ Kept(g, x) <=> Kept(h, x)
                   /\ g.page[Page(x)].type = h.page[Page(x)].type
         /\ \A p : Used(g, p) = Used(h, p)
         /\ \A k : CellsOf(g, k) = CellsOf(h, k)
         /\ \A b : Due(g, b) = Due(h, b)
         /\ FreeOK(g) <=> FreeOK(h)
         /\ SpacesOK(g) <=> SpacesOK(h)
         /\ RegionsOK(g) <=> RegionsOK(h)
         /\ GensOK(g) <=> GensOK(h)
         /\ MarksOK(g) <=> MarksOK(h)
         /\ AreasOK(g) <=> AreasOK(h)
         /\ ScratchOK(g) <=> ScratchOK(h)
<1>1. \A x : /\ Cell(g, x) <=> Cell(h, x)
             /\ Gen(g, x) = Gen(h, x) /\ Mark(g, x) = Mark(h, x)
             /\ InFromSpace(g, x) <=> InFromSpace(h, x)
             /\ Kept(g, x) <=> Kept(h, x)
             /\ g.page[Page(x)].type = h.page[Page(x)].type
  BY DEF Cell, Gen, Mark, InFromSpace, Kept
<1>2. \A p : Used(g, p) = Used(h, p)
  BY DEF Used, Open
<1>3. \A k : CellsOf(g, k) = CellsOf(h, k)
  BY <1>1, <1>2 DEF CellsOf
<1>4. \A b : Due(g, b) = Due(h, b)
  BY <1>1, <1>2 DEF Due
<1>5. /\ FreeOK(g) <=> FreeOK(h)
      /\ SpacesOK(g) <=> SpacesOK(h)
      /\ RegionsOK(g) <=> RegionsOK(h)
  BY DEF FreeOK, SpacesOK, RegionsOK
<1>6. /\ GensOK(g) <=> GensOK(h)
      /\ MarksOK(g) <=> MarksOK(h)
      /\ AreasOK(g) <=> AreasOK(h)
      /\ ScratchOK(g) <=> ScratchOK(h)
  BY <1>1 DEF GensOK, MarksOK, AreasOK, ScratchOK
<1> QED BY <1>1, <1>2, <1>3, <1>4, <1>5, <1>6

\* A forwarding pointer replaces the object that was copied.
LEMMA ForwardOK ==
  ASSUME NEW h, Mid(h), NEW a \in Addrs, IsObj(h, a), InFromSpace(h, a),
         h.page[Page(a)].type # "large", NEW b, IsObj(h, b), Gen(h, b) = h.new
  PROVE  LET g == Put(h, a, Forward(b))
         IN  /\ Mid(g) /\ Step(h, g) /\ g.full = h.full
             /\ IsObj(g, b) /\ Gen(g, b) = g.new /\ g.word[b] = h.word[b] /\ a \notin Movable(g)
             /\ g.page = h.page
<1> DEFINE g == Put(h, a, Forward(b))
           W == [h.word EXCEPT ![a] = Forward(b)]
<1>1. h \in Heaps
  BY DEF Mid
<1>2. b \in Addrs /\ Forward(b) \in Cells /\ Forward(b).tag = "forward" /\ Forward(b).to = b
  BY DEF IsObj, Cell, Forward, Cells
<1>3. h.from # h.new
  BY GencgcAssumption DEF Mid, SpacesOK, Scratch
<1>4. a # b /\ ~Kept(h, a) /\ a \notin h.chain /\ a \notin h.pinned /\ Cell(h, a)
  BY <1>3 DEF InFromSpace, Gen, Kept, Mid, ChainOK, IsObj
<1>5. W \in [Addrs -> Cells] /\ W[a] = Forward(b) /\ \A x : x \in Addrs /\ x # a => W[x] = h.word[x]
  BY <1>1, <1>2 DEF Heaps
<1>6. g = [h EXCEPT !.word = W]
  BY DEF Put
<1> HIDE DEF W, g
<1>7. /\ g \in Heaps
      /\ g.page = h.page /\ g.word = W /\ g.bytes = h.bytes /\ g.from = h.from
      /\ g.new = h.new /\ g.region = h.region /\ g.areas = h.areas /\ g.below = h.below
      /\ g.pinned = h.pinned /\ g.chain = h.chain /\ g.root = h.root
      /\ g.lost = h.lost /\ g.full = h.full
  BY <1>1, <1>5, <1>6 DEF Heaps
<1>8. /\ \A x : /\ Cell(g, x) <=> Cell(h, x)
                /\ Gen(g, x) = Gen(h, x) /\ Mark(g, x) = Mark(h, x)
                /\ InFromSpace(g, x) <=> InFromSpace(h, x)
                /\ Kept(g, x) <=> Kept(h, x)
                /\ g.page[Page(x)].type = h.page[Page(x)].type
      /\ \A k : CellsOf(g, k) = CellsOf(h, k)
      /\ Due(g, h.below) = Due(h, h.below)
      /\ FreeOK(g) /\ SpacesOK(g) /\ RegionsOK(g) /\ GensOK(g) /\ MarksOK(g) /\ AreasOK(g) /\ ScratchOK(g)
  BY <1>7, SamePages DEF Mid
<1>9. \A x \in Addrs : x # a => g.word[x] = h.word[x]
  BY <1>5, <1>7
<1>10. g.word[a].tag = "forward" /\ g.word[a].to = b
  BY <1>2, <1>5, <1>7
<1>11. \A x : x # a => (IsObj(g, x) <=> IsObj(h, x)) /\ (IsFwd(g, x) <=> IsFwd(h, x))
  BY <1>8, <1>9 DEF IsObj, IsFwd, Cell
<1>12. \A x : IsObj(g, x) => x # a
  BY <1>10 DEF IsObj
<1>13. \A x : Target(h, x) => Target(g, x)
  <2> SUFFICES ASSUME NEW x, Target(h, x) PROVE Target(g, x)
    OBVIOUS
  <2>1. CASE x = a
    BY <1>4, <1>8, <1>10, <2>1 DEF Target
  <2>2. CASE x # a
    BY <1>8, <1>9, <2>2 DEF Target, Cell
  <2> QED BY <2>1, <2>2
<1>14. ForwardsOK(g)
  <2> SUFFICES ASSUME NEW x \in Addrs, IsFwd(g, x)
               PROVE  /\ InFromSpace(g, x)
                      /\ g.page[Page(x)].type # "large"
                      /\ IsObj(g, g.word[x].to)
                      /\ Gen(g, g.word[x].to) = g.new
    BY DEF ForwardsOK
  <2>1. CASE x = a
    BY <1>4, <1>7, <1>8, <1>10, <1>11, <2>1
  <2>2. CASE x # a
    <3>1. IsFwd(h, x) /\ g.word[x] = h.word[x]
      BY <1>9, <1>11, <2>2
    <3>2. /\ InFromSpace(h, x)
          /\ h.page[Page(x)].type # "large"
          /\ IsObj(h, h.word[x].to)
          /\ Gen(h, h.word[x].to) = h.new
      BY <3>1 DEF Mid, ForwardsOK
    <3>3. h.word[x].to # a
      BY <1>3, <3>2 DEF InFromSpace, Gen
    <3> QED BY <1>7, <1>8, <1>11, <3>1, <3>2, <3>3
  <2> QED BY <2>1, <2>2
<1>15. RefsOK(g)
  <2>1. ASSUME NEW x \in Addrs, IsObj(g, x) PROVE Target(g, g.word[x].ref)
    <3>1. IsObj(h, x) /\ g.word[x] = h.word[x]
      BY <1>9, <1>11, <1>12, <2>1
    <3> QED BY <1>13, <3>1 DEF Mid, RefsOK
  <2> QED BY <1>7, <1>13, <2>1 DEF Mid, RefsOK
<1>16. PinnedOK(g)
  BY <1>4, <1>7, <1>8, <1>11 DEF Mid, PinnedOK
<1>17. ChainOK(g)
  <2> SUFFICES ASSUME NEW x \in g.chain
               PROVE  /\ IsObj(g, x) /\ Kept(g, x) /\ g.word[x].weak
                      /\ LET r == g.word[x].ref IN
                         r # Nil /\ Gen(g, r) \in {g.from, g.new} /\ r \notin g.pinned
    BY DEF ChainOK
  <2>1. /\ IsObj(h, x) /\ Kept(h, x) /\ h.word[x].weak
        /\ LET r == h.word[x].ref IN
           r # Nil /\ Gen(h, r) \in {h.from, h.new} /\ r \notin h.pinned
    BY <1>7 DEF Mid, ChainOK
  <2>2. x # a /\ x \in Addrs
    BY <1>4, <1>7, <2>1 DEF IsObj, Cell
  <2> QED BY <1>7, <1>8, <1>9, <1>11, <2>1, <2>2
<1>18. CleanOK(g)
  <2> SUFFICES ASSUME NEW x \in Addrs, IsObj(g, x), Gen(g, x) # g.from, Mark(g, x) = "clear",
                      g.word[x].ref # Nil
               PROVE  Gen(g, x) <= Gen(g, g.word[x].ref) /\ Gen(g, g.word[x].ref) <= Oldest
    BY DEF CleanOK
  <2>1. IsObj(h, x) /\ g.word[x] = h.word[x]
    BY <1>9, <1>11, <1>12
  <2> QED BY <1>7, <1>8, <2>1 DEF Mid, CleanOK
<1>19. BytesOK(g)
  BY <1>7, <1>8 DEF Mid, BytesOK
<1>20. Mid(g)
  BY <1>7, <1>8, <1>14, <1>15, <1>16, <1>17, <1>18, <1>19 DEF Mid
<1>21. Movable(g) \subseteq Movable(h) /\ a \notin Movable(g)
  BY <1>8, <1>11, <1>12 DEF Movable
<1>22. Step(h, g)
  <2>1. \A x \in Addrs : Kept(h, x) \/ h.page[Page(x)].type = "large" => g.word[x] = h.word[x]
    BY <1>4, <1>9
  <2> QED BY <1>7, <1>8, <1>21, <2>1 DEF Step
<1> QED BY <1>2, <1>4, <1>7, <1>8, <1>9, <1>11, <1>20, <1>21, <1>22 DEF g

\* The reference of an object that is kept.
LEMMA SetRefOK ==
  ASSUME NEW h, Mid(h), NEW x \in Addrs, IsObj(h, x), Kept(h, x), x \notin h.chain,
         NEW r, r = Nil \/ (IsObj(h, r) /\ Kept(h, r)),
         Gen(h, x) # h.from /\ Mark(h, x) = "clear"
           => r = Nil \/ (Gen(h, x) <= Gen(h, r) /\ Gen(h, r) <= Oldest)
  PROVE  LET g == SetRef(h, x, r)
         IN  /\ Mid(g) /\ g.full = h.full
             /\ g = [h EXCEPT !.word = g.word]
             /\ IsObj(g, x) /\ g.word[x].tag = "object"
             /\ g.word[x].weak = h.word[x].weak /\ g.word[x].ref = r
             /\ \A y \in Addrs : y # x => g.word[y] = h.word[y]
             /\ \A y : IsObj(g, y) <=> IsObj(h, y)
             /\ Movable(g) = Movable(h)
             /\ Unclean(g) = Unclean(h) \ {x}
             /\ g.page = h.page /\ g.from = h.from /\ g.new = h.new /\ g.below = h.below
             /\ g.region = h.region /\ g.areas = h.areas /\ g.pinned = h.pinned
             /\ g.chain = h.chain /\ g.root = h.root /\ g.lost = h.lost
<1> DEFINE g == SetRef(h, x, r)
           w == [h.word[x] EXCEPT !.ref = r]
           W == [h.word EXCEPT ![x] = w]
<1>1. h \in Heaps
  BY DEF Mid
<1>2. r \in Addrs \cup {Nil} /\ x \in Addrs /\ Cell(h, x)
  BY DEF IsObj, Cell
<1>3. /\ w \in Cells /\ w.tag = "object" /\ w.ref = r /\ w.weak = h.word[x].weak
  <2>1. h.word[x] \in Cells /\ h.word[x].tag = "object"
    BY <1>1, <1>2 DEF Heaps, IsObj
  <2>2. h.word[x] \in [tag : {"object"}, id : Ids, weak : BOOLEAN, ref : Addrs \cup {Nil}]
    BY <2>1, CellType
  <2>3. w \in [tag : {"object"}, id : Ids, weak : BOOLEAN, ref : Addrs \cup {Nil}]
    BY <1>2, <2>2
  <2> QED BY <2>2, <2>3 DEF Cells
<1>4. g = [h EXCEPT !.word = W]
  BY DEF SetRef
<1> HIDE DEF w
<1>5. W \in [Addrs -> Cells] /\ W[x] = w /\ \A y \in Addrs : y # x => W[y] = h.word[y]
  BY <1>1, <1>2, <1>3 DEF Heaps
<1> HIDE DEF W, g
<1>7. /\ g \in Heaps
      /\ g.page = h.page /\ g.word = W /\ g.bytes = h.bytes /\ g.from = h.from
      /\ g.new = h.new /\ g.region = h.region /\ g.areas = h.areas /\ g.below = h.below
      /\ g.pinned = h.pinned /\ g.chain = h.chain /\ g.root = h.root
      /\ g.lost = h.lost /\ g.full = h.full
  BY <1>1, <1>4, <1>5 DEF Heaps
<1>8. /\ \A y : /\ Cell(g, y) <=> Cell(h, y)
                /\ Gen(g, y) = Gen(h, y) /\ Mark(g, y) = Mark(h, y)
                /\ InFromSpace(g, y) <=> InFromSpace(h, y)
                /\ Kept(g, y) <=> Kept(h, y)
                /\ g.page[Page(y)].type = h.page[Page(y)].type
      /\ \A k : CellsOf(g, k) = CellsOf(h, k)
      /\ FreeOK(g) /\ SpacesOK(g) /\ RegionsOK(g) /\ GensOK(g) /\ MarksOK(g) /\ AreasOK(g) /\ ScratchOK(g)
  BY <1>7, SamePages DEF Mid
<1>9. g.word[x] = w /\ \A y \in Addrs : y # x => g.word[y] = h.word[y]
  BY <1>5, <1>7
<1>10. \A y : /\ Cell(h, y) => g.word[y].tag = h.word[y].tag
              /\ IsObj(g, y) <=> IsObj(h, y)
              /\ IsFwd(g, y) <=> IsFwd(h, y)
              /\ Target(g, y) <=> Target(h, y)
  <2>1. \A y : Cell(h, y) => g.word[y].tag = h.word[y].tag
    BY <1>3, <1>9 DEF Cell, IsObj
  <2> QED BY <1>8, <2>1 DEF IsObj, IsFwd, Target
<1>11. ForwardsOK(g)
  <2> SUFFICES ASSUME NEW y \in Addrs, IsFwd(g, y)
               PROVE  /\ InFromSpace(g, y)
                      /\ g.page[Page(y)].type # "large"
                      /\ IsObj(g, g.word[y].to)
                      /\ Gen(g, g.word[y].to) = g.new
    BY DEF ForwardsOK
  <2>1. IsFwd(h, y) /\ y # x
    BY <1>10 DEF IsFwd, IsObj
  <2>2. g.word[y] = h.word[y]
    BY <1>9, <2>1
  <2> QED BY <1>7, <1>8, <1>10, <2>1, <2>2 DEF Mid, ForwardsOK
<1>12. RefsOK(g)
  <2>1. Target(h, r)
    BY DEF Target, IsObj
  <2>2. ASSUME NEW y \in Addrs, IsObj(g, y) PROVE Target(g, g.word[y].ref)
    <3>1. CASE y = x
      BY <1>3, <1>9, <1>10, <2>1, <3>1
    <3>2. CASE y # x
      BY <1>9, <1>10, <2>2, <3>2 DEF Mid, RefsOK
    <3> QED BY <3>1, <3>2
  <2> QED BY <1>7, <1>10, <2>2 DEF Mid, RefsOK
<1>13. PinnedOK(g)
  BY <1>7, <1>8, <1>10 DEF Mid, PinnedOK
<1>14. ChainOK(g)
  <2> SUFFICES ASSUME NEW y \in g.chain
               PROVE  /\ IsObj(g, y) /\ Kept(g, y) /\ g.word[y].weak
                      /\ LET u == g.word[y].ref IN
                         u # Nil /\ Gen(g, u) \in {g.from, g.new} /\ u \notin g.pinned
    BY DEF ChainOK
  <2>1. /\ IsObj(h, y) /\ Kept(h, y) /\ h.word[y].weak
        /\ LET u == h.word[y].ref IN
           u # Nil /\ Gen(h, u) \in {h.from, h.new} /\ u \notin h.pinned
    BY <1>7 DEF Mid, ChainOK
  <2>2. y # x /\ y \in Addrs
    BY <1>7, <2>1 DEF IsObj, Cell
  <2> QED BY <1>7, <1>8, <1>9, <1>10, <2>1, <2>2
<1>15. CleanOK(g)
  <2> SUFFICES ASSUME NEW y \in Addrs, IsObj(g, y), Gen(g, y) # g.from, Mark(g, y) = "clear",
                      g.word[y].ref # Nil
               PROVE  Gen(g, y) <= Gen(g, g.word[y].ref) /\ Gen(g, g.word[y].ref) <= Oldest
    BY DEF CleanOK
  <2>1. CASE y = x
    BY <1>3, <1>7, <1>8, <1>9, <2>1
  <2>2. CASE y # x
    BY <1>7, <1>8, <1>9, <1>10, <2>2 DEF Mid, CleanOK
  <2> QED BY <2>1, <2>2
<1>16. Mid(g)
  BY <1>7, <1>8, <1>11, <1>12, <1>13, <1>14, <1>15 DEF Mid, BytesOK
<1>17. Movable(g) = Movable(h)
  BY <1>8, <1>10 DEF Movable
<1>18. Unclean(g) = Unclean(h) \ {x}
  <2>1. ~InFromSpace(h, r) \/ r = Nil
    BY DEF Kept
  <2>2. ASSUME NEW y \in Addrs PROVE y \in Unclean(g) <=> y \in Unclean(h) /\ y # x
    <3>1. CASE y = x
      BY <1>3, <1>8, <1>9, <2>1, <3>1 DEF Unclean
    <3>2. CASE y # x
      BY <1>7, <1>8, <1>9, <1>10, <3>2 DEF Unclean
    <3> QED BY <3>1, <3>2
  <2> QED BY <2>2 DEF Unclean
<1>19. g = [h EXCEPT !.word = g.word]
  BY <1>4, <1>7
<1> QED BY <1>3, <1>7, <1>9, <1>10, <1>16, <1>17, <1>18, <1>19 DEF g, w

------------------------------------------------------------------------------
(* Pages move to new space.                                                 *)

\* Pages that go to new space take what they hold with them.
LEMMA MovePagesOK ==
  ASSUME NEW h \in Heaps, h.from \in Generations, h.new # h.from, BytesOK(h),
         NEW P \in SUBSET Pages, \A p \in P : h.page[p].gen = h.from /\ ~Open(h, p)
  PROVE  LET g == MovePages(h, P)
         IN  /\ g \in Heaps /\ BytesOK(g)
             /\ g = [h EXCEPT !.page = g.page, !.bytes = g.bytes]
             /\ \A p \in Pages :
                  /\ p \notin P => g.page[p] = h.page[p]
                  /\ g.page[p].type = h.page[p].type /\ g.page[p].mark = h.page[p].mark
                  /\ g.page[p].fill = h.page[p].fill
                  /\ g.page[p].gen = IF p \in P THEN h.new ELSE h.page[p].gen
             /\ \A p \in Pages : Used(g, p) = Used(h, p)
<1> DEFINE g == MovePages(h, P)
           n == Cardinality(CellsIn(h, P))
           Q == [p \in Pages |-> IF p \in P THEN [h.page[p] EXCEPT !.gen = h.new] ELSE h.page[p]]
           B == [h.bytes EXCEPT ![h.from] = @ - n, ![h.new] = @ + n]
<1>1. CellsIn(h, P) \subseteq Addrs /\ n \in Nat
  BY AddrsFinite DEF CellsIn
<1>2. Q \in [Pages -> [type : PageTypes, gen : Generations, mark : Marks, fill : 0..Cap]]
  BY PageType, ZenonT(60) DEF Heaps
<1>3. \A p \in Pages :
        /\ p \notin P => Q[p] = h.page[p]
        /\ Q[p].type = h.page[p].type /\ Q[p].mark = h.page[p].mark
        /\ Q[p].fill = h.page[p].fill
        /\ Q[p].gen = IF p \in P THEN h.new ELSE h.page[p].gen
  <2> SUFFICES ASSUME NEW p \in Pages
               PROVE  /\ p \notin P => Q[p] = h.page[p]
                      /\ Q[p].type = h.page[p].type /\ Q[p].mark = h.page[p].mark
                      /\ Q[p].fill = h.page[p].fill
                      /\ Q[p].gen = IF p \in P THEN h.new ELSE h.page[p].gen
    OBVIOUS
  <2>1. h.page[p] \in [type : PageTypes, gen : Generations, mark : Marks, fill : 0..Cap]
    BY PageType
  <2>2. Q[p] = IF p \in P THEN [h.page[p] EXCEPT !.gen = h.new] ELSE h.page[p]
    OBVIOUS
  <2> HIDE DEF Q
  <2> QED BY <2>1, <2>2
<1>4. /\ B \in [Generations -> Int]
      /\ \A k \in Generations : B[k] = IF k = h.from THEN h.bytes[k] - n
                                       ELSE IF k = h.new THEN h.bytes[k] + n ELSE h.bytes[k]
  <2> HIDE DEF n
  <2> QED BY <1>1 DEF Heaps
<1>5. g = [h EXCEPT !.page = Q, !.bytes = B]
  <2> HIDE DEF n
  <2>1. SetGens(h, P, h.new) = [h EXCEPT !.page = Q]
    BY DEF SetGens, Heaps
  <2>2. g = Account([h EXCEPT !.page = Q], h.from, h.new, n)
    BY <2>1 DEF MovePages, n
  <2> QED BY <2>2 DEF Account, Heaps
<1> HIDE DEF Q, B, g
<1>6. /\ g \in Heaps
      /\ g.page = Q /\ g.word = h.word /\ g.bytes = B /\ g.from = h.from
      /\ g.new = h.new /\ g.region = h.region /\ g.areas = h.areas /\ g.below = h.below
      /\ g.pinned = h.pinned /\ g.chain = h.chain /\ g.root = h.root
      /\ g.lost = h.lost /\ g.full = h.full
  BY <1>2, <1>4, <1>5 DEF Heaps
<1>7. \A p \in Pages : Used(g, p) = Used(h, p)
  <2>1. \A p : Open(g, p) <=> Open(h, p)
    BY <1>6 DEF Open
  <2> QED BY <2>1, <1>3, <1>6 DEF Used
<1>8. \A x \in Addrs : Page(x) \in Pages /\ Slot(x) \in Int
  BY PageSlot
<1>9. \A p \in P : Used(h, p) = h.page[p].fill
  BY UsedClosed
<1>10. /\ CellsIn(h, P) \subseteq CellsOf(h, h.from)
       /\ CellsOf(g, h.from) = CellsOf(h, h.from) \ CellsIn(h, P)
       /\ CellsOf(g, h.new) = CellsOf(h, h.new) \cup CellsIn(h, P)
       /\ CellsOf(h, h.new) \cap CellsIn(h, P) = {}
       /\ \A k \in Generations : k # h.from /\ k # h.new => CellsOf(g, k) = CellsOf(h, k)
  <2>1. \A x \in Addrs : x \in CellsIn(h, P) <=> Page(x) \in P /\ Slot(x) <= Used(h, Page(x))
    BY <1>9 DEF CellsIn
  <2>2. \A x \in Addrs : Gen(g, x) = IF Page(x) \in P THEN h.new ELSE Gen(h, x)
    BY <1>3, <1>6, <1>8 DEF Gen
  <2>3. \A x \in Addrs : Page(x) \in P => Gen(h, x) = h.from
    BY DEF Gen
  <2>4. \A k : \A x \in Addrs : x \in CellsOf(g, k) <=> Gen(g, x) = k /\ Slot(x) <= Used(h, Page(x))
    BY <1>7, <1>8 DEF CellsOf
  <2>5. \A k : \A x \in Addrs : x \in CellsOf(h, k) <=> Gen(h, x) = k /\ Slot(x) <= Used(h, Page(x))
    BY DEF CellsOf
  <2>6. \A k : CellsOf(g, k) \subseteq Addrs /\ CellsOf(h, k) \subseteq Addrs
    BY DEF CellsOf
  <2>7. CellsIn(h, P) \subseteq Addrs
    BY DEF CellsIn
  <2>8. CellsIn(h, P) \subseteq CellsOf(h, h.from)
    BY <2>1, <2>3, <2>5, <2>7
  <2>9. CellsOf(g, h.from) = CellsOf(h, h.from) \ CellsIn(h, P)
    BY <2>1, <2>2, <2>4, <2>5, <2>6
  <2>10. CellsOf(g, h.new) = CellsOf(h, h.new) \cup CellsIn(h, P)
    BY <2>1, <2>2, <2>4, <2>5, <2>6, <2>7
  <2>11. CellsOf(h, h.new) \cap CellsIn(h, P) = {}
    BY <2>1, <2>3, <2>5, <2>6
  <2>12. \A k \in Generations : k # h.from /\ k # h.new => CellsOf(g, k) = CellsOf(h, k)
    BY <2>2, <2>3, <2>4, <2>5, <2>6
  <2> QED BY <2>8, <2>9, <2>10, <2>11, <2>12
<1>11. BytesOK(g)
  <2>1. \A k \in Generations : CellsOf(h, k) \subseteq Addrs /\ CellsOf(h, k) \in SUBSET Addrs
    BY DEF CellsOf
  <2>2. Cardinality(CellsOf(g, h.from)) = Cardinality(CellsOf(h, h.from)) - n
    BY <2>1, <1>10, Removed
  <2>3. Cardinality(CellsOf(g, h.new)) = Cardinality(CellsOf(h, h.new)) + n
    <3>1. h.new \in Generations
      BY DEF Heaps
    <3>2. CellsOf(h, h.new) \in SUBSET Addrs /\ CellsIn(h, P) \in SUBSET Addrs
      BY <1>1, <2>1, <3>1
    <3> QED BY <1>10, <3>2, Disjoint
  <2> HIDE DEF n
  <2> SUFFICES ASSUME NEW k \in Generations PROVE g.bytes[k] = Cardinality(CellsOf(g, k))
    BY DEF BytesOK
  <2>4. h.bytes[k] = Cardinality(CellsOf(h, k))
    BY DEF BytesOK
  <2>5. g.bytes[k] = IF k = h.from THEN h.bytes[k] - n
                     ELSE IF k = h.new THEN h.bytes[k] + n ELSE h.bytes[k]
    BY <1>4, <1>6
  <2>6. CASE k = h.from
    BY <2>2, <2>4, <2>5, <2>6
  <2>7. CASE k # h.from /\ k = h.new
    BY <2>3, <2>4, <2>5, <2>7
  <2>8. CASE k # h.from /\ k # h.new
    BY <1>10, <2>4, <2>5, <2>8
  <2> QED BY <2>6, <2>7, <2>8
<1>12. g = [h EXCEPT !.page = g.page, !.bytes = g.bytes]
  BY <1>5, <1>6
<1> HIDE DEF Q
<1> QED BY <1>3, <1>6, <1>7, <1>11, <1>12 DEF g

\* Pages of large objects go to new space while roots are scavenged.
LEMMA MoveLargeOK ==
  ASSUME NEW h, Mid(h), NEW P \in SUBSET Pages,
         \A p \in P : h.page[p].gen = h.from /\ h.page[p].type = "large"
  PROVE  LET g == MovePages(h, P)
         IN  /\ Mid(g)
             /\ g = [h EXCEPT !.page = g.page, !.bytes = g.bytes]
             /\ \A x \in Addrs :
                  /\ Cell(g, x) <=> Cell(h, x)
                  /\ Gen(g, x) = IF Page(x) \in P THEN h.new ELSE Gen(h, x)
                  /\ Mark(g, x) = Mark(h, x)
                  /\ g.page[Page(x)].type = h.page[Page(x)].type
                  /\ InFromSpace(g, x) <=> InFromSpace(h, x) /\ Page(x) \notin P
                  /\ Kept(h, x) => Kept(g, x)
                  /\ Page(x) \in P => InFromSpace(h, x)
             /\ \A b : Due(h, b) \subseteq Due(g, b)
<1> DEFINE g == MovePages(h, P)
<1>1. h \in Heaps /\ h.from \in Generations /\ h.from # h.new /\ BytesOK(h)
  BY GencgcAssumption DEF Mid, SpacesOK, Scratch, Generations
<1>2. \A p \in P : ~Open(h, p)
  <2> SUFFICES ASSUME NEW p \in P, NEW t \in Regions, h.region[t].page = p PROVE FALSE
    BY DEF Open, Regions
  <2>1. h.region[t] # Closed
    BY NilFacts DEF Closed
  <2>2. h.page[p].type = t
    BY <2>1 DEF Mid, RegionsOK
  <2> QED BY <2>2 DEF Regions
<1>3. /\ g \in Heaps /\ BytesOK(g)
      /\ g = [h EXCEPT !.page = g.page, !.bytes = g.bytes]
      /\ \A p \in Pages :
           /\ p \notin P => g.page[p] = h.page[p]
           /\ g.page[p].type = h.page[p].type /\ g.page[p].mark = h.page[p].mark
           /\ g.page[p].fill = h.page[p].fill
           /\ g.page[p].gen = IF p \in P THEN h.new ELSE h.page[p].gen
      /\ \A p \in Pages : Used(g, p) = Used(h, p)
  BY <1>1, <1>2, MovePagesOK, ZenonT(60)
<1> HIDE DEF g
<1>4. /\ g.word = h.word /\ g.from = h.from
      /\ g.new = h.new /\ g.region = h.region /\ g.areas = h.areas /\ g.below = h.below
      /\ g.pinned = h.pinned /\ g.chain = h.chain /\ g.root = h.root
      /\ g.lost = h.lost /\ g.full = h.full
  BY <1>1, <1>3 DEF Heaps
<1>5. \A x \in Addrs : Page(x) \in Pages /\ Slot(x) \in Int
  BY PageSlot
<1>6. \A x \in Addrs : Page(x) \in P => InFromSpace(h, x)
  BY DEF InFromSpace, Mid, PinnedOK
<1>7. \A x \in Addrs :
        /\ Cell(g, x) <=> Cell(h, x)
        /\ Gen(g, x) = IF Page(x) \in P THEN h.new ELSE Gen(h, x)
        /\ Mark(g, x) = Mark(h, x)
        /\ g.page[Page(x)].type = h.page[Page(x)].type
  BY <1>3, <1>5 DEF Cell, Gen, Mark
<1>8. \A x \in Addrs :
        /\ InFromSpace(g, x) <=> InFromSpace(h, x) /\ Page(x) \notin P
        /\ Kept(h, x) => Kept(g, x)
        /\ IsObj(g, x) <=> IsObj(h, x)
        /\ IsFwd(g, x) <=> IsFwd(h, x)
  <2> SUFFICES ASSUME NEW x \in Addrs
               PROVE  InFromSpace(g, x) <=> InFromSpace(h, x) /\ Page(x) \notin P
    BY <1>4, <1>7 DEF Kept, IsObj, IsFwd
  <2>1. g.page[Page(x)].gen = IF Page(x) \in P THEN h.new ELSE h.page[Page(x)].gen
    BY <1>3, <1>5
  <2> QED BY <1>1, <1>4, <2>1 DEF InFromSpace
<1>9. FreeOK(g) /\ SpacesOK(g)
  BY <1>3, <1>4 DEF FreeOK, SpacesOK, Mid
<1>10. RegionsOK(g)
  <2> SUFFICES ASSUME NEW t \in Regions, h.region[t] # Closed
               PROVE  LET r == g.region[t] IN
                      /\ r.page # 0
                      /\ g.page[r.page].type = t
                      /\ g.page[r.page].gen = g.new
                      /\ g.page[r.page].mark = "marked"
                      /\ r.start <= g.page[r.page].fill
    BY <1>4 DEF RegionsOK
  <2> DEFINE r == h.region[t]
  <2>1. /\ r.page # 0 /\ h.page[r.page].type = t /\ h.page[r.page].gen = h.new
        /\ h.page[r.page].mark = "marked" /\ r.start <= h.page[r.page].fill
    BY DEF Mid, RegionsOK
  <2>2. r.page \in Pages
    BY <1>1, <2>1, RegionType
  <2> HIDE DEF r
  <2> QED BY <1>3, <1>4, <2>1, <2>2 DEF r
<1>11. ForwardsOK(g)
  <2> SUFFICES ASSUME NEW x \in Addrs, IsFwd(g, x)
               PROVE  /\ InFromSpace(g, x)
                      /\ g.page[Page(x)].type # "large"
                      /\ IsObj(g, g.word[x].to)
                      /\ Gen(g, g.word[x].to) = g.new
    BY DEF ForwardsOK
  <2>1. /\ InFromSpace(h, x) /\ h.page[Page(x)].type # "large"
        /\ IsObj(h, h.word[x].to) /\ Gen(h, h.word[x].to) = h.new
    BY <1>8 DEF Mid, ForwardsOK
  <2>2. h.word[x].to \in Addrs
    BY <2>1 DEF IsObj, Cell
  <2> QED BY <1>4, <1>7, <1>8, <2>1, <2>2
<1>12. \A x : Target(h, x) => Target(g, x)
  BY <1>4, <1>7 DEF Target, Cell
<1>13. RefsOK(g)
  BY <1>4, <1>8, <1>12 DEF Mid, RefsOK
<1>14. PinnedOK(g)
  <2> SUFFICES ASSUME NEW a \in g.pinned
               PROVE  IsObj(g, a) /\ Gen(g, a) = g.from /\ g.page[Page(a)].type # "large"
    BY DEF PinnedOK
  <2>1. IsObj(h, a) /\ Gen(h, a) = h.from /\ h.page[Page(a)].type # "large" /\ a \in Addrs
    BY <1>4 DEF Mid, PinnedOK, IsObj, Cell
  <2> QED BY <1>4, <1>7, <1>8, <2>1
<1>15. ChainOK(g)
  <2> SUFFICES ASSUME NEW x \in h.chain
               PROVE  /\ IsObj(g, x) /\ Kept(g, x) /\ h.word[x].weak
                      /\ LET r == h.word[x].ref IN
                         r # Nil /\ Gen(g, r) \in {h.from, h.new} /\ r \notin h.pinned
    BY <1>4 DEF ChainOK
  <2>1. /\ IsObj(h, x) /\ Kept(h, x) /\ h.word[x].weak /\ x \in Addrs
        /\ LET r == h.word[x].ref IN
           r # Nil /\ Gen(h, r) \in {h.from, h.new} /\ r \notin h.pinned
    BY DEF Mid, ChainOK, IsObj, Cell
  <2>2. h.word[x].ref \in Addrs
    BY <2>1 DEF Mid, RefsOK, Target, Cell
  <2> QED BY <1>7, <1>8, <2>1, <2>2
<1>16. GensOK(g) /\ MarksOK(g)
  <2>1. h.new \in Int /\ h.from \in Int /\ h.new >= h.from
    BY <1>1, GencgcAssumption DEF Mid, SpacesOK, Scratch, Generations
  <2>2. GensOK(g)
    BY <1>4, <1>7, <2>1 DEF Mid, GensOK
  <2>3. MarksOK(g)
    BY <1>4, <1>6, <1>7 DEF Mid, MarksOK, InFromSpace, Gen
  <2> QED BY <2>2, <2>3
<1>17. CleanOK(g)
  <2> SUFFICES ASSUME NEW x \in Addrs, IsObj(g, x), Gen(g, x) # g.from, Mark(g, x) = "clear",
                      h.word[x].ref # Nil
               PROVE  Gen(g, x) <= Gen(g, h.word[x].ref) /\ Gen(g, h.word[x].ref) <= Oldest
    BY <1>4 DEF CleanOK
  <2>1. IsObj(h, x) /\ Mark(h, x) = "clear" /\ Cell(h, x)
    BY <1>7, <1>8 DEF IsObj
  <2>2. Gen(h, x) # h.from
    BY <2>1 DEF Mid, MarksOK
  <2>3. Gen(g, x) = Gen(h, x)
    BY <1>6, <1>7, <2>2 DEF InFromSpace, Gen
  <2>4. Gen(h, x) <= Gen(h, h.word[x].ref) /\ Gen(h, h.word[x].ref) <= Oldest
    BY <2>1, <2>2 DEF Mid, CleanOK
  <2>5. h.word[x].ref \in Addrs
    BY <2>1 DEF Mid, RefsOK, Target, Cell
  <2>6. Gen(h, x) > h.from
    <3>1. Gen(h, x) \in Generations
      BY <1>1, <1>5, PageType DEF Gen
    <3>2. Gen(h, x) >= h.from
      BY <2>1 DEF Mid, GensOK
    <3> QED BY <1>1, <2>2, <3>1, <3>2 DEF Generations
  <2>7. Page(h.word[x].ref) \notin P
    <3> SUFFICES ASSUME Page(h.word[x].ref) \in P PROVE FALSE
      OBVIOUS
    <3>1. Gen(h, h.word[x].ref) = h.from
      BY DEF Gen
    <3>2. Gen(h, x) \in Int /\ h.from \in Int
      BY <1>1, <1>5, PageType DEF Gen, Generations
    <3> QED BY <2>4, <2>6, <3>1, <3>2
  <2> QED BY <1>7, <2>3, <2>4, <2>5, <2>7
<1>18. AreasOK(g)
  <2> SUFFICES ASSUME NEW x \in Int, InAreas(h.areas, x)
               PROVE  Cell(g, x) /\ Gen(g, x) = h.new
    BY <1>4 DEF AreasOK
  <2>1. Cell(h, x) /\ Gen(h, x) = h.new /\ x \in Addrs
    BY DEF Mid, AreasOK, Cell
  <2> QED BY <1>7, <2>1
<1>18a. ScratchOK(g)
  <2> SUFFICES ASSUME NEW q \in Pages, g.page[q].gen = Scratch PROVE g.new = Scratch
    BY DEF ScratchOK
  <2>1. h.page[q].gen = Scratch => h.new = Scratch
    BY DEF Mid, ScratchOK
  <2> QED BY <1>3, <1>4, <2>1
<1>19. Mid(g)
  BY <1>18a, <1>3, <1>9, <1>10, <1>11, <1>13, <1>14, <1>15, <1>16, <1>17, <1>18 DEF Mid
<1>20. \A b : Due(h, b) \subseteq Due(g, b)
  <2> SUFFICES ASSUME NEW b, NEW x \in Due(h, b) PROVE x \in Due(g, b)
    OBVIOUS
  <2>1. x \in Addrs /\ Used(g, Page(x)) = Used(h, Page(x))
    BY <1>3, <1>5 DEF Due
  <2> QED BY <1>4, <1>7, <2>1 DEF Due
<1> QED BY <1>3, <1>6, <1>7, <1>8, <1>19, <1>20 DEF g

\* A large object is saved with its page, which is recorded.
LEMMA PromoteOK ==
  ASSUME NEW h, Mid(h), NEW a \in Addrs, IsObj(h, a), InFromSpace(h, a),
         h.page[Page(a)].type = "large"
  PROVE  LET g == Promote(h, Page(a))
         IN  /\ Mid(g) /\ Step(h, g) /\ g.full = h.full
             /\ IsObj(g, a) /\ Gen(g, a) = h.new /\ a \notin Movable(g)
<1> DEFINE p == Page(a)
           m == MovePages(h, {p})
           n == h.page[p].fill
           b == Addr(p, 1)
           g == AddArea(m, b, n)
<1>1. p \in Pages /\ h \in Heaps /\ h.page[p].gen = h.from
  BY PageSlot DEF Mid, InFromSpace
<1>2. n \in Nat /\ 0 + n <= Cap
  BY <1>1, PageType
<1>3. /\ Mid(m)
      /\ m = [h EXCEPT !.page = m.page, !.bytes = m.bytes]
      /\ \A x \in Addrs :
           /\ Cell(m, x) <=> Cell(h, x)
           /\ Gen(m, x) = IF Page(x) = p THEN h.new ELSE Gen(h, x)
           /\ Mark(m, x) = Mark(h, x)
           /\ m.page[Page(x)].type = h.page[Page(x)].type
           /\ InFromSpace(m, x) <=> InFromSpace(h, x) /\ Page(x) # p
           /\ Kept(h, x) => Kept(m, x)
           /\ Page(x) = p => InFromSpace(h, x)
      /\ \A c : Due(h, c) \subseteq Due(m, c)
  <2>1. {p} \in SUBSET Pages /\ \A q \in {p} : h.page[q].gen = h.from /\ h.page[q].type = "large"
    BY <1>1
  <2>2. \A x : x \in {p} <=> x = p
    OBVIOUS
  <2> DEFINE P == {p}
  <2> HIDE DEF p, P
  <2>3. /\ Mid(MovePages(h, P))
        /\ MovePages(h, P) = [h EXCEPT !.page = MovePages(h, P).page, !.bytes = MovePages(h, P).bytes]
        /\ \A x \in Addrs :
             /\ Cell(MovePages(h, P), x) <=> Cell(h, x)
             /\ Gen(MovePages(h, P), x) = IF Page(x) \in P THEN h.new ELSE Gen(h, x)
             /\ Mark(MovePages(h, P), x) = Mark(h, x)
             /\ MovePages(h, P).page[Page(x)].type = h.page[Page(x)].type
             /\ InFromSpace(MovePages(h, P), x) <=> InFromSpace(h, x) /\ Page(x) \notin P
             /\ Kept(h, x) => Kept(MovePages(h, P), x)
             /\ Page(x) \in P => InFromSpace(h, x)
        /\ \A c : Due(h, c) \subseteq Due(MovePages(h, P), c)
    BY <2>1, MoveLargeOK DEF P
  <2> QED BY <2>2, <2>3 DEF P
<1> HIDE DEF m
<1>4. /\ m.word = h.word /\ m.from = h.from
      /\ m.new = h.new /\ m.region = h.region /\ m.areas = h.areas /\ m.below = h.below
      /\ m.pinned = h.pinned /\ m.chain = h.chain /\ m.root = h.root
      /\ m.lost = h.lost /\ m.full = h.full /\ m \in Heaps
  BY <1>1, <1>3 DEF Heaps, Mid
<1>5. b \in Nat \ {0}
  <2>1. (p - 1) * Cap \in Nat
    BY <1>1, GencgcAssumption DEF Pages
  <2> QED BY <2>1 DEF Addr
<1>6. \A x \in Int : b <= x /\ x < b + n <=> x \in Addrs /\ Page(x) = p /\ 0 < Slot(x) /\ Slot(x) <= n
  <2> HIDE DEF n, p
  <2>1. \A x \in Int : Addr(p, 0 + 1) <= x /\ x < Addr(p, 0 + 1) + n
          <=> x \in Addrs /\ Page(x) = p /\ 0 < Slot(x) /\ Slot(x) <= 0 + n
    BY <1>1, <1>2, AddrRange
  <2> QED BY <1>2, <2>1
<1>7. \A x \in Addrs : Slot(x) \in 1..Cap /\ Page(x) \in Pages
  BY PageSlot
<1>8. \A x \in Addrs : Page(x) = p => (Cell(h, x) <=> Slot(x) <= n)
  BY DEF Cell
<1>9. \A x \in Int : b <= x /\ x < b + n <=> x \in Addrs /\ Page(x) = p /\ Cell(h, x)
  <2> HIDE DEF n, p, b
  <2> QED BY <1>6, <1>7, <1>8
<1>10. Page(b) = p
  <2>1. 1 \in 1..Cap
    BY GencgcAssumption
  <2> QED BY <1>1, <2>1, AddrOf
<1>11. \A x \in Int : b <= x /\ x < b + n => Cell(m, x) /\ Gen(m, x) = m.new /\ Page(x) = Page(b)
  <2> HIDE DEF n, p, b
  <2> QED BY <1>3, <1>4, <1>9, <1>10
<1>12. /\ Mid(g) /\ Step(m, g)
       /\ \E A : g = [m EXCEPT !.areas = A]
       /\ \A c \in Int : Due(m, c) \subseteq Due(g, c)
       /\ \A x \in Int : b <= x /\ x < b + n => x \in Due(g, m.below)
  <2> HIDE DEF n, p, b, g
  <2>1. LET k == AddArea(m, b, n)
        IN  /\ Mid(k) /\ Step(m, k)
            /\ \E A : k = [m EXCEPT !.areas = A]
            /\ \A c \in Int : Due(m, c) \subseteq Due(k, c)
            /\ \A x \in Int : b <= x /\ x < b + n => x \in Due(k, m.below)
    BY <1>2, <1>3, <1>5, <1>11, AddAreaOK
  <2> QED BY <2>1 DEF g
<1>13. g = Promote(h, Page(a))
  BY DEF Promote, m
<1> HIDE DEF g, b, n
<1>14. /\ g.page = m.page /\ g.word = m.word /\ g.region = m.region /\ g.full = m.full
       /\ g.from = m.from /\ g.new = m.new /\ g.pinned = m.pinned /\ g.lost = m.lost
       /\ g.chain = m.chain /\ g.root = m.root /\ g.below = m.below
  BY <1>4, <1>12 DEF Heaps
<1>15. \A x \in Addrs :
        /\ Cell(g, x) <=> Cell(h, x)
        /\ Gen(g, x) = IF Page(x) = p THEN h.new ELSE Gen(h, x)
        /\ Mark(g, x) = Mark(h, x)
        /\ g.page[Page(x)].type = h.page[Page(x)].type
        /\ InFromSpace(g, x) <=> InFromSpace(h, x) /\ Page(x) # p
  BY <1>3, <1>4, <1>14 DEF Cell, Gen, Mark, InFromSpace
<1>16. \A x \in Addrs : Page(x) = p /\ Cell(h, x) => x \in Due(g, h.below)
  BY <1>4, <1>9, <1>12 DEF Addrs
<1>17. Due(h, h.below) \subseteq Due(g, h.below)
  <2>1. h.below \in Int
    BY <1>1 DEF Heaps
  <2> QED BY <1>3, <1>12, <2>1
<1>18. Movable(g) \subseteq Movable(h) /\ a \notin Movable(g)
  BY <1>4, <1>14, <1>15 DEF Movable, IsObj
<1>19. ASSUME NEW x \in Addrs, Cell(h, x)
       PROVE  /\ Cell(g, x)
              /\ g.page[Page(x)].type = h.page[Page(x)].type
              /\ Mark(g, x) = Mark(h, x)
              /\ \/ Gen(g, x) = Gen(h, x)
                 \/ /\ Gen(h, x) = h.from /\ Gen(g, x) = h.new
                    /\ h.page[Page(x)].type = "large" /\ x \in Due(g, h.below)
              /\ g.word[x] = h.word[x]
  <2>1. CASE Page(x) = p
    <3>1. Gen(h, x) = h.from /\ h.page[Page(x)].type = "large"
      BY <1>1, <2>1 DEF Gen
    <3> QED BY <1>4, <1>14, <1>15, <1>16, <1>19, <2>1, <3>1
  <2>2. CASE Page(x) # p
    BY <1>4, <1>14, <1>15, <1>19, <2>2
  <2> QED BY <2>1, <2>2
<1>20. \A x \in Addrs : Cell(g, x) => Cell(h, x)
  BY <1>15
<1>20a. h.below = 0 => g.areas = h.areas
  BY <1>4, <1>12 DEF Step
<1>21. Step(h, g)
  BY <1>20a, <1>4, <1>14, <1>17, <1>18, <1>19, <1>20 DEF Step
<1>22. IsObj(g, a) /\ Gen(g, a) = h.new
  BY <1>4, <1>14, <1>15 DEF IsObj
<1> QED BY <1>4, <1>12, <1>13, <1>14, <1>18, <1>21, <1>22

------------------------------------------------------------------------------
(* Objects are allocated and copied.                                        *)

\* Space for an object, in the open region or in a new one.
LEMMA AllocateOK ==
  ASSUME NEW h, Mid(h), NEW t \in Regions, NEW w \in Cells, w.tag = "object", Target(h, w.ref)
  PROVE  LET c == Allocate(h, t, w)
         IN  /\ Mid(c.heap) /\ Step(h, c.heap)
             /\ \A x \in Addrs : Cell(h, x) => c.heap.word[x] = h.word[x]
             /\ ~c.heap.full =>
                  /\ ~h.full
                  /\ ~Cell(h, c.to) /\ IsObj(c.heap, c.to) /\ Gen(c.heap, c.to) = h.new
                  /\ c.heap.word[c.to] = w
                  /\ Mark(c.heap, c.to) = "marked" /\ c.heap.page[Page(c.to)].type = t
<1> DEFINE r    == h.region[t]
           room == r.page # 0 /\ h.page[r.page].fill < Cap
           k    == CloseRegion(h, t)
           g    == IF room THEN h ELSE OpenRegion(k, t)
           p    == g.region[t].page
           a    == Addr(p, g.page[p].fill + 1)
           f    == Place(g, p, w)
           c    == Allocate(h, t, w)
<1>1. c = IF g.full THEN [heap |-> g, to |-> Nil] ELSE [heap |-> f, to |-> a]
  BY DEF Allocate
<1>2. /\ Mid(k) /\ Step(h, k) /\ k.region[t] = Closed /\ k.word = h.word /\ k.full = h.full
  <2>1. h.region \in [Regions -> [page : {0} \cup Pages, start : 0..Cap]]
    BY DEF Mid, Heaps
  <2> HIDE DEF k
  <2>2. /\ Mid(k) /\ Step(h, k)
        /\ k.region = [h.region EXCEPT ![t] = Closed]
        /\ k.page = h.page /\ k.word = h.word /\ k.full = h.full
    BY CloseRegionOK DEF k
  <2> QED BY <2>1, <2>2
<1>3. /\ Mid(g) /\ Step(h, g) /\ g.word = h.word
      /\ ~g.full => /\ ~h.full
                    /\ p \in Pages /\ g.page[p].fill < Cap
  <2>1. CASE room
    <3>1. Step(h, h)
      BY DEF Step
    <3>2. g = h
      BY <2>1
    <3>3. r.page \in Pages
      BY <2>1, RegionType DEF Mid
    <3> HIDE DEF g
    <3> QED BY <2>1, <3>1, <3>2, <3>3
  <2>2. CASE ~room
    <3> DEFINE o == OpenRegion(k, t)
    <3>1. g = o
      BY <2>2
    <3> HIDE DEF g, k
    <3>2. /\ Mid(o) /\ Step(k, o) /\ o.word = k.word
          /\ \/ o.full
             \/ /\ o.full = k.full
                /\ o.region[t].page \in Pages
                /\ o.page[o.region[t].page].fill < Cap
      BY <1>2, OpenRegionOK
    <3> HIDE DEF o
    <3>3. Step(h, o)
      BY <1>2, <3>2, StepTrans
    <3> QED BY <1>2, <3>1, <3>2, <3>3
  <2> QED BY <2>1, <2>2
<1> HIDE DEF g, c
<1>4. CASE g.full
  <2>1. c.heap = g
    BY <1>1, <1>4
  <2> QED BY <1>3, <1>4, <2>1 DEF c
<1>5. CASE ~g.full
  <2>1. c.heap = f /\ c.to = a
    BY <1>1, <1>5
  <2>2. g \in Heaps /\ p \in Pages /\ g.page[p].fill < Cap /\ ~h.full
    BY <1>3, <1>5 DEF Mid
  <2>3. Target(g, w.ref)
    <3>1. Cell(h, w.ref) => Cell(g, w.ref)
      BY <1>3 DEF Step, Cell
    <3> QED BY <1>3, <3>1 DEF Target
  <2>4. /\ Mid(f) /\ Step(g, f) /\ f.full = g.full
        /\ ~Cell(g, a) /\ IsObj(f, a) /\ Gen(f, a) = f.new
        /\ f.word[a] = w /\ \A x \in Addrs : x # a => f.word[x] = g.word[x]
        /\ Mark(f, a) = "marked" /\ Page(a) = p /\ f.page[p].type = t
    <3>1. Room(g, t, p, a)
      BY <2>2 DEF Room
    <3> HIDE DEF a, p
    <3> QED BY <1>3, <2>2, <2>3, <3>1, PlaceOK
  <2>6. Step(h, f) /\ f.new = h.new /\ ~Cell(h, a)
    <3> HIDE DEF a, p, f
    <3>1. Step(h, f)
      BY <1>3, <2>4, StepTrans
    <3>2. ~Cell(h, a)
      BY <1>3, <2>4 DEF Step, Cell
    <3>3. f.new = h.new
      BY <3>1 DEF Step
    <3> QED BY <3>1, <3>2, <3>3
  <2>7. \A x \in Addrs : Cell(h, x) => f.word[x] = h.word[x]
    <3> HIDE DEF a, p, f
    <3> QED BY <1>3, <2>4, <2>6 DEF Cell
  <2> HIDE DEF a, f
  <2>8. ~c.heap.full
    BY <1>5, <2>1, <2>4
  <2> QED BY <2>1, <2>2, <2>4, <2>6, <2>7, <2>8 DEF c
<1> QED BY <1>4, <1>5

\* An object moves to new space, and leaves a forwarding pointer.
LEMMA CopyOK ==
  ASSUME NEW h, Mid(h), NEW a \in Addrs, IsObj(h, a), InFromSpace(h, a),
         h.page[Page(a)].type \in Regions
  PROVE  LET c == Copy(h, a)
         IN  /\ Mid(c.heap) /\ Step(h, c.heap)
             /\ ~c.heap.full =>
                  /\ ~h.full
                  /\ ~Cell(h, c.to) /\ IsObj(c.heap, c.to) /\ Gen(c.heap, c.to) = h.new
                  /\ c.heap.word[c.to] = h.word[a]
                  /\ Mark(c.heap, c.to) = "marked"
                  /\ c.heap.page[Page(c.to)].type = h.page[Page(a)].type
                  /\ a \notin Movable(c.heap)
<1> DEFINE t == h.page[Page(a)].type
           w == h.word[a]
           d == Allocate(h, t, w)
           c == Copy(h, a)
<1>1. w \in Cells /\ w.tag = "object" /\ Target(h, w.ref)
  BY DEF Mid, Heaps, RefsOK, IsObj
<1>2. /\ Mid(d.heap) /\ Step(h, d.heap)
      /\ \A x \in Addrs : Cell(h, x) => d.heap.word[x] = h.word[x]
      /\ ~d.heap.full =>
           /\ ~h.full
           /\ ~Cell(h, d.to) /\ IsObj(d.heap, d.to) /\ Gen(d.heap, d.to) = h.new
           /\ d.heap.word[d.to] = w
           /\ Mark(d.heap, d.to) = "marked" /\ d.heap.page[Page(d.to)].type = t
  <2> HIDE DEF w, t
  <2>1. t \in Regions
    BY DEF t
  <2> QED BY <1>1, <2>1, AllocateOK
<1>3. c = IF d.heap.full THEN d
          ELSE [heap |-> Put(d.heap, a, Forward(d.to)), to |-> d.to]
  BY DEF Copy, At
<1> HIDE DEF c, d
<1>4. CASE d.heap.full
  <2>1. c = d
    BY <1>3, <1>4
  <2> QED BY <1>2, <1>4, <2>1 DEF c
<1>5. CASE ~d.heap.full
  <2> DEFINE g == d.heap
             b == d.to
             f == Put(g, a, Forward(b))
  <2>1. c.heap = f /\ c.to = b
    BY <1>3, <1>5
  <2>2. t # "large"
    BY DEF Regions
  <2>3. Cell(h, a) /\ Gen(h, a) = h.from /\ a \notin h.pinned
    BY DEF IsObj, InFromSpace, Gen
  <2>4. /\ Cell(g, a) /\ g.from = h.from /\ g.new = h.new /\ g.pinned = h.pinned
        /\ Gen(g, a) = Gen(h, a) /\ g.page[Page(a)].type = t
    BY <1>2, <2>2, <2>3 DEF Step
  <2>5. IsObj(g, a) /\ InFromSpace(g, a)
    BY <1>2, <2>3, <2>4 DEF IsObj, InFromSpace, Gen
  <2>6. Mid(g) /\ IsObj(g, b) /\ Gen(g, b) = g.new
    BY <1>2, <1>5, <2>4
  <2> HIDE DEF g, b
  <2>7. /\ Mid(f) /\ Step(g, f) /\ f.full = g.full
        /\ IsObj(f, b) /\ Gen(f, b) = f.new /\ f.word[b] = g.word[b] /\ a \notin Movable(f)
        /\ f.page = g.page
    BY <2>2, <2>4, <2>5, <2>6, ForwardOK
  <2> HIDE DEF f
  <2>8. Step(h, f)
    BY <1>2, <2>7, StepTrans DEF g
  <2>9. ~f.full /\ f.new = h.new
    BY <1>5, <2>7, <2>8 DEF g, Step
  <2>10. Mark(f, b) = "marked" /\ f.page[Page(b)].type = t
    BY <1>2, <1>5, <2>7 DEF g, b, Mark
  <2> QED BY <1>2, <1>5, <2>1, <2>7, <2>8, <2>9, <2>10 DEF g, b, c
<1> QED BY <1>4, <1>5

------------------------------------------------------------------------------
(* trans_list.                                                              *)

\* f is what Fold computes, step by step.
Folds(f, N, b, O) == f = [n \in 0..N |-> IF n = 0 THEN b ELSE O[n][f[n - 1]]]

\* What Fold defines exists, if every step stays in what the step is for.
LEMMA Folding ==
  ASSUME NEW N \in Nat, NEW J, NEW b, b \in J[0], NEW O,
         \A n \in 1..N : \A l \in J[n - 1] : O[n][l] \in J[n]
  PROVE  \E f : Folds(f, N, b, O) /\ \A n \in 0..N : f[n] \in J[n]
<1> DEFINE Is(f, m) == /\ f = [n \in 0..m |-> IF n = 0 THEN b ELSE O[n][f[n - 1]]]
                       /\ \A n \in 0..m : f[n] \in J[n]
           T == {m \in 0..N : \E f : Is(f, m)}
<1>1. 0 \in T
  <2> DEFINE e == [n \in 0..0 |-> b]
  <2>1. e = [n \in 0..0 |-> IF n = 0 THEN b ELSE O[n][e[n - 1]]] /\ \A n \in 0..0 : e[n] \in J[n]
    OBVIOUS
  <2>2. \E f : Is(f, 0)
    BY <2>1
  <2> QED  BY <2>2
<1>2. ASSUME NEW m \in 0..(N - 1), m \in T PROVE m + 1 \in T
  <2>0. \E f : Is(f, m)
    BY <1>2
  <2>1. PICK f : Is(f, m)
    BY <2>0
  <2> DEFINE g == [n \in 0..(m + 1) |-> IF n = m + 1 THEN O[n][f[m]] ELSE f[n]]
  <2>2. ASSUME NEW n \in 0..(m + 1) PROVE g[n] = (IF n = 0 THEN b ELSE O[n][g[n - 1]]) /\ g[n] \in J[n]
    <3>1. CASE n = 0
      BY <2>1, <3>1
    <3>2. CASE n \in 1..m
      <4>1. g[n] = f[n] /\ g[n - 1] = f[n - 1] /\ n \in 0..m /\ n # 0
        BY <3>2
      <4>2. f[n] = O[n][f[n - 1]] /\ f[n] \in J[n]
        BY <2>1, <4>1
      <4> QED BY <4>1, <4>2
    <3>3. CASE n = m + 1
      <4>1. g[n] = O[n][f[m]] /\ g[n - 1] = f[m] /\ f[m] \in J[n - 1] /\ n \in 1..N /\ n # 0
        BY <2>1, <3>3
      <4> QED BY <4>1
    <3> QED BY <3>1, <3>2, <3>3
  <2>3. g = [n \in 0..(m + 1) |-> g[n]]
    OBVIOUS
  <2> HIDE DEF g
  <2>4. Is(g, m + 1)
    BY <2>2, <2>3
  <2>5. \E e : Is(e, m + 1)
    BY <2>4
  <2>6. m + 1 \in 0..N
    OBVIOUS
  <2> QED  BY <2>5, <2>6
<1>3. N \in T
  <2> HIDE DEF T
  <2> QED BY <1>1, <1>2, Upward
<1> QED  BY <1>3 DEF Folds

\* ... and stays there.
LEMMA Folded ==
  ASSUME NEW N \in Nat, NEW J, NEW F, F[0] \in J[0],
         \A n \in 1..N : F[n - 1] \in J[n - 1] => F[n] \in J[n]
  PROVE  \A n \in 0..N : F[n] \in J[n]
<1> DEFINE T == {n \in 0..N : F[n] \in J[n]}
<1>1. 0 \in T
  OBVIOUS
<1>2. ASSUME NEW n \in 0..(N - 1), n \in T PROVE n + 1 \in T
  <2>1. n + 1 \in 1..N /\ (n + 1) - 1 = n
    OBVIOUS
  <2> QED BY <1>2, <2>1
<1> HIDE DEF T
<1>3. \A n \in 0..N : n \in T
  BY <1>1, <1>2, Upward
<1> QED BY <1>3 DEF T

\* The reference of a fresh copy is changed.
LEMMA LinkOK ==
  ASSUME NEW h, Mid(h), NEW g, Mid(g), Step(h, g), NEW x \in Addrs, ~Cell(h, x), IsObj(g, x),
         Gen(g, x) = g.new, Mark(g, x) = "marked", NEW r, IsObj(g, r), Gen(g, r) = g.new
  PROVE  LET k == SetRef(g, x, r)
         IN  /\ Mid(k) /\ Step(h, k) /\ k.full = g.full /\ k.new = g.new /\ k.page = g.page
             /\ \A y : IsObj(k, y) <=> IsObj(g, y)
             /\ Movable(k) = Movable(g)
<1> DEFINE k == SetRef(g, x, r)
<1>1. g.from # g.new
  BY GencgcAssumption DEF Mid, SpacesOK, Scratch
<1>2. Kept(g, x) /\ Kept(g, r)
  BY <1>1 DEF Kept, IsObj, InFromSpace, Gen
<1>3. x \notin g.chain
  BY DEF Step, Mid, ChainOK, IsObj
<1>4. /\ Mid(k) /\ k.full = g.full
      /\ \A y \in Addrs : y # x => k.word[y] = g.word[y]
      /\ \A y : IsObj(k, y) <=> IsObj(g, y)
      /\ Movable(k) = Movable(g)
      /\ k.page = g.page /\ k.from = g.from /\ k.new = g.new /\ k.below = g.below
      /\ k.region = g.region /\ k.areas = g.areas /\ k.pinned = g.pinned
      /\ k.chain = g.chain /\ k.root = g.root /\ k.lost = g.lost
  <2>1. /\ r = Nil \/ (IsObj(g, r) /\ Kept(g, r))
        /\ Gen(g, x) # g.from /\ Mark(g, x) = "clear"
           => r = Nil \/ (Gen(g, x) <= Gen(g, r) /\ Gen(g, r) <= Oldest)
    BY <1>2
  <2> QED BY <1>2, <1>3, <2>1, SetRefOK
<1> HIDE DEF k
<1>5. /\ \A y : /\ Cell(k, y) <=> Cell(g, y)
                /\ Gen(k, y) = Gen(g, y) /\ Mark(k, y) = Mark(g, y)
      /\ Due(k, h.below) = Due(g, h.below)
  BY <1>4, SamePages
<1>6. ASSUME NEW y \in Addrs, Cell(h, y)
      PROVE  /\ Cell(k, y)
             /\ k.page[Page(y)].type = h.page[Page(y)].type
             /\ Mark(k, y) = Mark(h, y)
             /\ \/ Gen(k, y) = Gen(h, y)
                \/ /\ Gen(h, y) = h.from /\ Gen(k, y) = h.new
                   /\ h.page[Page(y)].type = "large" /\ y \in Due(k, h.below)
             /\ Kept(h, y) \/ h.page[Page(y)].type = "large" => k.word[y] = h.word[y]
  <2>1. y # x
    BY <1>6
  <2> QED BY <1>4, <1>5, <1>6, <2>1 DEF Step
<1>7. Step(h, k)
  BY <1>4, <1>5, <1>6 DEF Step
<1> QED BY <1>4, <1>7 DEF k

\* Every address is in the sequence of the addresses, once.
LEMMA SeqOfAddrs == Len(AddrSeq) = NPages * Cap /\ NPages * Cap \in Nat
<1>1. NPages * Cap \in Nat
  BY GencgcAssumption
<1> DEFINE N == NPages * Cap
<1> HIDE DEF N
<1>2. Len([a \in 1..N |-> a]) = N
  BY <1>1 DEF N
<1> QED BY <1>1, <1>2 DEF AddrSeq, Addrs, N

\* The list of conses that starts at "a" moves to new space.
LEMMA CopyListOK ==
  ASSUME NEW h, Mid(h), NEW a \in Addrs, IsObj(h, a), InFromSpace(h, a),
         h.page[Page(a)].type = "cons"
  PROVE  LET c == CopyList(h, a)
         IN  /\ Mid(c.heap) /\ Step(h, c.heap)
             /\ ~c.heap.full =>
                  /\ ~h.full /\ IsObj(c.heap, c.to) /\ Gen(c.heap, c.to) = h.new
                  /\ a \notin Movable(c.heap)
<1> DEFINE first == Copy(h, a)
           link(l, c) ==
             IF c.heap.full THEN [heap |-> c.heap, last |-> l.last, done |-> TRUE]
             ELSE [heap |-> SetRef(c.heap, l.last, c.to), last |-> c.to, done |-> FALSE]
           cdr(l) == At(l.heap, l.last).ref
           next(l, n) ==
             IF \/ l.done \/ cdr(l) = Nil
                \/ l.heap.page[Page(cdr(l))].type # "cons"
                \/ ~InFromSpace(l.heap, cdr(l))
             THEN [l EXCEPT !.done = TRUE]
             ELSE IF Forwarded(l.heap, cdr(l))
             THEN [l EXCEPT !.done = TRUE, !.heap = SetRef(@, l.last, At(@, cdr(l)).to)]
             ELSE link(l, Copy(l.heap, cdr(l)))
           base == [heap |-> first.heap, last |-> first.to, done |-> FALSE]
           c == CopyList(h, a)
           N == NPages * Cap
<1>1. c = IF first.heap.full THEN first
          ELSE [heap |-> Fold(next, base, AddrSeq).heap, to |-> first.to]
  BY DEF CopyList
<1>2. N \in Nat /\ Len(AddrSeq) = N
  BY SeqOfAddrs
<1>3. /\ Mid(first.heap) /\ Step(h, first.heap)
      /\ ~first.heap.full =>
           /\ ~h.full
           /\ ~Cell(h, first.to) /\ IsObj(first.heap, first.to) /\ Gen(first.heap, first.to) = h.new
           /\ first.heap.word[first.to] = h.word[a]
           /\ Mark(first.heap, first.to) = "marked"
           /\ first.heap.page[Page(first.to)].type = h.page[Page(a)].type
           /\ a \notin Movable(first.heap)
  BY CopyOK DEF Regions
<1> HIDE DEF first, N, c
<1>4. CASE first.heap.full
  BY <1>1, <1>3, <1>4 DEF c
<1>5. CASE ~first.heap.full
  <2> DEFINE Inv(l) ==
        /\ Mid(l.heap) /\ Step(h, l.heap)
        /\ ~l.heap.full =>
             /\ IsObj(l.heap, first.to) /\ Gen(l.heap, first.to) = h.new
             /\ a \notin Movable(l.heap)
        /\ ~l.done =>
             /\ ~l.heap.full
             /\ IsObj(l.heap, l.last) /\ Gen(l.heap, l.last) = h.new
             /\ Mark(l.heap, l.last) = "marked" /\ ~Cell(h, l.last)
     U == {l \in [heap : Heaps, last : Addrs, done : BOOLEAN] : Inv(l)}
  <2>1. base \in U
    <3>1. first.to \in Addrs /\ first.heap \in Heaps
      BY <1>3, <1>5 DEF IsObj, Cell, Mid
    <3> QED BY <1>3, <1>5, <3>1
  <2>2. ASSUME NEW l \in U, NEW n PROVE next(l, n) \in U
    <3> DEFINE g == l.heap
               x == l.last
               r == cdr(l)
    <3>1. /\ g \in Heaps /\ x \in Addrs /\ l.done \in BOOLEAN /\ Inv(l)
          /\ l = [heap |-> g, last |-> x, done |-> l.done]
      OBVIOUS
    <3>2. CASE l.done \/ r = Nil \/ g.page[Page(r)].type # "cons" \/ ~InFromSpace(g, r)
      <4>1. next(l, n) = [heap |-> g, last |-> x, done |-> TRUE]
        BY <3>1, <3>2
      <4> HIDE DEF next
      <4> QED BY <3>1, <4>1
    <3>3. CASE ~(l.done \/ r = Nil \/ g.page[Page(r)].type # "cons" \/ ~InFromSpace(g, r))
      <4>1. /\ ~l.done /\ r # Nil /\ g.page[Page(r)].type = "cons" /\ InFromSpace(g, r)
        BY <3>3
      <4>2. /\ Mid(g) /\ Step(h, g) /\ ~g.full
            /\ IsObj(g, first.to) /\ Gen(g, first.to) = h.new /\ a \notin Movable(g)
            /\ IsObj(g, x) /\ Gen(g, x) = h.new /\ Mark(g, x) = "marked" /\ ~Cell(h, x)
        BY <3>1, <4>1
      <4>3. r = g.word[x].ref
        BY DEF At
      <4>4. Cell(g, r) /\ g.word[r].tag # "filler" /\ r \in Addrs /\ g.word[r] \in Cells
        BY <3>1, <4>1, <4>2, <4>3, ZenonT(60) DEF Mid, RefsOK, Target, Cell, Heaps
      <4>5. g.new = h.new /\ h.new = g.new
        BY <4>2 DEF Step
      <4>6. CASE Forwarded(g, r)
        <5> DEFINE to == g.word[r].to
                   k  == SetRef(g, x, to)
        <5>1. next(l, n) = [heap |-> k, last |-> x, done |-> TRUE]
          BY <3>1, <3>3, <4>6 DEF At
        <5>2. IsFwd(g, r)
          BY <4>4, <4>6 DEF Forwarded, At, IsFwd
        <5>3. IsObj(g, to) /\ Gen(g, to) = g.new
          BY <4>2, <4>4, <5>2 DEF Mid, ForwardsOK
        <5> HIDE DEF g, r, next, to
        <5>4. /\ Mid(k) /\ Step(h, k) /\ k.full = g.full /\ k.new = g.new /\ k.page = g.page
              /\ \A y : IsObj(k, y) <=> IsObj(g, y)
              /\ Movable(k) = Movable(g)
          BY <3>1, <4>2, <4>5, <5>3, LinkOK
        <5>5. k \in Heaps
          BY <5>4 DEF Mid
        <5> HIDE DEF k
        <5>6. Gen(k, first.to) = Gen(g, first.to)
          BY <5>4 DEF Gen
        <5> QED BY <3>1, <4>2, <5>1, <5>4, <5>5, <5>6
      <4>7. CASE ~Forwarded(g, r)
        <5> DEFINE d == Copy(g, r)
                   k == SetRef(d.heap, x, d.to)
        <5>1. IsObj(g, r)
          BY <4>4, <4>7, CellType DEF Forwarded, At, IsObj
        <5>2. next(l, n) = IF d.heap.full THEN [heap |-> d.heap, last |-> x, done |-> TRUE]
                           ELSE [heap |-> k, last |-> d.to, done |-> FALSE]
          <6>1. next(l, n) = link(l, d)
            BY <3>1, <3>3, <4>7
          <6> HIDE DEF d, next, g
          <6>2. link(l, d) = IF d.heap.full THEN [heap |-> d.heap, last |-> x, done |-> TRUE]
                             ELSE [heap |-> k, last |-> d.to, done |-> FALSE]
            <7>1. l \in [heap : Heaps, last : Addrs, done : BOOLEAN]
              OBVIOUS
            <7>2. CASE d.heap.full
              BY <7>2
            <7>3. CASE ~d.heap.full
              BY <7>3
            <7> QED BY <7>2, <7>3
          <6> QED BY <6>1, <6>2
        <5>3. /\ Mid(d.heap) /\ Step(g, d.heap)
              /\ ~d.heap.full =>
                   /\ ~g.full
                   /\ ~Cell(g, d.to) /\ IsObj(d.heap, d.to) /\ Gen(d.heap, d.to) = g.new
                   /\ Mark(d.heap, d.to) = "marked"
          <6> HIDE DEF g, r
          <6>1. g.page[Page(r)].type \in Regions
            BY <4>1 DEF Regions
          <6> QED BY <4>1, <4>2, <4>4, <5>1, <6>1, CopyOK
        <5> HIDE DEF g, r, d, next
        <5>4. Step(h, d.heap) /\ d.heap \in Heaps
          BY <4>2, <5>3, StepTrans DEF Mid
        <5>5. CASE d.heap.full
          <6>1. next(l, n) = [heap |-> d.heap, last |-> x, done |-> TRUE]
            BY <5>2, <5>5
          <6> QED BY <3>1, <5>3, <5>4, <5>5, <6>1
        <5>6. CASE ~d.heap.full
          <6>1. ASSUME NEW y, IsObj(g, y), Gen(g, y) = g.new
                PROVE  IsObj(d.heap, y) /\ Gen(d.heap, y) = g.new /\ Mark(d.heap, y) = Mark(g, y)
            <7>1. Kept(g, y) /\ g.from # g.new /\ Cell(g, y) /\ y \in Addrs
              BY <4>2, <6>1, GencgcAssumption
                 DEF Mid, SpacesOK, Scratch, Kept, IsObj, InFromSpace, Gen, Cell
            <7> QED BY <5>3, <6>1, <7>1 DEF Step, IsObj
          <6>2. /\ IsObj(d.heap, first.to) /\ Gen(d.heap, first.to) = h.new
                /\ IsObj(d.heap, x) /\ Gen(d.heap, x) = h.new /\ Mark(d.heap, x) = "marked"
            BY <4>2, <4>5, <6>1
          <6>3. a \notin Movable(d.heap) /\ ~Cell(h, d.to) /\ d.to \in Addrs /\ d.heap.new = h.new
            BY <4>2, <4>5, <5>3, <5>6 DEF Step, Cell, IsObj
          <6>4. /\ Mid(k) /\ Step(h, k) /\ k.full = d.heap.full /\ k.page = d.heap.page
                /\ \A y : IsObj(k, y) <=> IsObj(d.heap, y)
                /\ Movable(k) = Movable(d.heap)
            <7> DEFINE e == d.heap
                       s == d.to
            <7>1. /\ Mid(e) /\ Step(h, e) /\ ~Cell(h, x) /\ IsObj(e, x) /\ x \in Addrs
                  /\ Gen(e, x) = e.new /\ Mark(e, x) = "marked" /\ IsObj(e, s) /\ Gen(e, s) = e.new
              BY <3>1, <4>2, <4>5, <5>3, <5>4, <5>6, <6>2, <6>3
            <7> HIDE DEF e, s
            <7>2. LET q == SetRef(e, x, s)
                  IN  /\ Mid(q) /\ Step(h, q) /\ q.full = e.full /\ q.new = e.new /\ q.page = e.page
                      /\ \A y : IsObj(q, y) <=> IsObj(e, y)
                      /\ Movable(q) = Movable(e)
              BY <7>1, LinkOK
            <7> QED BY <7>2 DEF e, s
          <6>5. k \in Heaps /\ next(l, n) = [heap |-> k, last |-> d.to, done |-> FALSE]
            BY <5>2, <5>6, <6>4 DEF Mid
          <6> HIDE DEF k
          <6>6. \A y : Gen(k, y) = Gen(d.heap, y) /\ Mark(k, y) = Mark(d.heap, y)
            BY <6>4 DEF Gen, Mark
          <6> QED BY <4>5, <5>3, <5>6, <6>2, <6>3, <6>4, <6>5, <6>6
        <5> QED BY <5>5, <5>6
      <4> QED BY <4>6, <4>7
    <3> QED BY <3>2, <3>3
  <2> DEFINE J == [n \in 0..N |-> U]
             O == [n \in 1..N |-> [l \in U |-> next(l, AddrSeq[n])]]
             Is(f) == f = [n \in 0..N |-> IF n = 0 THEN base ELSE next(f[n - 1], AddrSeq[n])]
             F == CHOOSE f : Is(f)
  <2>3. Fold(next, base, AddrSeq) = F[N]
    BY <1>2 DEF Fold
  <2> HIDE DEF base, next, U
  <2>4. \E f : Is(f)
    <3>1. \A n \in 1..N : \A l \in J[n - 1] : O[n][l] \in J[n]
      BY <1>2, <2>2
    <3>2. base \in J[0]
      BY <1>2, <2>1
    <3>3. \A n \in 1..N : n - 1 \in 0..N /\ \A l \in U : O[n][l] = next(l, AddrSeq[n])
      BY <1>2
    <3>4. \A n \in 0..N : J[n] = U
      OBVIOUS
    <3> HIDE DEF J, O
    <3>4a. \E f : Folds(f, N, base, O) /\ \A n \in 0..N : f[n] \in J[n]
      BY <1>2, <3>1, <3>2, Folding
    <3>5. PICK f : /\ f = [n \in 0..N |-> IF n = 0 THEN base ELSE O[n][f[n - 1]]]
                   /\ \A n \in 0..N : f[n] \in J[n]
      BY <3>4a DEF Folds
    <3>6. \A n \in 0..N : n # 0 => O[n][f[n - 1]] = next(f[n - 1], AddrSeq[n])
      <4> SUFFICES ASSUME NEW n \in 0..N, n # 0 PROVE O[n][f[n - 1]] = next(f[n - 1], AddrSeq[n])
        OBVIOUS
      <4>1. n \in 1..N /\ n - 1 \in 0..N
        BY <1>2
      <4>2. f[n - 1] \in U
        BY <3>4, <3>5, <4>1
      <4> QED BY <3>3, <4>1, <4>2
    <3>7. Is(f)
      BY <3>5, <3>6
    <3> QED BY <3>7
  <2>5. Is(F)
    BY <2>4
  <2> HIDE DEF F
  <2>6. \A n \in 0..N : F[n] \in J[n]
    <3>1. F[0] \in J[0]
      BY <1>2, <2>1, <2>5
    <3>2. ASSUME NEW n \in 1..N, F[n - 1] \in J[n - 1] PROVE F[n] \in J[n]
      <4>1. F[n] = next(F[n - 1], AddrSeq[n]) /\ n - 1 \in 0..N /\ n \in 0..N
        BY <1>2, <2>5
      <4>2. F[n - 1] \in U
        BY <3>2, <4>1
      <4> QED BY <2>2, <4>1, <4>2
    <3> HIDE DEF J
    <3> QED BY <1>2, <3>1, <3>2, Folded
  <2>7. F[N] \in U
    BY <1>2, <2>6
  <2>8. c = [heap |-> F[N].heap, to |-> first.to]
    BY <1>1, <1>5, <2>3
  <2> DEFINE e == F[N]
  <2>9. e \in U /\ c.heap = e.heap /\ c.to = first.to
    BY <2>7, <2>8
  <2> HIDE DEF e
  <2>10. Inv(e)
    BY <2>9 DEF U
  <2> QED BY <1>3, <1>5, <2>9, <2>10 DEF c
<1> QED BY <1>4, <1>5

------------------------------------------------------------------------------
(* scav1.                                                                   *)

\* from_space and new_space are never the same.
LEMMA SpacesDiffer ==
  ASSUME NEW h, Mid(h) PROVE h.from # h.new /\ h.from \in Generations /\ h.new \in Generations
  BY GencgcAssumption DEF Mid, Heaps, SpacesOK, Scratch, Generations

\* What is in new space is kept.
LEMMA NewKept ==
  ASSUME NEW h, Mid(h), NEW a, Cell(h, a), Gen(h, a) # h.from PROVE Kept(h, a)
  BY DEF Kept, InFromSpace, Gen

\* scav1 saves what a reference leads to.
LEMMA Scav1OK ==
  ASSUME NEW h, Mid(h), NEW a, Target(h, a)
  PROVE  LET s == Scav1(h, a)
             g == s.heap
         IN  /\ Mid(g) /\ Ext(h, g)
             /\ ~g.full => /\ ~h.full
                           /\ s.to = Nil \/ (IsObj(g, s.to) /\ Kept(g, s.to))
             /\ a = Nil \/ Gen(h, a) # h.from => g = h /\ s.to = a
             /\ a # Nil /\ Gen(g, a) # h.from => s.to = a
<1> DEFINE s == Scav1(h, a)
           g == s.heap
<1>1. Ext(h, h)
  BY DEF Ext, Step
<1>2. CASE a = Nil \/ h.full
  <2>1. s = [heap |-> h, to |-> a]
    BY <1>2 DEF Scav1
  <2>2. g = h /\ s.to = a
    BY <2>1
  <2> HIDE DEF s
  <2>3. CASE a = Nil
    BY <1>1, <2>2, <2>3 DEF s
  <2>4. CASE h.full
    BY <1>1, <2>2, <2>4 DEF s
  <2> QED BY <1>2, <2>3, <2>4
<1>3. CASE a # Nil /\ ~h.full
  <2>1. Cell(h, a) /\ h.word[a].tag # "filler" /\ a \in Addrs /\ h.word[a] \in Cells
    BY <1>3 DEF Target, Cell, Mid, Heaps
  <2>2. CASE Gen(h, a) # h.from
    <3>1. s = [heap |-> h, to |-> a]
      BY <1>3, <2>2 DEF Scav1, Gen
    <3>2. Kept(h, a)
      BY <2>1, <2>2, NewKept
    <3>3. ~IsFwd(h, a)
      BY <2>1, <3>2 DEF Mid, ForwardsOK, Kept
    <3>4. IsObj(h, a)
      BY <2>1, <3>3, CellType DEF IsObj, IsFwd
    <3>5. g = h /\ s.to = a
      BY <3>1
    <3> HIDE DEF s
    <3> QED BY <1>1, <1>3, <3>2, <3>4, <3>5 DEF s
  <2>3. CASE Gen(h, a) = h.from /\ Forwarded(h, a)
    <3>1. s = [heap |-> h, to |-> h.word[a].to]
      BY <1>3, <2>3 DEF Scav1, Gen, At
    <3>2. IsFwd(h, a)
      BY <2>1, <2>3 DEF Forwarded, At, IsFwd
    <3>3. IsObj(h, h.word[a].to) /\ Gen(h, h.word[a].to) = h.new
      BY <2>1, <3>2 DEF Mid, ForwardsOK
    <3>4. Kept(h, h.word[a].to)
      BY <3>3, SpacesDiffer, NewKept DEF IsObj
    <3>5. g = h /\ s.to = h.word[a].to
      BY <3>1
    <3> HIDE DEF s
    <3> QED BY <1>1, <1>3, <2>3, <3>3, <3>4, <3>5 DEF s
  <2>4. CASE Gen(h, a) = h.from /\ ~Forwarded(h, a) /\ a \in h.pinned
    <3>1. s = [heap |-> h, to |-> a]
      BY <1>3, <2>4 DEF Scav1, Gen
    <3>2. IsObj(h, a) /\ Kept(h, a)
      BY <2>4 DEF Mid, PinnedOK, Kept, IsObj, InFromSpace
    <3>5. g = h /\ s.to = a
      BY <3>1
    <3> HIDE DEF s
    <3> QED BY <1>1, <1>3, <2>4, <3>2, <3>5 DEF s
  <2>5. CASE Gen(h, a) = h.from /\ ~Forwarded(h, a) /\ a \notin h.pinned
    <3> DEFINE t == h.page[Page(a)].type
    <3>1. s = CASE t = "large" -> [heap |-> Promote(h, Page(a)), to |-> a]
                [] t = "cons"  -> CopyList(h, a)
                [] t = "mixed" -> Copy(h, a)
      BY <1>3, <2>5 DEF Scav1, Gen
    <3>2. IsObj(h, a)
      BY <2>1, <2>5, CellType DEF Forwarded, At, IsObj
    <3>3. InFromSpace(h, a) /\ a \in Movable(h)
      BY <2>1, <2>5, <3>2 DEF InFromSpace, Gen, Movable
    <3>4. t = "large" \/ t = "cons" \/ t = "mixed"
      <4>1. Page(a) \in Pages /\ Slot(a) \in 1..Cap
        BY <2>1, PageSlot
      <4>2. t \in PageTypes
        BY <4>1, PageType DEF Mid
      <4>3. t # "free"
        <5> SUFFICES ASSUME t = "free" PROVE FALSE
          OBVIOUS
        <5>1. h.page[Page(a)].fill = 0
          BY <4>1 DEF Mid, FreeOK, FreePage
        <5> QED BY <2>1, <4>1, <5>1 DEF Cell
      <4> QED BY <4>2, <4>3 DEF PageTypes
    <3>5. /\ Mid(g) /\ Step(h, g)
          /\ ~g.full => /\ IsObj(g, s.to) /\ Gen(g, s.to) = h.new /\ a \notin Movable(g)
          /\ t # "large" \/ s.to = a
      <4>1. CASE t = "large"
        <5> DEFINE k == Promote(h, Page(a))
        <5>1. s = [heap |-> k, to |-> a]
          BY <3>1, <4>1
        <5>2. g = k /\ s.to = a
          BY <5>1
        <5>3. Mid(k) /\ Step(h, k) /\ IsObj(k, a) /\ Gen(k, a) = h.new /\ a \notin Movable(k)
          BY <2>1, <3>2, <3>3, <4>1, PromoteOK
        <5> HIDE DEF s, k
        <5> QED BY <5>2, <5>3
      <4>2. CASE t = "cons"
        <5>1. s = CopyList(h, a)
          BY <3>1, <4>2
        <5> HIDE DEF s
        <5> QED BY <2>1, <3>2, <3>3, <4>2, <5>1, CopyListOK
      <4>3. CASE t = "mixed"
        <5>1. s = Copy(h, a)
          BY <3>1, <4>3
        <5> HIDE DEF s
        <5>2. t \in Regions
          BY <4>3 DEF Regions
        <5> QED BY <2>1, <3>2, <3>3, <4>3, <5>1, <5>2, CopyOK
      <4> HIDE DEF s
      <4> QED BY <3>4, <4>1, <4>2, <4>3
    <3> HIDE DEF s
    <3>6. Ext(h, g)
      BY <3>3, <3>5 DEF Ext
    <3>7. ~g.full => Kept(g, s.to)
      <4>1. g.from = h.from
        BY <3>5 DEF Step
      <4> QED BY <3>5, <4>1, SpacesDiffer, NewKept DEF IsObj
    <3>8. Gen(g, a) # h.from => s.to = a
      BY <2>1, <2>5, <3>5 DEF Step
    <3> QED BY <1>3, <2>5, <3>5, <3>6, <3>7, <3>8 DEF s
  <2> QED BY <2>2, <2>3, <2>4, <2>5
<1> QED BY <1>2, <1>3
==============================================================================
