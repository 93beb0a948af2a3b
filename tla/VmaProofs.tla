----------------------------- MODULE VmaProofs -----------------------------
(***************************************************************************)
(* The memory areas of a process stay disjoint, findable and in step with  *)
(* the page table, for every page size, address, length and offset, and    *)
(* any number of frames.                                                   *)
(***************************************************************************)
EXTENDS Vma, WellFoundedInduction, SequenceTheorems, TLAPS

\* Natural numbers: a set of them has a least element.
LEMMA Least ==
  ASSUME NEW S \in SUBSET Nat, S # {}
  PROVE  \E m \in S : \A k \in S : m <= k
<1> DEFINE R == OpToRel(<, Nat)
<1>1. R = {ss \in Nat \X Nat : ss[1] < ss[2]}
  BY DEF OpToRel
<1>2. IsWellFoundedOn(R, Nat)
  BY NatLessThanWellFounded
<1> HIDE DEF R
<1>3. PICK m \in S : \A k \in S : ~(<<k, m>> \in R)
  BY <1>2, WFMin
<1>4. \A k \in S : ~(k < m)
  BY <1>1, <1>3
<1> QED  BY <1>3, <1>4

\* Quotient and remainder by the page size, and that there is only one pair.
LEMMA Division ==
  ASSUME NEW a \in Int
  PROVE  /\ a \div PageUnits \in Int /\ a % PageUnits \in 0..(PageUnits - 1)
         /\ a = (PageUnits * (a \div PageUnits)) + (a % PageUnits)
BY UnitAssumption

LEMMA Remainder ==
  ASSUME NEW a \in Int, NEW q \in Int, NEW r \in 0..(PageUnits - 1), a = PageUnits * q + r
  PROVE  a % PageUnits = r
<1> DEFINE d == (a \div PageUnits) - q
<1>0. /\ a \div PageUnits \in Int /\ a % PageUnits \in 0..(PageUnits - 1)
      /\ a = (PageUnits * (a \div PageUnits)) + (a % PageUnits)
  BY Division
<1>1. d \in Int /\ PageUnits * d = r - (a % PageUnits) /\ a % PageUnits \in 0..(PageUnits - 1)
  BY <1>0, UnitAssumption
<1> HIDE DEF d
<1>2. d >= 1 => PageUnits * d >= PageUnits
  BY <1>1, UnitAssumption
<1>3. d <= -1 => PageUnits * d <= -PageUnits
  BY <1>1, UnitAssumption
<1>4. d = 0
  BY <1>1, <1>2, <1>3, UnitAssumption
<1> QED  BY <1>1, <1>4, UnitAssumption

\* Whole numbers of pages can be added and subtracted.
LEMMA Multiples ==
  ASSUME NEW a \in Int, NEW b \in Int, Whole(a), Whole(b)
  PROVE  Whole(a + b) /\ Whole(a - b)
<1> DEFINE p == a \div PageUnits
           q == b \div PageUnits
<1>1. p \in Int /\ q \in Int /\ a = PageUnits * p /\ b = PageUnits * q
  BY Division, UnitAssumption DEF Whole
<1> HIDE DEF p, q
<1>2. a + b = PageUnits * (p + q) + 0 /\ a - b = PageUnits * (p - q) + 0
  BY <1>1, UnitAssumption
<1>3. 0 \in 0..(PageUnits - 1) /\ p + q \in Int /\ p - q \in Int
  BY <1>1, UnitAssumption
<1> QED  BY <1>2, <1>3, Remainder DEF Whole

\* ALIGN_UP is the least whole number of pages that is large enough.
LEMMA Rounding ==
  ASSUME NEW n \in Nat \ {0}
  PROVE  /\ ALIGN_UP(n) \in Nat \ {0} /\ n <= ALIGN_UP(n) /\ Whole(ALIGN_UP(n))
         /\ \A g \in Int : g >= n /\ Whole(g) => g >= ALIGN_UP(n)
<1> DEFINE m == n + PageUnits - 1
           k == m \div PageUnits
<1>0. m \in Int
  BY UnitAssumption
<1>1. k \in Int /\ m % PageUnits \in 0..(PageUnits - 1) /\ m = PageUnits * k + (m % PageUnits)
  BY <1>0, Division
<1>2. ALIGN_UP(n) = k * PageUnits
  BY DEF ALIGN_UP, ALIGN_DOWN
<1> HIDE DEF k
<1>3. n <= k * PageUnits /\ k * PageUnits <= n + PageUnits - 1
  BY <1>1, UnitAssumption
<1>4. Whole(k * PageUnits)
  <2>1. k * PageUnits = PageUnits * k + 0 /\ 0 \in 0..(PageUnits - 1) /\ k * PageUnits \in Int
    BY <1>1, UnitAssumption
  <2> QED  BY <1>1, <2>1, Remainder DEF Whole
<1>5. ASSUME NEW g \in Int, g >= n, Whole(g)
      PROVE  g >= k * PageUnits
  <2> DEFINE j == g \div PageUnits
  <2>1. j \in Int /\ g = PageUnits * j
    BY <1>5, Division, UnitAssumption DEF Whole
  <2> HIDE DEF j
  <2>2. j <= k - 1 => PageUnits * j <= PageUnits * (k - 1)
    BY <1>1, <2>1, UnitAssumption
  <2>3. PageUnits * (k - 1) = k * PageUnits - PageUnits
    BY <1>1, UnitAssumption
  <2>4. j >= k => PageUnits * j >= PageUnits * k
    BY <1>1, <2>1, UnitAssumption
  <2> QED  BY <1>1, <1>3, <1>5, <2>1, <2>2, <2>3, <2>4, UnitAssumption
<1>6. k * PageUnits \in Nat \ {0}
  BY <1>1, <1>3, UnitAssumption
<1> QED  BY <1>2, <1>3, <1>4, <1>5, <1>6

\* The fields of an area are numbers.
LEMMA AreaTypes ==
  ASSUME Shapes
  PROVE  \A v \in vmas : v.start \in Int /\ v.end \in Int /\ v.pgoff \in Int /\ v.origin \in Int
BY DEF Shapes, IsArea

\* An area that no other one precedes is the first, and PrevEnd is Base; else
\* PrevEnd is the end of the area next below.
LEMMA Predecessor ==
  ASSUME Shapes, AreasDisjoint, NEW u \in vmas
  PROVE  \/ IsFirst(u) /\ PrevEnd(u) = Base
         \/ \E v \in vmas : /\ v.start < u.start /\ Adjacent(v, u) /\ PrevEnd(u) = v.end
<1> DEFINE Before == {w \in vmas : w.start < u.start}
<1>1. \A v \in vmas : v.start \in Int /\ v.end \in Int /\ Base <= v.start /\ v.start < v.end
  BY AreaTypes DEF AreasDisjoint
<1>2. CASE Before = {}
  BY <1>1, <1>2 DEF PrevEnd, IsFirst
<1>3. CASE Before # {}
  <2> DEFINE S == {u.start - w.start : w \in Before}
  <2>1. S \in SUBSET Nat /\ S # {}
    BY <1>1, <1>3
  <2>2. PICK m \in S : \A k \in S : m <= k
    BY <2>1, Least
  <2>3. PICK w \in Before : m = u.start - w.start
    BY <2>2
  <2>4. \A x \in Before : x.start <= w.start
    <3> SUFFICES ASSUME NEW x \in Before PROVE x.start <= w.start
      OBVIOUS
    <3>1. m <= u.start - x.start
      BY <2>2
    <3> QED  BY <1>1, <2>3, <3>1
  <2> DEFINE v == CHOOSE w2 \in Before : \A x \in Before : x.start <= w2.start
  <2>5. v \in Before /\ \A x \in Before : x.start <= v.start
    BY <2>4
  <2>6. PrevEnd(u) = v.end
    BY <1>3 DEF PrevEnd
  <2> HIDE DEF v
  <2>7. v.end <= u.start
    BY <1>1, <2>5 DEF AreasDisjoint
  <2>8. \A x \in vmas : v.end <= x.start => u.start <= x.start
    BY <1>1, <2>5
  <2> QED  BY <2>5, <2>6, <2>7, <2>8 DEF Adjacent
<1> QED  BY <1>2, <1>3

\* Where scan places a new area: in an empty space, behind all areas, or in a gap
\* of at least n units.
Fits(s, n) ==
  \/ vmas = {} /\ s = Base
  \/ \E v \in vmas : s = v.end /\ \A x \in vmas : x.start <= v.start
  \/ \E u \in vmas : /\ u.start - s >= n
                      /\ \/ IsFirst(u) /\ s = Base
                         \/ \E v \in vmas : v.start < u.start /\ Adjacent(v, u) /\ s = v.end

LEMMA Placement ==
  ASSUME Shapes, WithinTop, AreasDisjoint, NEW n \in Nat \ {0}
  PROVE  Fits(LastEnd(n), n)
<1> DEFINE Gaps == {v \in vmas : Gap(v, n)}
<1>1. \A v \in vmas : /\ v.start \in Nat /\ v.end \in Int /\ v.end <= Top
                      /\ Base <= v.start /\ v.start < v.end
  BY AreaTypes, UnitAssumption DEF AreasDisjoint, WithinTop
<1>2. CASE Gaps # {}
  <2> DEFINE S == {w.start : w \in Gaps}
  <2>1. S \in SUBSET Nat /\ S # {}
    BY <1>1, <1>2
  <2>2. PICK m \in S : \A k \in S : m <= k
    BY <2>1, Least
  <2>3. \E v \in Gaps : \A w \in Gaps : v.start <= w.start
    BY <2>2
  <2> DEFINE u == CHOOSE v \in Gaps : \A w \in Gaps : v.start <= w.start
  <2>4. u \in Gaps
    BY <2>3
  <2>5. LastEnd(n) = PrevEnd(u)
    BY <1>2 DEF LastEnd
  <2> HIDE DEF u
  <2>6. u \in vmas /\ u.start - PrevEnd(u) >= n
    BY <2>4 DEF Gap
  <2> QED  BY <2>5, <2>6, Predecessor DEF Fits
<1>3. CASE Gaps = {} /\ vmas = {}
  BY <1>3 DEF LastEnd, Fits
<1>4. CASE Gaps = {} /\ vmas # {}
  <2> DEFINE S == {Top - w.start : w \in vmas}
  <2>1. S \in SUBSET Nat /\ S # {}
    BY <1>1, <1>4, UnitAssumption
  <2>2. PICK m \in S : \A k \in S : m <= k
    BY <2>1, Least
  <2>3. PICK w \in vmas : m = Top - w.start
    BY <2>2
  <2>4. \A x \in vmas : x.start <= w.start
    <3> SUFFICES ASSUME NEW x \in vmas PROVE x.start <= w.start
      OBVIOUS
    <3>1. m <= Top - x.start
      BY <2>2
    <3> QED  BY <1>1, <2>3, <3>1, UnitAssumption
  <2> DEFINE v == CHOOSE v \in vmas : \A x \in vmas : x.start <= v.start
  <2>5. v \in vmas /\ \A x \in vmas : x.start <= v.start
    BY <2>4
  <2>6. LastEnd(n) = v.end
    BY <1>4 DEF LastEnd
  <2> HIDE DEF v
  <2> QED  BY <2>5, <2>6 DEF Fits
<1> QED  BY <1>2, <1>3, <1>4

\* Whatever mmap asks for, the new area is clear of the others, although scan
\* looked for a smaller one, and all gaps stay whole.
LEMMA InsertedApart ==
  ASSUME Shapes, AreasDisjoint, GapsWhole, NEW n \in Nat \ {0}, NEW s, Fits(s, n),
         NEW a, a.start = s, a.end = s + ALIGN_UP(n), vmas' = vmas \cup {a}
  PROVE  s \in Int /\ AreasDisjoint' /\ GapsWhole'
<1> DEFINE k == ALIGN_UP(n)
<1>1. k \in Nat \ {0} /\ n <= k /\ Whole(k) /\ \A g \in Int : g >= n /\ Whole(g) => g >= k
  BY Rounding
<1>2. \A v \in vmas : v.start \in Int /\ v.end \in Int /\ Base <= v.start /\ v.start < v.end
  BY AreaTypes DEF AreasDisjoint
<1>3. Whole(0) /\ Base \in Int
  BY UnitAssumption DEF Whole
<1> HIDE DEF k
<1>4. CASE vmas = {} /\ s = Base
  <2>1. vmas' = {a} /\ a.start \in Int /\ a.end = a.start + k /\ a.start - Base = 0
    BY <1>3, <1>4 DEF k
  <2> QED  BY <1>1, <1>3, <1>4, <2>1 DEF AreasDisjoint, GapsWhole, Adjacent
<1>5. ASSUME NEW v \in vmas, s = v.end, \A x \in vmas : x.start <= v.start
      PROVE  s \in Int /\ AreasDisjoint' /\ GapsWhole'
  <2>1. \A x \in vmas : x = v \/ x.end <= v.start
    BY <1>2, <1>5 DEF AreasDisjoint
  <2>2. s \in Int /\ a.start = s /\ a.end = s + k /\ Base <= s
    BY <1>2, <1>3, <1>5 DEF k
  <2>3. AreasDisjoint'
    BY <1>1, <1>2, <1>5, <2>1, <2>2 DEF AreasDisjoint
  <2>4. ASSUME NEW w \in vmas', IsFirst(w)' PROVE Whole(w.start - Base)
    <3>1. w \in vmas
      BY <1>2, <1>5, <2>2, <2>4 DEF IsFirst
    <3> QED  BY <2>4, <3>1 DEF IsFirst, GapsWhole
  <2>5. ASSUME NEW x \in vmas', NEW w \in vmas', Adjacent(x, w)' PROVE Whole(w.start - x.end)
    <3>1. CASE x \in vmas /\ w \in vmas
      BY <2>5, <3>1 DEF Adjacent, GapsWhole
    <3>2. CASE x \in vmas /\ w = a
      <4>1. x = v
        BY <1>2, <1>5, <2>1, <2>2, <2>5, <3>2 DEF Adjacent
      <4>2. w.start - x.end = 0
        BY <1>2, <1>5, <2>2, <3>2, <4>1
      <4> QED  BY <1>3, <4>2
    <3>3. x # a
      BY <1>1, <1>2, <1>5, <2>2, <2>5 DEF Adjacent
    <3> QED  BY <3>1, <3>2, <3>3
  <2> QED  BY <2>2, <2>3, <2>4, <2>5 DEF GapsWhole
<1>6. ASSUME NEW u \in vmas, u.start - s >= n,
             \/ IsFirst(u) /\ s = Base
             \/ \E v \in vmas : v.start < u.start /\ Adjacent(v, u) /\ s = v.end
      PROVE  s \in Int /\ AreasDisjoint' /\ GapsWhole'
  <2>1. /\ s \in Int /\ Base <= s /\ Whole(u.start - s)
        /\ \A x \in vmas : s <= x.start => u.start <= x.start
    BY <1>2, <1>3, <1>6 DEF IsFirst, Adjacent, GapsWhole
  <2>2. /\ u.start >= s + k /\ a.start = s /\ a.end = s + k
        /\ u.start \in Int /\ u.start - s \in Int
    BY <1>1, <1>2, <1>6, <2>1 DEF k
  <2>3. \A x \in vmas : x.end <= s \/ u.start <= x.start
    <3>1. CASE IsFirst(u) /\ s = Base
      BY <3>1 DEF IsFirst
    <3>2. ASSUME NEW v \in vmas, v.start < u.start, Adjacent(v, u), s = v.end
          PROVE  \A x \in vmas : x.end <= s \/ u.start <= x.start
      BY <1>2, <3>2 DEF AreasDisjoint, Adjacent
    <3> QED  BY <1>6, <3>1, <3>2
  <2>4. AreasDisjoint'
    BY <1>1, <1>2, <2>1, <2>2, <2>3 DEF AreasDisjoint
  <2>5. ASSUME NEW w \in vmas', IsFirst(w)' PROVE Whole(w.start - Base)
    <3>1. CASE w \in vmas
      BY <2>5, <3>1 DEF IsFirst, GapsWhole
    <3>2. CASE w = a
      <4>1. s = Base
        BY <1>2, <1>6, <2>2, <2>5, <3>2 DEF IsFirst
      <4>2. w.start - Base = 0
        BY <1>3, <2>2, <3>2, <4>1
      <4> QED  BY <1>3, <4>2
    <3> QED  BY <3>1, <3>2
  <2>6. ASSUME NEW x \in vmas', NEW w \in vmas', Adjacent(x, w)' PROVE Whole(w.start - x.end)
    <3>1. CASE x \in vmas /\ w \in vmas
      BY <2>6, <3>1 DEF Adjacent, GapsWhole
    <3>2. CASE x \in vmas /\ w = a
      <4>1. x.end <= s
        BY <2>2, <2>6, <3>2 DEF Adjacent
      <4>2. PICK v \in vmas : v.start < u.start /\ Adjacent(v, u) /\ s = v.end
        BY <1>2, <1>3, <1>6, <3>2, <4>1
      <4>3. x = v
        BY <1>2, <2>2, <2>6, <3>2, <4>1, <4>2 DEF Adjacent, AreasDisjoint
      <4>4. w.start - x.end = 0
        BY <2>1, <2>2, <3>2, <4>2, <4>3
      <4> QED  BY <1>3, <4>4
    <3>3. CASE x = a /\ w \in vmas
      <4>1. s + k <= w.start /\ w.start <= u.start
        BY <2>2, <2>6, <3>3 DEF Adjacent
      <4>2. w.start = u.start
        BY <1>1, <1>2, <2>1, <4>1
      <4>3. w.start - x.end = (u.start - s) - k
        BY <1>1, <2>1, <2>2, <3>3, <4>2
      <4>4. Whole((u.start - s) - k)
        <5> DEFINE g == u.start - s
        <5>1. g \in Int /\ Whole(g) /\ k \in Int
          BY <1>1, <2>1, <2>2
        <5> HIDE DEF g
        <5>2. Whole(g - k)
          BY <1>1, <5>1, Multiples
        <5> QED  BY <5>2 DEF g
      <4> QED  BY <4>3, <4>4
    <3>4. ~(x = a /\ w = a)
      BY <1>1, <2>1, <2>2, <2>6 DEF Adjacent
    <3> QED  BY <3>1, <3>2, <3>3, <3>4
  <2> QED  BY <2>1, <2>4, <2>5, <2>6 DEF GapsWhole
<1> QED  BY <1>4, <1>5, <1>6, <1>3 DEF Fits

\* Gaps that a whole number of pages is added to stay whole.
LEMMA WholeSum ==
  ASSUME NEW a \in Int, NEW b \in Int, NEW c \in Int, Whole(b - a), Whole(c - b)
  PROVE  Whole(c - a)
<1> DEFINE d == b - a
           e == c - b
<1>1. d \in Int /\ e \in Int /\ Whole(d) /\ Whole(e) /\ c - a = e + d
  OBVIOUS
<1> HIDE DEF d, e
<1> QED  BY <1>1, Multiples

\* munmap of all of an area: the gaps on either side and the area become one.
LEMMA RemovedApart ==
  ASSUME Shapes, AreasDisjoint, GapsWhole, NEW v \in vmas, Whole(v.end - v.start),
         vmas' = vmas \ {v}
  PROVE  AreasDisjoint' /\ GapsWhole'
<1>1. \A w \in vmas : w.start \in Int /\ w.end \in Int /\ Base <= w.start /\ w.start < w.end
  BY AreaTypes DEF AreasDisjoint
<1>2. Base \in Int
  BY UnitAssumption
<1>3. AreasDisjoint'
  BY DEF AreasDisjoint
<1>4. ASSUME NEW w \in vmas', IsFirst(w)' PROVE Whole(w.start - Base)
  <2>1. CASE IsFirst(w)
    BY <2>1 DEF GapsWhole
  <2>2. CASE ~IsFirst(w)
    <3>1. IsFirst(v) /\ Adjacent(v, w)
      BY <1>1, <1>4, <2>2 DEF IsFirst, Adjacent, AreasDisjoint
    <3>2. Whole(v.start - Base) /\ Whole(w.start - v.end)
      BY <3>1 DEF GapsWhole
    <3>3. Whole(v.end - Base)
      BY <1>1, <1>2, <3>2, WholeSum
    <3> QED  BY <1>1, <1>2, <3>2, <3>3, WholeSum
  <2> QED  BY <2>1, <2>2
<1>5. ASSUME NEW x \in vmas', NEW w \in vmas', Adjacent(x, w)' PROVE Whole(w.start - x.end)
  <2>1. CASE Adjacent(x, w)
    BY <2>1 DEF GapsWhole
  <2>2. CASE ~Adjacent(x, w)
    <3>1. Adjacent(x, v) /\ Adjacent(v, w)
      BY <1>1, <1>5, <2>2 DEF Adjacent, AreasDisjoint
    <3>2. Whole(v.start - x.end) /\ Whole(w.start - v.end)
      BY <3>1 DEF GapsWhole
    <3>3. Whole(v.end - x.end)
      BY <1>1, <3>2, WholeSum
    <3> QED  BY <1>1, <3>2, <3>3, WholeSum
  <2> QED  BY <2>1, <2>2
<1> QED  BY <1>3, <1>4, <1>5 DEF GapsWhole

\* munmap at the beginning of an area.
LEMMA HeadCutApart ==
  ASSUME Shapes, AreasDisjoint, GapsWhole, NEW v \in vmas, NEW o, o.start \in Int,
         v.start <= o.start, o.start < v.end, o.end = v.end, Whole(o.start - v.start),
         vmas' = (vmas \ {v}) \cup {o}
  PROVE  AreasDisjoint' /\ GapsWhole'
<1>1. \A w \in vmas : w.start \in Int /\ w.end \in Int /\ Base <= w.start /\ w.start < w.end
  BY AreaTypes DEF AreasDisjoint
<1>2. Base \in Int
  BY UnitAssumption
<1>3. \A w \in vmas \ {v} : w.end <= v.start \/ v.end <= w.start
  BY <1>1 DEF AreasDisjoint
<1>4. AreasDisjoint'
  BY <1>1, <1>2, <1>3 DEF AreasDisjoint
<1>5. ASSUME NEW w \in vmas', IsFirst(w)' PROVE Whole(w.start - Base)
  <2>1. CASE w = o
    <3>1. IsFirst(v)
      BY <1>1, <1>3, <1>5, <2>1 DEF IsFirst
    <3>2. Whole(v.start - Base)
      BY <3>1 DEF GapsWhole
    <3> QED  BY <1>1, <1>2, <2>1, <3>2, WholeSum
  <2>2. CASE w # o
    <3>1. w \in vmas \ {v} /\ IsFirst(w)
      BY <1>1, <1>3, <1>5, <2>2 DEF IsFirst
    <3> QED  BY <3>1 DEF GapsWhole
  <2> QED  BY <2>1, <2>2
<1>6. ASSUME NEW x \in vmas', NEW w \in vmas', Adjacent(x, w)' PROVE Whole(w.start - x.end)
  <2>1. CASE w = o
    <3>1. x \in vmas \ {v} /\ Adjacent(x, v)
      BY <1>1, <1>3, <1>6, <2>1 DEF Adjacent
    <3>2. Whole(v.start - x.end)
      BY <3>1 DEF GapsWhole
    <3> QED  BY <1>1, <2>1, <3>1, <3>2, WholeSum
  <2>2. CASE w # o /\ x = o
    <3>1. w \in vmas /\ Adjacent(v, w)
      BY <1>1, <1>3, <1>6, <2>2 DEF Adjacent
    <3> QED  BY <2>2, <3>1 DEF GapsWhole
  <2>3. CASE w # o /\ x # o
    <3>1. w \in vmas /\ x \in vmas /\ Adjacent(x, w)
      BY <1>1, <1>3, <1>6, <2>3 DEF Adjacent
    <3> QED  BY <3>1 DEF GapsWhole
  <2> QED  BY <2>1, <2>2, <2>3
<1> QED  BY <1>4, <1>5, <1>6 DEF GapsWhole

\* munmap at the end of an area.
LEMMA TailCutApart ==
  ASSUME Shapes, AreasDisjoint, GapsWhole, NEW v \in vmas, NEW o, o.end \in Int,
         o.start = v.start, v.start < o.end, o.end <= v.end, Whole(v.end - o.end),
         vmas' = (vmas \ {v}) \cup {o}
  PROVE  AreasDisjoint' /\ GapsWhole'
<1>1. \A w \in vmas : w.start \in Int /\ w.end \in Int /\ Base <= w.start /\ w.start < w.end
  BY AreaTypes DEF AreasDisjoint
<1>2. Base \in Int
  BY UnitAssumption
<1>3. \A w \in vmas \ {v} : w.end <= v.start \/ v.end <= w.start
  BY <1>1 DEF AreasDisjoint
<1>4. AreasDisjoint'
  BY <1>1, <1>2, <1>3 DEF AreasDisjoint
<1>5. ASSUME NEW w \in vmas', IsFirst(w)' PROVE Whole(w.start - Base)
  <2>1. CASE w = o
    <3>1. IsFirst(v)
      BY <1>1, <1>3, <1>5, <2>1 DEF IsFirst
    <3> QED  BY <2>1, <3>1 DEF GapsWhole
  <2>2. CASE w # o
    <3>1. w \in vmas \ {v} /\ IsFirst(w)
      BY <1>1, <1>3, <1>5, <2>2 DEF IsFirst
    <3> QED  BY <3>1 DEF GapsWhole
  <2> QED  BY <2>1, <2>2
<1>6. ASSUME NEW x \in vmas', NEW w \in vmas', Adjacent(x, w)' PROVE Whole(w.start - x.end)
  <2>1. CASE x = o
    <3>1. w \in vmas \ {v} /\ Adjacent(v, w)
      BY <1>1, <1>3, <1>6, <2>1 DEF Adjacent
    <3>2. Whole(w.start - v.end)
      BY <3>1 DEF GapsWhole
    <3> QED  BY <1>1, <2>1, <3>1, <3>2, WholeSum
  <2>2. CASE x # o /\ w = o
    <3>1. x \in vmas /\ Adjacent(x, v)
      BY <1>1, <1>3, <1>6, <2>2 DEF Adjacent
    <3> QED  BY <2>2, <3>1 DEF GapsWhole
  <2>3. CASE w # o /\ x # o
    <3>1. w \in vmas /\ x \in vmas /\ Adjacent(x, w)
      BY <1>1, <1>3, <1>6, <2>3 DEF Adjacent
    <3> QED  BY <3>1 DEF GapsWhole
  <2> QED  BY <2>1, <2>2, <2>3
<1> QED  BY <1>4, <1>5, <1>6 DEF GapsWhole

\* munmap in the middle of an area: the hole is whole.
LEMMA SplitApart ==
  ASSUME Shapes, AreasDisjoint, GapsWhole, NEW v \in vmas, NEW o, NEW u,
         o.start = v.start, o.end \in Int, v.start < o.end, o.end <= u.start,
         u.start \in Int, u.start < v.end, u.end = v.end, Whole(u.start - o.end),
         vmas' = (vmas \ {v}) \cup {o, u}
  PROVE  AreasDisjoint' /\ GapsWhole'
<1>1. \A w \in vmas : w.start \in Int /\ w.end \in Int /\ Base <= w.start /\ w.start < w.end
  BY AreaTypes DEF AreasDisjoint
<1>2. Base \in Int
  BY UnitAssumption
<1>3. \A w \in vmas \ {v} : w.end <= v.start \/ v.end <= w.start
  BY <1>1 DEF AreasDisjoint
<1>4. AreasDisjoint'
  BY <1>1, <1>2, <1>3 DEF AreasDisjoint
<1>5. ASSUME NEW w \in vmas', IsFirst(w)' PROVE Whole(w.start - Base)
  <2>1. CASE w = o
    <3>1. IsFirst(v)
      BY <1>1, <1>3, <1>5, <2>1 DEF IsFirst
    <3> QED  BY <2>1, <3>1 DEF GapsWhole
  <2>2. CASE w # o
    <3>1. w \in vmas \ {v} /\ IsFirst(w)
      BY <1>1, <1>3, <1>5, <2>2 DEF IsFirst
    <3> QED  BY <3>1 DEF GapsWhole
  <2> QED  BY <2>1, <2>2
<1>6. ASSUME NEW x \in vmas', NEW w \in vmas', Adjacent(x, w)' PROVE Whole(w.start - x.end)
  <2>1. CASE x = o
    <3>1. w.start = u.start
      BY <1>1, <1>3, <1>6, <2>1 DEF Adjacent
    <3> QED  BY <2>1, <3>1
  <2>2. CASE x = u
    <3>1. w \in vmas /\ Adjacent(v, w)
      BY <1>1, <1>3, <1>6, <2>2 DEF Adjacent
    <3> QED  BY <2>2, <3>1 DEF GapsWhole
  <2>3. CASE x \notin {o, u} /\ w = o
    <3>1. x \in vmas /\ Adjacent(x, v)
      BY <1>1, <1>3, <1>6, <2>3 DEF Adjacent
    <3> QED  BY <2>3, <3>1 DEF GapsWhole
  <2>4. ~(x \notin {o, u} /\ w = u)
    BY <1>1, <1>3, <1>6 DEF Adjacent
  <2>5. CASE x \notin {o, u} /\ w \notin {o, u}
    <3>1. w \in vmas /\ x \in vmas /\ Adjacent(x, w)
      BY <1>1, <1>3, <1>6, <2>5 DEF Adjacent
    <3> QED  BY <3>1 DEF GapsWhole
  <2> QED  BY <2>1, <2>2, <2>3, <2>4, <2>5
<1> QED  BY <1>4, <1>5, <1>6 DEF GapsWhole

\* The first system call finds no area and an empty page table.
LEMMA InitIInv == Init => IInv
<1> SUFFICES ASSUME Init PROVE IInv
  OBVIOUS
<1>1. vmas = {} /\ DOMAIN mapped = {} /\ pool = Frames
  BY DEF Init
<1> QED
  BY <1>1 DEF IInv, Shapes, WithinTop, AreasDisjoint, GapsWhole, OffsetStable, PoolSound,
              FramesExclusive, Listed

\* mmap keeps the invariant: the new area has no page yet.
LEMMA MmapIInv ==
  ASSUME IInv, NEW n \in Nat \ {0}, NEW type \in {"anon", "file"}, NEW o \in Nat,
         do_sys_mmap(n, type, o)
  PROVE  IInv'
<1> DEFINE s == LastEnd(n)
           e == s + ALIGN_UP(n)
           a == [start |-> s, end |-> e, type |-> type, pgoff |-> o, pages |-> <<>>,
                 origin |-> s - o]
<1>1. /\ area = Idle /\ e <= Top /\ vmas' = vmas \cup {a}
      /\ UNCHANGED <<mapped, pool, area, page, prev, wild>>
  BY DEF do_sys_mmap
<1>2. Shapes /\ WithinTop /\ AreasDisjoint /\ GapsWhole
  BY DEF IInv
<1>3. Fits(s, n)
  BY <1>2, Placement
<1>4. /\ a.start = s /\ a.end = e /\ a.type = type /\ a.pgoff = o /\ a.pages = <<>>
      /\ a.origin = s - o
  OBVIOUS
<1> HIDE DEF a, s
<1>5. s \in Int /\ AreasDisjoint' /\ GapsWhole'
  BY <1>1, <1>2, <1>3, <1>4, InsertedApart
<1>6. e \in Int
  BY <1>5, Rounding
<1> HIDE DEF e
<1>7. Shapes' /\ WithinTop'
  <2>1. IsArea(a)
    BY <1>4, <1>5, <1>6 DEF a, IsArea
  <2> QED  BY <1>1, <1>2, <1>4, <2>1 DEF Shapes, WithinTop
<1>8. OffsetStable'
  BY <1>1, <1>4 DEF IInv, OffsetStable
<1>9. PoolSound' /\ FramesExclusive'
  BY <1>1 DEF IInv, PoolSound, FramesExclusive
<1>10. Listed'
  <2>1. Listed
    BY <1>1 DEF IInv, Stuck
  <2>2. a.pages \in Seq([start : Int, phys : Frames]) /\ 1..Len(a.pages) = {}
    BY <1>4
  <2>3. \A v \in vmas' : \A i \in 1..Len(v.pages) : v \in vmas
    BY <1>1, <2>2
  <2>4. \A v \in vmas' : v.pages \in Seq([start : Int, phys : Frames])
    BY <1>1, <2>1, <2>2 DEF Listed
  <2>5. \A v \in vmas' : \A i \in 1..Len(v.pages) :
          /\ v.pages[i].start \in DOMAIN mapped
          /\ mapped[v.pages[i].start] = Ram(v.pages[i].phys)
          /\ \A w \in vmas' : \A j \in 1..Len(w.pages) :
               w.pages[j].start = v.pages[i].start => w = v
    BY <2>1, <2>3 DEF Listed
  <2>6. \A q \in DOMAIN mapped : mapped[q][1] = "ram" =>
          \E v \in vmas' : \E i \in 1..Len(v.pages) : v.pages[i].start = q
    BY <1>1, <2>1 DEF Listed
  <2>7. mapped' = mapped
    BY <1>1
  <2> QED  BY <2>4, <2>5, <2>6, <2>7 DEF Listed, Ram
<1> QED  BY <1>5, <1>7, <1>8, <1>9, <1>10 DEF IInv

\* What cutting leaves of an area is an area, with the file at its place.
LEMMA UpperFacts ==
  ASSUME NEW v, IsArea(v), v.type = "file" => v.start - v.pgoff = v.origin,
         NEW addr \in Int, NEW k \in Int, NEW u, u = Upper(v, addr, k)
  PROVE  /\ u.start = addr + k /\ u.end = v.end /\ u.pages = <<>> /\ IsArea(u)
         /\ u.type = "file" => u.start - u.pgoff = u.origin
<1> DEFINE o == IF v.type = "file" THEN v.pgoff + (addr + k - v.start) ELSE v.pgoff
<1>1. u = [v EXCEPT !.start = addr + k, !.pages = <<>>, !.pgoff = o]
  BY DEF Upper, IsArea
<1>2. o \in Int /\ (v.type = "file" => addr + k - o = v.origin)
  BY DEF IsArea
<1> HIDE DEF o
<1>3. /\ u.start = addr + k /\ u.end = v.end /\ u.pages = <<>> /\ u.pgoff = o
      /\ u.type = v.type /\ u.origin = v.origin
  BY <1>1 DEF IsArea
<1>4. IsArea(u)
  <2> DEFINE a == [v EXCEPT !.start = addr + k]
             b == [a EXCEPT !.pages = <<>>]
  <2>1. IsArea(a)
    BY DEF IsArea
  <2> HIDE DEF a
  <2>2. IsArea(b)
    BY <2>1 DEF IsArea
  <2> HIDE DEF b
  <2>3. IsArea([b EXCEPT !.pgoff = o])
    BY <1>2, <2>2 DEF IsArea
  <2> QED  BY <1>1, <2>3 DEF a, b
<1> QED  BY <1>2, <1>3, <1>4

LEMMA CutFacts ==
  ASSUME NEW v, IsArea(v), v.type = "file" => v.start - v.pgoff = v.origin,
         NEW addr \in Int, NEW k \in Int, NEW o, o = Cut(v, addr, k)
  PROVE  /\ o.start = IF addr = v.start THEN v.start + k ELSE v.start
         /\ o.end = IF addr = v.start THEN v.end ELSE addr
         /\ o.pages = v.pages /\ IsArea(o)
         /\ o.type = "file" => o.start - o.pgoff = o.origin
<1>1. CASE addr = v.start
  <2> DEFINE p == IF v.type = "file" THEN v.pgoff + k ELSE v.pgoff
  <2>1. o = [v EXCEPT !.start = v.start + k, !.pgoff = p]
    BY <1>1 DEF Cut, IsArea
  <2>2. p \in Int /\ (v.type = "file" => v.start + k - p = v.origin)
    BY DEF IsArea
  <2> HIDE DEF p
  <2>3. /\ o.start = v.start + k /\ o.end = v.end /\ o.pages = v.pages /\ o.pgoff = p
        /\ o.type = v.type /\ o.origin = v.origin
    BY <2>1 DEF IsArea
  <2>4. IsArea(o)
    <3> DEFINE a == [v EXCEPT !.start = v.start + k]
    <3>1. IsArea(a)
      BY DEF IsArea
    <3> HIDE DEF a
    <3>2. IsArea([a EXCEPT !.pgoff = p])
      BY <2>2, <3>1 DEF IsArea
    <3> QED  BY <2>1, <3>2 DEF a
  <2> QED  BY <1>1, <2>2, <2>3, <2>4
<1>2. CASE addr # v.start
  BY <1>2 DEF Cut, IsArea
<1> QED  BY <1>1, <1>2

\* munmap keeps the invariant, up to the call of vma_cleanup: nothing is left of
\* the area, and vma_destroy unmaps exactly what it lists;
LEMMA DestroyIInv ==
  ASSUME IInv, area = Idle, NEW v \in vmas, Whole(v.end - v.start), vmas' = vmas \ {v},
         vma_destroy(v), UNCHANGED <<pool, area>>
  PROVE  IInv'
<1> DEFINE gone == {v.pages[i].start : i \in 1..Len(v.pages)}
<1>1. DOMAIN mapped' = DOMAIN mapped \ gone /\ \A p \in DOMAIN mapped' : mapped'[p] = mapped[p]
  BY DEF vma_destroy, Unmap
<1>2. AreasDisjoint' /\ GapsWhole'
  BY RemovedApart DEF IInv
<1>3. Shapes' /\ WithinTop' /\ OffsetStable'
  BY DEF IInv, Shapes, WithinTop, OffsetStable
<1>4. PoolSound' /\ FramesExclusive'
  BY <1>1 DEF IInv, PoolSound, FramesExclusive
<1>5. Listed
  BY DEF IInv, Stuck
<1>6. \A w \in vmas' : \A j \in 1..Len(w.pages) : w.pages[j].start \notin gone
  BY <1>5 DEF Listed
<1>7. \A w \in vmas' : w.pages \in Seq([start : Int, phys : Frames])
  BY <1>5 DEF Listed
<1>8. \A w \in vmas' : \A i \in 1..Len(w.pages) :
        /\ w.pages[i].start \in DOMAIN mapped'
        /\ mapped'[w.pages[i].start] = Ram(w.pages[i].phys)
        /\ \A x \in vmas' : \A j \in 1..Len(x.pages) :
             x.pages[j].start = w.pages[i].start => x = w
  <2> HIDE DEF gone
  <2> QED  BY <1>1, <1>5, <1>6 DEF Listed
<1>9. \A q \in DOMAIN mapped' : mapped'[q][1] = "ram" =>
        \E w \in vmas' : \E i \in 1..Len(w.pages) : w.pages[i].start = q
  <2> SUFFICES ASSUME NEW q \in DOMAIN mapped', mapped'[q][1] = "ram"
               PROVE  \E w \in vmas' : \E i \in 1..Len(w.pages) : w.pages[i].start = q
    OBVIOUS
  <2>1. q \in DOMAIN mapped /\ q \notin gone /\ mapped[q][1] = "ram"
    BY <1>1
  <2>2. PICK w \in vmas : \E i \in 1..Len(w.pages) : w.pages[i].start = q
    BY <1>5, <2>1 DEF Listed
  <2>3. w # v
    BY <2>1, <2>2
  <2> QED  BY <2>2, <2>3
<1>10. Listed'
  BY <1>7, <1>8, <1>9 DEF Listed, Ram
<1> QED  BY <1>2, <1>3, <1>4, <1>10 DEF IInv

\* or one or two parts remain, the list going to one of them.
LEMMA KeepIInv ==
  ASSUME IInv, area = Idle, NEW v \in vmas, NEW New, NEW o \in New,
         vmas' = (vmas \ {v}) \cup New, AreasDisjoint', GapsWhole',
         \A w \in New : /\ IsArea(w) /\ w.end <= v.end
                        /\ w.type = "file" => w.start - w.pgoff = w.origin
                        /\ w = o \/ w.pages = <<>>,
         o.pages = v.pages, UNCHANGED <<mapped, pool>>
  PROVE  IInv'
<1>1. Shapes' /\ OffsetStable'
  BY DEF IInv, Shapes, OffsetStable
<1>2. WithinTop'
  <2>1. \A w \in New : w.end \in Int
    BY DEF IsArea
  <2>2. v.end \in Int /\ v.end <= Top
    BY DEF IInv, Shapes, IsArea, WithinTop
  <2> QED  BY <2>1, <2>2, UnitAssumption DEF IInv, WithinTop
<1>3. PoolSound' /\ FramesExclusive'
  BY DEF IInv, PoolSound, FramesExclusive
<1>4. Listed
  BY DEF IInv, Stuck
<1>5. 1..Len(<<>>) = {} /\ <<>> \in Seq([start : Int, phys : Frames])
  OBVIOUS
<1>6. \A w \in vmas' : \A i \in 1..Len(w.pages) : w = o \/ w \in vmas \ {v}
  BY <1>5
<1>7. \A w \in vmas' : w.pages \in Seq([start : Int, phys : Frames])
  BY <1>4, <1>5 DEF Listed
<1>8. \A w \in vmas' : \A i \in 1..Len(w.pages) :
        /\ w.pages[i].start \in DOMAIN mapped
        /\ mapped[w.pages[i].start] = Ram(w.pages[i].phys)
        /\ \A x \in vmas' : \A j \in 1..Len(x.pages) :
             x.pages[j].start = w.pages[i].start => x = w
  BY <1>4, <1>6 DEF Listed
<1>10. \A q \in DOMAIN mapped : mapped[q][1] = "ram" =>
        \E w \in vmas' : \E i \in 1..Len(w.pages) : w.pages[i].start = q
  <2> SUFFICES ASSUME NEW q \in DOMAIN mapped, mapped[q][1] = "ram"
               PROVE  \E w \in vmas' : \E i \in 1..Len(w.pages) : w.pages[i].start = q
    OBVIOUS
  <2>1. PICK w \in vmas : \E i \in 1..Len(w.pages) : w.pages[i].start = q
    BY <1>4 DEF Listed
  <2> QED  BY <2>1
<1>11. mapped' = mapped
  OBVIOUS
<1>12. Listed'
  <2>1. (\A w \in vmas : w.pages \in Seq([start : Int, phys : Frames]))'
    BY <1>7
  <2>2. (\A w \in vmas : \A i \in 1..Len(w.pages) :
           /\ w.pages[i].start \in DOMAIN mapped
           /\ mapped[w.pages[i].start] = Ram(w.pages[i].phys)
           /\ \A x \in vmas : \A j \in 1..Len(x.pages) :
                x.pages[j].start = w.pages[i].start => x = w)'
    BY <1>8, <1>11 DEF Ram
  <2>3. (\A q \in DOMAIN mapped : mapped[q][1] = "ram" =>
           \E w \in vmas : \E i \in 1..Len(w.pages) : w.pages[i].start = q)'
    BY <1>10, <1>11
  <2> QED  BY <2>1, <2>2, <2>3, Zenon DEF Listed
<1> QED  BY <1>1, <1>2, <1>3, <1>12 DEF IInv

LEMMA MunmapIInv ==
  ASSUME IInv, NEW addr \in Nat, NEW length \in Nat \ {0}, do_sys_munmap(addr, length)
  PROVE  IInv'
<1> DEFINE k == ALIGN_UP(length)
<1>1. k \in Nat \ {0} /\ Whole(k)
  BY Rounding
<1> HIDE DEF k
<1>2. PICK v \in vma_find(addr) :
        LET o == Cut(v, addr, k)
            up == IF addr > v.start /\ addr + k < v.end THEN {Upper(v, addr, k)} ELSE {}
            rest == (vmas \ {v}) \cup up
        IN /\ addr + k <= v.end
           /\ \/ o.start >= o.end /\ vmas' = rest /\ vma_destroy(v) /\ UNCHANGED area
              \/ o.start < o.end /\ vmas' = rest \cup {o} /\ UNCHANGED mapped
  BY DEF do_sys_munmap, k
<1>3. /\ area = Idle /\ UNCHANGED pool
      /\ v \in vmas /\ v.start <= addr /\ addr < v.end
  BY DEF do_sys_munmap, vma_find, NearestLte, Inside
<1> DEFINE o == Cut(v, addr, k)
           u == Upper(v, addr, k)
<1>4. IsArea(v) /\ (v.type = "file" => v.start - v.pgoff = v.origin)
  BY <1>3 DEF IInv, Shapes, OffsetStable
<1>5. v.start \in Int /\ v.end \in Int /\ addr \in Int /\ k \in Int
  BY <1>1, <1>4 DEF IsArea
<1>6. /\ o.start = (IF addr = v.start THEN v.start + k ELSE v.start)
      /\ o.end = (IF addr = v.start THEN v.end ELSE addr)
      /\ o.pages = v.pages /\ IsArea(o)
      /\ o.type = "file" => o.start - o.pgoff = o.origin
  BY <1>4, <1>5, CutFacts
<1>7. /\ u.start = addr + k /\ u.end = v.end /\ u.pages = <<>> /\ IsArea(u)
      /\ u.type = "file" => u.start - u.pgoff = u.origin
  BY <1>4, <1>5, UpperFacts
<1>8. /\ addr + k <= v.end
      /\ \/ /\ o.start >= o.end /\ vma_destroy(v) /\ UNCHANGED area
            /\ vmas' = (vmas \ {v}) \cup (IF addr > v.start /\ addr + k < v.end THEN {u} ELSE {})
         \/ /\ o.start < o.end /\ UNCHANGED mapped
            /\ vmas' = ((vmas \ {v}) \cup (IF addr > v.start /\ addr + k < v.end THEN {u} ELSE {}))
                          \cup {o}
  BY <1>2
<1> HIDE DEF o, u
<1>9. CASE o.start >= o.end
  <2>1. addr = v.start /\ v.start + k = v.end
    BY <1>1, <1>3, <1>5, <1>6, <1>8, <1>9
  <2>2. v.end - v.start = k
    BY <1>5, <2>1
  <2>3. vmas' = vmas \ {v} /\ vma_destroy(v) /\ UNCHANGED area
    BY <1>5, <1>6, <1>8, <1>9, <2>1
  <2> QED  BY <1>1, <1>3, <2>2, <2>3, DestroyIInv
<1>10. CASE o.start < o.end /\ addr = v.start
  <2>1. vmas' = (vmas \ {v}) \cup {o} /\ UNCHANGED mapped
    BY <1>5, <1>6, <1>8, <1>10
  <2>2. o.start - v.start = k /\ o.start \in Int /\ v.start <= o.start /\ o.start < v.end
        /\ o.end = v.end
    BY <1>1, <1>5, <1>6, <1>10
  <2>3. AreasDisjoint' /\ GapsWhole'
    BY <1>1, <1>3, <2>1, <2>2, HeadCutApart DEF IInv
  <2>4. o.end <= v.end
    BY <1>5, <2>2
  <2> DEFINE New == {o}
  <2>5. o \in New /\ \A w \in New : w = o
    OBVIOUS
  <2>6. vmas' = (vmas \ {v}) \cup New
    BY <2>1
  <2> HIDE DEF New
  <2> QED  BY <1>3, <1>6, <2>1, <2>3, <2>4, <2>5, <2>6, KeepIInv
<1>11. CASE addr > v.start /\ addr + k = v.end
  <2>1. vmas' = (vmas \ {v}) \cup {o} /\ UNCHANGED mapped
    BY <1>5, <1>6, <1>8, <1>11
  <2>2. /\ v.end - o.end = k /\ o.end \in Int /\ v.start < o.end /\ o.end <= v.end
        /\ o.start = v.start
    BY <1>1, <1>5, <1>6, <1>11
  <2>3. AreasDisjoint' /\ GapsWhole'
    BY <1>1, <1>3, <2>1, <2>2, TailCutApart DEF IInv
  <2> DEFINE New == {o}
  <2>5. o \in New /\ \A w \in New : w = o
    OBVIOUS
  <2>6. vmas' = (vmas \ {v}) \cup New
    BY <2>1
  <2> HIDE DEF New
  <2> QED  BY <1>3, <1>6, <2>1, <2>2, <2>3, <2>5, <2>6, KeepIInv
<1>12. CASE addr > v.start /\ addr + k < v.end
  <2> DEFINE New == {o, u}
  <2>1. vmas' = (vmas \ {v}) \cup {o, u} /\ UNCHANGED mapped
    BY <1>5, <1>6, <1>8, <1>12
  <2>2. /\ u.start - o.end = k /\ o.end \in Int /\ u.start \in Int /\ v.start < o.end
        /\ o.end <= u.start /\ u.start < v.end /\ o.end <= v.end /\ o.start = v.start
        /\ u.end <= v.end
    BY <1>1, <1>5, <1>6, <1>7, <1>12
  <2>3. AreasDisjoint' /\ GapsWhole'
    BY <1>1, <1>3, <1>7, <2>1, <2>2, SplitApart DEF IInv
  <2>5. o \in New /\ \A w \in New : w = o \/ w = u
    OBVIOUS
  <2>6. vmas' = (vmas \ {v}) \cup New
    BY <2>1
  <2> HIDE DEF New
  <2>7. \A w \in New : /\ IsArea(w) /\ w.end <= v.end
                       /\ w.type = "file" => w.start - w.pgoff = w.origin
                       /\ w = o \/ w.pages = <<>>
    BY <1>6, <1>7, <2>2, <2>5
  <2> QED  BY <1>3, <1>6, <2>1, <2>3, <2>5, <2>6, <2>7, KeepIInv
<1>13. /\ o.start < o.end \/ o.start >= o.end
       /\ addr = v.start \/ addr > v.start
       /\ addr + k = v.end \/ addr + k < v.end
  BY <1>3, <1>5, <1>6, <1>8
<1> QED  BY <1>9, <1>10, <1>11, <1>12, <1>13

\* An area that changes only its list keeps its place.
LEMMA Relisted ==
  ASSUME IInv, NEW v \in vmas, NEW l, NEW o, o = [v EXCEPT !.pages = l],
         vmas' = (vmas \ {v}) \cup {o}
  PROVE  /\ o.start = v.start /\ o.end = v.end /\ o.pages = l
         /\ Shapes' /\ WithinTop' /\ AreasDisjoint' /\ GapsWhole' /\ OffsetStable'
<1>1. IsArea(v)
  BY DEF IInv, Shapes
<1>2. /\ o.start = v.start /\ o.end = v.end /\ o.pages = l /\ o.type = v.type
      /\ o.pgoff = v.pgoff /\ o.origin = v.origin
  BY <1>1 DEF IsArea
<1>3. IsArea(o)
  BY <1>1, <1>2 DEF IsArea
<1>4. v.start \in Int /\ v.end \in Int /\ v.start < v.end
  BY <1>1 DEF IInv, AreasDisjoint, IsArea
<1>5. v.end - o.end = 0 /\ Whole(0)
  <2>1. 0 = PageUnits * 0 + 0 /\ 0 \in 0..(PageUnits - 1)
    BY UnitAssumption
  <2> QED  BY <1>2, <1>4, <2>1, Remainder DEF Whole
<1>6. o.end \in Int /\ o.start = v.start /\ v.start < o.end /\ o.end <= v.end
  BY <1>2, <1>4
<1>7. AreasDisjoint' /\ GapsWhole'
  BY <1>5, <1>6, TailCutApart DEF IInv
<1>8. Shapes' /\ WithinTop' /\ OffsetStable'
  BY <1>2, <1>3 DEF IInv, Shapes, WithinTop, OffsetStable
<1> QED  BY <1>2, <1>7, <1>8

\* Two areas that start at the same address are one.
LEMMA SameStart ==
  ASSUME IInv, NEW v \in vmas, NEW w \in vmas, v.start = w.start
  PROVE  v = w
<1>1. v.start \in Int /\ v.end \in Int /\ w.start \in Int /\ w.end \in Int
  BY AreaTypes DEF IInv
<1> QED  BY <1>1 DEF IInv, AreasDisjoint

\* A page fault in an anonymous area keeps the invariant: the frame was the
\* PMM's, and the page was nobody's.
LEMMA FaultAnonIInv ==
  ASSUME IInv, area = Idle, NEW p \in Int, p \notin DOMAIN mapped, NEW v \in vmas,
         FaultAnon(v, p)
  PROVE  IInv'
<1>1. PICK f \in pool :
        /\ pool' = pool \ {f}
        /\ mapped' = [q \in DOMAIN mapped \cup {p} |-> IF q = p THEN Ram(f) ELSE mapped[q]]
        /\ vmas' = (vmas \ {v}) \cup
                   {[v EXCEPT !.pages = Append(v.pages, [start |-> p, phys |-> f])]}
  BY DEF FaultAnon, TakeFrame
<1> DEFINE node == [start |-> p, phys |-> f]
           l == Append(v.pages, node)
           o == [v EXCEPT !.pages = l]
<1>2. vmas' = (vmas \ {v}) \cup {o}
  BY <1>1
<1>3. /\ o.start = v.start /\ o.end = v.end /\ o.pages = l
      /\ Shapes' /\ WithinTop' /\ AreasDisjoint' /\ GapsWhole' /\ OffsetStable'
  BY <1>2, Relisted
<1>4. f \in Frames /\ PoolSound'
  BY <1>1 DEF IInv, PoolSound
<1>5. /\ DOMAIN mapped' = DOMAIN mapped \cup {p} /\ mapped'[p] = Ram(f)
      /\ \A q \in DOMAIN mapped : mapped'[q] = mapped[q]
  BY <1>1
<1>6. FramesExclusive'
  <2>1. \A g : Ram(f) = Ram(g) => f = g
    BY DEF Ram
  <2>2. \A q \in DOMAIN mapped, g \in Frames : mapped[q] = Ram(g) => g # f /\ g \notin pool'
    BY <1>1 DEF IInv, FramesExclusive
  <2>3. \A q, r \in DOMAIN mapped', g \in Frames :
          mapped'[q] = Ram(g) => g \notin pool' /\ (mapped'[r] = Ram(g) => q = r)
    BY <1>1, <1>5, <2>1, <2>2 DEF IInv, FramesExclusive
  <2> QED  BY <2>3 DEF FramesExclusive, Ram
<1>7. Listed
  BY DEF IInv, Stuck
<1>8. /\ v.pages \in Seq([start : Int, phys : Frames]) /\ node \in [start : Int, phys : Frames]
      /\ node.start = p /\ node.phys = f
  BY <1>4, <1>7 DEF Listed
<1>9. /\ l \in Seq([start : Int, phys : Frames]) /\ Len(l) = Len(v.pages) + 1
      /\ l[Len(v.pages) + 1] = node /\ Len(v.pages) \in Nat
      /\ \A i \in 1..Len(v.pages) : l[i] = v.pages[i]
  <2> HIDE DEF node
  <2> QED  BY <1>8
<1> HIDE DEF o, l, node
<1>10. \A w \in vmas' : w.pages \in Seq([start : Int, phys : Frames])
  BY <1>2, <1>3, <1>7, <1>9 DEF Listed
<1>11. \A w \in vmas' : \A i \in 1..Len(w.pages) :
         \/ w = o /\ w.pages[i] = node
         \/ /\ w.pages[i].start \in DOMAIN mapped
            /\ mapped[w.pages[i].start] = Ram(w.pages[i].phys)
            /\ w = o => i \in 1..Len(v.pages) /\ w.pages[i] = v.pages[i]
            /\ w # o => w \in vmas \ {v}
  <2> SUFFICES ASSUME NEW w \in vmas', NEW i \in 1..Len(w.pages)
               PROVE  \/ w = o /\ w.pages[i] = node
                      \/ /\ w.pages[i].start \in DOMAIN mapped
                         /\ mapped[w.pages[i].start] = Ram(w.pages[i].phys)
                         /\ w = o => i \in 1..Len(v.pages) /\ w.pages[i] = v.pages[i]
                         /\ w # o => w \in vmas \ {v}
    OBVIOUS
  <2>1. CASE w # o
    <3>1. w \in vmas \ {v}
      BY <1>2, <2>1
    <3>2. w.pages[i].start \in DOMAIN mapped /\ mapped[w.pages[i].start] = Ram(w.pages[i].phys)
      BY <1>7, <3>1 DEF Listed
    <3> QED  BY <2>1, <3>1, <3>2
  <2>2. CASE w = o /\ i = Len(v.pages) + 1
    BY <1>3, <1>9, <2>2
  <2>3. CASE w = o /\ i \in 1..Len(v.pages)
    <3>1. w.pages[i] = v.pages[i]
      BY <1>3, <1>9, <2>3
    <3>2. v.pages[i].start \in DOMAIN mapped /\ mapped[v.pages[i].start] = Ram(v.pages[i].phys)
      BY <1>7, <2>3 DEF Listed
    <3> QED  BY <2>3, <3>1, <3>2
  <2>4. w = o => i \in 1..Len(v.pages) \/ i = Len(v.pages) + 1
    BY <1>3, <1>9
  <2> QED  BY <2>1, <2>2, <2>3, <2>4
<1>12. (\A w \in vmas : \A i \in 1..Len(w.pages) :
          /\ w.pages[i].start \in DOMAIN mapped
          /\ mapped[w.pages[i].start] = Ram(w.pages[i].phys)
          /\ \A x \in vmas : \A j \in 1..Len(x.pages) :
               x.pages[j].start = w.pages[i].start => x = w)'
  <2>1. \A w \in vmas' : \A i \in 1..Len(w.pages) :
          /\ w.pages[i].start \in DOMAIN mapped'
          /\ mapped'[w.pages[i].start] = Ram(w.pages[i].phys)
    BY <1>5, <1>8, <1>11
  <2>2. ASSUME NEW w \in vmas', NEW i \in 1..Len(w.pages), NEW x \in vmas',
               NEW j \in 1..Len(x.pages), x.pages[j].start = w.pages[i].start, x # w
        PROVE  FALSE
    <3>1. w.pages[i].start # p /\ x.pages[j].start # p
      BY <1>8, <1>11, <2>2
    <3>2. /\ w = o => i \in 1..Len(v.pages) /\ w.pages[i] = v.pages[i]
          /\ w # o => w \in vmas \ {v}
      BY <1>8, <1>11, <3>1
    <3>3. /\ x = o => j \in 1..Len(v.pages) /\ x.pages[j] = v.pages[j]
          /\ x # o => x \in vmas \ {v}
      BY <1>8, <1>11, <3>1
    <3>4. \A y, z \in vmas : \A m \in 1..Len(y.pages), n \in 1..Len(z.pages) :
            y.pages[m].start = z.pages[n].start => y = z
      BY <1>7 DEF Listed
    <3>5. CASE w = o
      <4>1. x \in vmas /\ x # v /\ i \in 1..Len(v.pages) /\ w.pages[i] = v.pages[i]
        BY <2>2, <3>2, <3>3, <3>5
      <4> QED  BY <2>2, <3>4, <4>1
    <3>6. CASE x = o
      <4>1. w \in vmas /\ w # v /\ j \in 1..Len(v.pages) /\ x.pages[j] = v.pages[j]
        BY <2>2, <3>2, <3>3, <3>6
      <4> QED  BY <2>2, <3>4, <4>1
    <3>7. CASE w # o /\ x # o
      BY <2>2, <3>2, <3>3, <3>4, <3>7
    <3> QED  BY <3>5, <3>6, <3>7
  <2>3. \A w \in vmas' : \A i \in 1..Len(w.pages) : \A x \in vmas' : \A j \in 1..Len(x.pages) :
          x.pages[j].start = w.pages[i].start => x = w
    BY <2>2
  <2> QED  BY <2>1, <2>3 DEF Ram
<1>13. (\A q \in DOMAIN mapped : mapped[q][1] = "ram" =>
          \E w \in vmas : \E i \in 1..Len(w.pages) : w.pages[i].start = q)'
  <2> SUFFICES ASSUME NEW q \in DOMAIN mapped', mapped'[q][1] = "ram"
               PROVE  \E w \in vmas' : \E i \in 1..Len(w.pages) : w.pages[i].start = q
    OBVIOUS
  <2>1. o \in vmas' /\ o.pages = l
    BY <1>2, <1>3
  <2>2. CASE q = p
    <3>1. Len(l) \in 1..Len(l) /\ l[Len(l)].start = p
      BY <1>8, <1>9
    <3> QED  BY <2>1, <2>2, <3>1
  <2>3. CASE q # p
    <3>1. PICK w \in vmas : \E i \in 1..Len(w.pages) : w.pages[i].start = q
      BY <1>5, <1>7, <2>3 DEF Listed
    <3>2. CASE w # v
      BY <1>2, <3>1, <3>2
    <3>3. CASE w = v
      <4>1. PICK i \in 1..Len(v.pages) : v.pages[i].start = q
        BY <3>1, <3>3
      <4>2. i \in 1..Len(l) /\ l[i].start = q
        BY <1>9, <4>1
      <4> QED  BY <2>1, <4>2
    <3> QED  BY <3>2, <3>3
  <2> QED  BY <2>2, <2>3
<1>14. Listed'
  BY <1>10, <1>12, <1>13, Zenon DEF Listed
<1> QED  BY <1>3, <1>4, <1>6, <1>14 DEF IInv

\* A page fault in a file area lists nothing and takes no frame.
LEMMA FaultFileIInv ==
  ASSUME IInv, area = Idle, NEW p, p \notin DOMAIN mapped, NEW v \in vmas, FaultFile(v, p)
  PROVE  IInv'
<1> DEFINE k == fb_offset(v, p) \div PageUnits
<1>1. /\ DOMAIN mapped' = DOMAIN mapped \cup {p} /\ mapped'[p] = Fb(k)
      /\ \A q \in DOMAIN mapped : mapped'[q] = mapped[q]
      /\ vmas' = vmas /\ pool' = pool
  BY DEF FaultFile
<1> HIDE DEF k
<1>2. \A f : Fb(k) # Ram(f) /\ Fb(k)[1] # "ram"
  BY DEF Fb, Ram
<1>3. FramesExclusive'
  <2>1. \A q \in DOMAIN mapped', f \in Frames : mapped'[q] = Ram(f) =>
          q \in DOMAIN mapped /\ mapped[q] = Ram(f)
    BY <1>1, <1>2
  <2>2. \A q, r \in DOMAIN mapped', f \in Frames :
          mapped'[q] = Ram(f) => f \notin pool' /\ (mapped'[r] = Ram(f) => q = r)
    BY <1>1, <2>1 DEF IInv, FramesExclusive
  <2> QED  BY <2>2 DEF FramesExclusive, Ram
<1>4. Shapes' /\ WithinTop' /\ AreasDisjoint' /\ GapsWhole' /\ OffsetStable' /\ PoolSound'
  BY <1>1 DEF IInv, Shapes, WithinTop, AreasDisjoint, GapsWhole, IsFirst, Adjacent,
              OffsetStable, PoolSound
<1>5. Listed
  BY DEF IInv, Stuck
<1>6. (\A w \in vmas : \A i \in 1..Len(w.pages) :
          /\ w.pages[i].start \in DOMAIN mapped
          /\ mapped[w.pages[i].start] = Ram(w.pages[i].phys)
          /\ \A x \in vmas : \A j \in 1..Len(x.pages) :
               x.pages[j].start = w.pages[i].start => x = w)'
  BY <1>1, <1>5 DEF Listed, Ram
<1>7. (\A q \in DOMAIN mapped : mapped[q][1] = "ram" =>
          \E w \in vmas : \E i \in 1..Len(w.pages) : w.pages[i].start = q)'
  BY <1>1, <1>2, <1>5 DEF Listed
<1>8. (\A w \in vmas : w.pages \in Seq([start : Int, phys : Frames]))'
  BY <1>1, <1>5 DEF Listed
<1>9. Listed'
  BY <1>6, <1>7, <1>8, Zenon DEF Listed
<1> QED  BY <1>3, <1>4, <1>9 DEF IInv

LEMMA FaultIInv ==
  ASSUME IInv, NEW addr \in Int, page_fault_handler(addr)
  PROVE  IInv'
<1> DEFINE p == ALIGN_DOWN(addr)
<1>1. p \in Int
  BY Division, UnitAssumption DEF ALIGN_DOWN
<1>2. PICK v \in vma_find(addr) : FaultAnon(v, p) \/ FaultFile(v, p)
  BY DEF page_fault_handler
<1>3. area = Idle /\ p \notin DOMAIN mapped /\ v \in vmas
  BY DEF page_fault_handler, vma_find, NearestLte
<1> HIDE DEF p
<1> QED  BY <1>1, <1>2, <1>3, FaultAnonIInv, FaultFileIInv

\* A step that leaves the areas, the page table and the PMM alone.
LEMMA Unmoved ==
  ASSUME IInv, UNCHANGED <<vmas, mapped, pool>>, Listed \/ Stuck'
  PROVE  IInv'
<1>1. Shapes' /\ WithinTop' /\ AreasDisjoint' /\ GapsWhole' /\ OffsetStable' /\ PoolSound'
  BY DEF IInv, Shapes, WithinTop, AreasDisjoint, GapsWhole, IsFirst, Adjacent,
         OffsetStable, PoolSound
<1>2. FramesExclusive'
  BY DEF IInv, FramesExclusive, Ram
<1>3. ASSUME Listed PROVE Listed'
  <2>1. vmas' = vmas /\ mapped' = mapped
    OBVIOUS
  <2>2. (\A w \in vmas : w.pages \in Seq([start : Int, phys : Frames]))'
    BY <1>3, <2>1 DEF Listed
  <2>3. (\A w \in vmas : \A i \in 1..Len(w.pages) :
           /\ w.pages[i].start \in DOMAIN mapped
           /\ mapped[w.pages[i].start] = Ram(w.pages[i].phys)
           /\ \A x \in vmas : \A j \in 1..Len(x.pages) :
                x.pages[j].start = w.pages[i].start => x = w)'
    BY <1>3, <2>1 DEF Listed, Ram
  <2>4. (\A q \in DOMAIN mapped : mapped[q][1] = "ram" =>
           \E w \in vmas : \E i \in 1..Len(w.pages) : w.pages[i].start = q)'
    BY <1>3, <2>1 DEF Listed
  <2> QED  BY <2>2, <2>3, <2>4, Zenon DEF Listed
<1> QED  BY <1>1, <1>2, <1>3 DEF IInv

\* vma_cleanup keeps the invariant: a page inside the area changes nothing, and
\* from a page outside it never moves on.
LEMMA CleanIInv ==
  ASSUME IInv, CleanStep
  PROVE  IInv'
<1>1. CASE CleanEnd
  <2>1. Listed /\ UNCHANGED <<vmas, mapped, pool>>
    BY <1>1 DEF CleanEnd, IInv, Stuck
  <2> QED  BY <2>1, Unmoved
<1>2. CASE area # Idle /\ page # Null
           /\ \E v \in vmas : v.start = area /\ (CleanKeep(v) \/ CleanDrop(v))
  <2>1. PICK v \in vmas : v.start = area /\ (CleanKeep(v) \/ CleanDrop(v))
    BY <1>2
  <2>2. CASE CleanKeep(v)
    <3>1. Listed /\ UNCHANGED <<vmas, mapped, pool>>
      BY <2>1, <2>2 DEF CleanKeep, IInv, Stuck
    <3> QED  BY <3>1, Unmoved
  <2>3. CASE CleanDrop(v)
    <3>1. /\ ~Inside(v, page.start) /\ UNCHANGED <<pool, area, page>>
          /\ DOMAIN mapped' = DOMAIN mapped \ {page.start}
          /\ \A p \in DOMAIN mapped' : mapped'[p] = mapped[p]
      BY <2>3 DEF CleanDrop, Unmap
    <3>2. PoolSound' /\ FramesExclusive'
      BY <3>1 DEF IInv, PoolSound, FramesExclusive, Ram
    <3>3. CASE prev = Uninitialised
      <4>1. vmas' = vmas
        BY <2>3, <3>3 DEF CleanDrop
      <4>2. \A w \in vmas : w.start = area => ~Inside(w, page.start)
        BY <2>1, <3>1, SameStart
      <4>3. Stuck'
        BY <1>2, <3>1, <4>1, <4>2 DEF Stuck
      <4> QED
        BY <3>2, <4>1, <4>3 DEF IInv, Shapes, WithinTop, AreasDisjoint, GapsWhole, IsFirst,
                                Adjacent, OffsetStable
    <3>4. CASE prev # Uninitialised
      <4> DEFINE l == SelectSeq(v.pages, LAMBDA n : n # page)
                 o == [v EXCEPT !.pages = l]
      <4>1. vmas' = (vmas \ {v}) \cup {o}
        BY <2>3, <3>4 DEF CleanDrop
      <4> HIDE DEF l
      <4>2. /\ o.start = v.start /\ o.end = v.end
            /\ Shapes' /\ WithinTop' /\ AreasDisjoint' /\ GapsWhole' /\ OffsetStable'
        BY <4>1, Relisted
      <4> HIDE DEF o
      <4>3. \A w \in vmas' : w.start = area => ~Inside(w, page.start)
        BY <2>1, <3>1, <4>1, <4>2, SameStart DEF Inside
      <4>4. Stuck'
        BY <1>2, <3>1, <4>3 DEF Stuck, Inside
      <4> QED  BY <3>2, <4>2, <4>4 DEF IInv
    <3> QED  BY <3>3, <3>4
  <2> QED  BY <2>1, <2>2, <2>3
<1> QED  BY <1>1, <1>2 DEF CleanStep

LEMMA StepIInv == IInv /\ [Next]_vars => IInv'
<1> SUFFICES ASSUME IInv, [Next]_vars PROVE IInv'
  OBVIOUS
<1>1. ASSUME NEW n \in Lengths, do_sys_mmap(n, "anon", 0) PROVE IInv'
  BY <1>1, MmapIInv, InputAssumption
<1>2. ASSUME NEW n \in Lengths, NEW o \in Offsets, do_sys_mmap(n, "file", o) PROVE IInv'
  BY <1>2, MmapIInv, InputAssumption
<1>3. ASSUME NEW a \in UnmapAddrs, NEW n \in Lengths, do_sys_munmap(a, n) PROVE IInv'
  BY <1>3, MunmapIInv, InputAssumption
<1>4. ASSUME NEW a \in Base..(Top - 1), page_fault_handler(a) PROVE IInv'
  BY <1>4, FaultIInv, UnitAssumption
<1>5. CASE UNCHANGED vars
  <2>1. UNCHANGED <<vmas, mapped, pool, area, page>>
    BY <1>5 DEF vars
  <2>2. Stuck => Stuck'
    BY <2>1 DEF Stuck, Inside
  <2> QED  BY <2>1, <2>2, Unmoved DEF IInv
<1> QED  BY <1>1, <1>2, <1>3, <1>4, <1>5, CleanIInv DEF Next

LEMMA Invariance == Spec => []IInv
BY InitIInv, StepIInv, PTL DEF Spec

\* No sequence of mmap, munmap and faults makes two areas overlap: mmap's search
\* for the unrounded length finds room for the rounded one, since gaps are whole.
THEOREM Disjoint == Spec => []AreasDisjoint
<1>1. IInv => AreasDisjoint
  BY DEF IInv
<1> QED  BY <1>1, Invariance, PTL

\* vma_find's search by start finds the area of every address.
THEOREM Found == Spec => []FindAgrees
<1>1. IInv => FindAgrees
  <2> SUFFICES ASSUME IInv, NEW a \in Base..Top
               PROVE  vma_find(a) = {v \in vmas : Inside(v, a)}
    BY DEF FindAgrees
  <2>1. \A v \in vmas : v.start \in Int /\ v.end \in Int /\ v.start < v.end
    BY AreaTypes DEF IInv, AreasDisjoint
  <2>2. a \in Int
    BY UnitAssumption
  <2>3. ASSUME NEW v \in vmas, Inside(v, a), NEW w \in vmas, w.start <= a
        PROVE  w.start <= v.start
    BY <2>1, <2>2, <2>3 DEF IInv, AreasDisjoint, Inside
  <2>4. \A v \in vmas : Inside(v, a) => v \in NearestLte(a)
    BY <2>3 DEF NearestLte, Inside
  <2> QED  BY <2>4 DEF vma_find, NearestLte
<1> QED  BY <1>1, Invariance, PTL

\* Both parts of a cut file area show the file where it was.
THEOREM OffsetKept == Spec => []OffsetStable
<1>1. IInv => OffsetStable
  BY DEF IInv
<1> QED  BY <1>1, Invariance, PTL

\* A frame is behind one user page, and not in the PMM.
THEOREM FrameOwned == Spec => []FramesExclusive
<1>1. IInv => FramesExclusive
  BY DEF IInv
<1> QED  BY <1>1, Invariance, PTL

\* Between system calls the anonymous pages mapped are those the areas list.
THEOREM ListsExact == Spec => []PagesListed
<1>1. IInv => PagesListed
  <2> SUFFICES ASSUME IInv, area = Idle
               PROVE  {<<p, mapped[p]>> : p \in {q \in DOMAIN mapped : mapped[q][1] = "ram"}} =
                      {<<n.start, Ram(n.phys)>> : n \in UNION {Range(v.pages) : v \in vmas}}
    BY DEF PagesListed
  <2>1. Listed
    BY DEF IInv, Stuck
  <2>2. \A v \in vmas : Range(v.pages) = {v.pages[i] : i \in 1..Len(v.pages)}
    BY <2>1 DEF Listed, Range
  <2>3. ASSUME NEW p \in DOMAIN mapped, mapped[p][1] = "ram"
        PROVE  \E n \in UNION {Range(v.pages) : v \in vmas} :
                 <<p, mapped[p]>> = <<n.start, Ram(n.phys)>>
    <3>1. PICK v \in vmas : \E i \in 1..Len(v.pages) : v.pages[i].start = p
      BY <2>1, <2>3 DEF Listed
    <3>2. PICK i \in 1..Len(v.pages) : v.pages[i].start = p
      BY <3>1
    <3>3. mapped[p] = Ram(v.pages[i].phys)
      BY <2>1, <3>2 DEF Listed
    <3>4. v.pages[i] \in UNION {Range(w.pages) : w \in vmas}
      BY <2>2
    <3> QED  BY <3>2, <3>3, <3>4
  <2>4. ASSUME NEW n \in UNION {Range(v.pages) : v \in vmas}
        PROVE  n.start \in DOMAIN mapped /\ mapped[n.start] = Ram(n.phys)
    <3>1. PICK v \in vmas : n \in Range(v.pages)
      OBVIOUS
    <3>2. PICK i \in 1..Len(v.pages) : n = v.pages[i]
      BY <2>2, <3>1
    <3> QED  BY <2>1, <3>2 DEF Listed
  <2>5. \A f : Ram(f)[1] = "ram"
    BY DEF Ram
  <2> QED  BY <2>3, <2>4, <2>5
<1> QED  BY <1>1, Invariance, PTL
============================================================================
