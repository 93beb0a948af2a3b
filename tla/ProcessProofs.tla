---------------------------- MODULE ProcessProofs ----------------------------
(***************************************************************************)
(* Proofs about Process, for every radix of the tables, number of frames,  *)
(* set of images and size of the stack.                                    *)
(***************************************************************************)
EXTENDS Process, FiniteSetTheorems, WellFoundedInduction, TLAPS

Half == Radix \div 2

\* The number of the entry at level k on the way to page v, counted through all
\* tables of that level: what two pages that share it have in common.
Prefix(v, k) == v \div Span(k)

-----------------------------------------------------------------------------
\* Arithmetic of table indices.

LEMMA Division ==
  ASSUME NEW a \in Nat, NEW b \in Nat \ {0}
  PROVE  /\ a \div b \in Nat /\ a % b \in Nat
         /\ a % b < b
         /\ a = (b * (a \div b)) + (a % b)
BY SMT

LEMMA DivisionUnique ==
  ASSUME NEW a \in Nat, NEW b \in Nat \ {0}, NEW q \in Nat, NEW r \in Nat,
         r < b, a = (b * q) + r
  PROVE  a \div b = q /\ a % b = r
BY SMT

LEMMA DivDiv ==
  ASSUME NEW a \in Nat, NEW b \in Nat \ {0}, NEW c \in Nat \ {0}
  PROVE  (a \div b) \div c = a \div (c * b)
BY SMT

LEMMA RadixHalf ==
  /\ Radix \in Nat \ {0} /\ Half \in Nat \ {0} /\ Radix = 2 * Half
  /\ Half \in Entry
BY TreeAssumption DEF Half, Entry

LEMMA Spans ==
  /\ \A k \in 0..4 : Span(k) \in Nat \ {0}
  /\ \A k \in 1..4 : Span(k - 1) = Radix * Span(k)
  /\ Span(4) = 1
<1>1. Radix \in Nat \ {0}
  BY RadixHalf
<1>2. Radix * Radix \in Nat \ {0}
  BY <1>1
<1>3. Radix * (Radix * Radix) \in Nat \ {0}
  BY <1>1, <1>2
<1>4. Radix * (Radix * (Radix * Radix)) \in Nat \ {0}
  BY <1>1, <1>3
<1>5. /\ Span(0) = Radix * (Radix * (Radix * Radix)) /\ Span(1) = Radix * (Radix * Radix)
      /\ Span(2) = Radix * Radix /\ Span(3) = Radix /\ Span(4) = 1
  BY DEF Span
<1>6. /\ Span(0) \in Nat \ {0} /\ Span(1) \in Nat \ {0} /\ Span(2) \in Nat \ {0}
      /\ Span(3) \in Nat \ {0} /\ Span(4) \in Nat \ {0}
  BY <1>1, <1>2, <1>3, <1>4, <1>5
<1>7. /\ Span(0) = Radix * Span(1) /\ Span(1) = Radix * Span(2)
      /\ Span(2) = Radix * Span(3) /\ Span(3) = Radix * Span(4)
  BY <1>1, <1>5
<1>8. \A k \in 0..4 : k = 0 \/ k = 1 \/ k = 2 \/ k = 3 \/ k = 4
  OBVIOUS
<1>9. \A k \in 1..4 : \/ (k = 1 /\ k - 1 = 0) \/ (k = 2 /\ k - 1 = 1)
                      \/ (k = 3 /\ k - 1 = 2) \/ (k = 4 /\ k - 1 = 3)
  OBVIOUS
<1>10. \A k \in 0..4 : Span(k) \in Nat \ {0}
  BY <1>6, <1>8
<1>11. \A k \in 1..4 : Span(k - 1) = Radix * Span(k)
  BY <1>7, <1>9, Zenon
<1> QED  BY <1>5, <1>10, <1>11

\* A prefix is the one above it and an index.
LEMMA PrefixStep ==
  ASSUME NEW v \in Pages, NEW k \in 1..4
  PROVE  /\ Prefix(v, k) \in Nat /\ Prefix(v, k - 1) \in Nat /\ Index(v, k) \in Entry
         /\ Prefix(v, k) = (Radix * Prefix(v, k - 1)) + Index(v, k)
<1>1. v \in Nat /\ Span(k) \in Nat \ {0} /\ Span(k - 1) = Radix * Span(k) /\ Radix \in Nat \ {0}
  <2>1. Span(0) \in Nat
    BY Spans
  <2> QED  BY <2>1, Spans, RadixHalf DEF Pages
<1>2. v \div Span(k) \in Nat
  BY <1>1, Division
<1>3. (v \div Span(k)) \div Radix = v \div Span(k - 1)
  BY <1>1, DivDiv
<1> DEFINE p == v \div Span(k)
<1>4. p \in Nat
  BY <1>2
<1> HIDE DEF p
<1>5. p \div Radix \in Nat /\ p % Radix \in Nat /\ p % Radix < Radix
      /\ p = (Radix * (p \div Radix)) + (p % Radix)
  BY <1>1, <1>4, Division
<1>6. Prefix(v, k) = p /\ Prefix(v, k - 1) = p \div Radix /\ Index(v, k) = p % Radix
  BY <1>3 DEF p, Prefix, Index
<1>7. Index(v, k) \in Entry
  BY <1>1, <1>5, <1>6 DEF Entry
<1> QED  BY <1>4, <1>5, <1>6, <1>7

LEMMA PageBounds ==
  /\ KernelBase \in Nat \ {0} /\ KernelBase < Span(0) /\ KernelBase = Span(1) * Half
  /\ \A v : v \in UserPages <=> v \in Pages /\ v < KernelBase
  /\ \A v : v \in KernelPages <=> v \in Pages /\ ~(v < KernelBase)
  /\ Pages \subseteq Nat
<1>1. /\ Span(0) \in Nat \ {0} /\ Span(1) \in Nat \ {0}
      /\ Half \in Nat \ {0} /\ Radix = 2 * Half /\ Span(0) = Radix * Span(1)
  BY Spans, RadixHalf
<1>2. KernelBase = Span(1) * Half
  BY <1>1 DEF KernelBase, Half
<1>3. KernelBase \in Nat \ {0} /\ KernelBase < Span(0)
  BY <1>1, <1>2
<1> QED  BY <1>1, <1>2, <1>3 DEF UserPages, KernelPages, Pages

LEMMA PrefixEnds ==
  ASSUME NEW v \in Pages
  PROVE  Prefix(v, 0) = 0 /\ Prefix(v, 4) = v /\ Index(v, 1) = Prefix(v, 1)
<1>1. v \in Nat /\ v < Span(0) /\ Span(0) \in Nat \ {0} /\ Span(4) = 1
  BY Spans, PageBounds DEF Pages
<1>2. Prefix(v, 0) = 0
  <2>1. v = (Span(0) * 0) + v
    BY <1>1
  <2>2. v \div Span(0) = 0
    BY <1>1, <2>1, DivisionUnique
  <2> QED  BY <2>2 DEF Prefix
<1>3. Prefix(v, 4) = v
  BY <1>1 DEF Prefix
<1>4. /\ Prefix(v, 1) = (Radix * Prefix(v, 1 - 1)) + Index(v, 1) /\ Index(v, 1) \in Entry
  BY PrefixStep
<1> QED  BY <1>2, <1>3, <1>4, RadixHalf DEF Entry

LEMMA PrefixParts ==
  ASSUME NEW v \in Pages, NEW k \in 1..4
  PROVE  Prefix(v, k) \div Radix = Prefix(v, k - 1) /\ Prefix(v, k) % Radix = Index(v, k)
<1>1. /\ Prefix(v, k - 1) \in Nat /\ Index(v, k) \in Nat /\ Index(v, k) < Radix
      /\ Prefix(v, k) = (Radix * Prefix(v, k - 1)) + Index(v, k)
      /\ Radix \in Nat \ {0} /\ Prefix(v, k) \in Nat
  BY PrefixStep, RadixHalf DEF Entry
<1> QED  BY <1>1, DivisionUnique

\* Two pages have a prefix in common when they have the one above it and an
\* index in common.
LEMMA Agreement ==
  ASSUME NEW v \in Pages, NEW w \in Pages, NEW k \in 1..4
  PROVE  Prefix(v, k) = Prefix(w, k)
           <=> Prefix(v, k - 1) = Prefix(w, k - 1) /\ Index(v, k) = Index(w, k)
<1>1. /\ Prefix(v, k) = (Radix * Prefix(v, k - 1)) + Index(v, k)
      /\ Prefix(w, k) = (Radix * Prefix(w, k - 1)) + Index(w, k)
  BY PrefixStep
<1> QED  BY <1>1, PrefixParts

\* A common prefix is common at every level above.
LEMMA AgreementAbove ==
  ASSUME NEW v \in Pages, NEW w \in Pages
  PROVE  /\ Prefix(v, 0) = Prefix(w, 0)
         /\ Prefix(v, 4) = Prefix(w, 4) => v = w
         /\ \A k \in 0..4, j \in 0..4 :
              j <= k /\ Prefix(v, k) = Prefix(w, k) => Prefix(v, j) = Prefix(w, j)
<1>1. /\ Prefix(v, 0) = Prefix(w, 0)
      /\ Prefix(v, 4) = Prefix(w, 4) => v = w
  BY PrefixEnds
<1>2. \A k \in 1..4 : Prefix(v, k) = Prefix(w, k) => Prefix(v, k - 1) = Prefix(w, k - 1)
  BY Agreement
<1>3. /\ Prefix(v, 4) = Prefix(w, 4) => Prefix(v, 3) = Prefix(w, 3)
      /\ Prefix(v, 3) = Prefix(w, 3) => Prefix(v, 2) = Prefix(w, 2)
      /\ Prefix(v, 2) = Prefix(w, 2) => Prefix(v, 1) = Prefix(w, 1)
  BY <1>2
<1>4. ASSUME NEW k \in 0..4, NEW j \in 0..4, j <= k, Prefix(v, k) = Prefix(w, k)
      PROVE  Prefix(v, j) = Prefix(w, j)
  <2>1. j = 0 \/ j = k \/ (j = 1 /\ k \in {2, 3, 4}) \/ (j = 2 /\ k \in {3, 4}) \/ (j = 3 /\ k = 4)
    BY <1>4
  <2> QED  BY <1>1, <1>3, <1>4, <2>1
<1> QED  BY <1>1, <1>4

\* The lower half of the root's entries is user memory.
LEMMA HalfIndex ==
  ASSUME NEW v \in Pages
  PROVE  v < KernelBase <=> Index(v, 1) < Half
<1>1. /\ v \in Nat /\ Span(1) \in Nat \ {0} /\ Half \in Nat /\ KernelBase = Span(1) * Half
  BY Spans, PageBounds, RadixHalf
<1> DEFINE p == v \div Span(1)
           r == v % Span(1)
<1>2. p \in Nat /\ r \in Nat /\ r < Span(1) /\ v = (Span(1) * p) + r
  BY <1>1, Division
<1>3. Index(v, 1) = p
  BY PrefixEnds DEF Prefix
<1> HIDE DEF p, r
<1>4. CASE p < Half
  <2>1. p + 1 <= Half /\ Span(1) * (p + 1) <= Span(1) * Half
    BY <1>1, <1>2, <1>4
  <2> QED  BY <1>1, <1>2, <1>3, <1>4, <2>1
<1>5. CASE ~(p < Half)
  <2>1. Span(1) * Half <= Span(1) * p
    BY <1>1, <1>2, <1>5
  <2> QED  BY <1>1, <1>2, <1>3, <1>5, <2>1
<1> QED  BY <1>4, <1>5

\* Pages with a common first index are in the same half.
LEMMA SameHalf ==
  ASSUME NEW v \in Pages, NEW w \in Pages, NEW k \in 1..4, Prefix(v, k) = Prefix(w, k)
  PROVE  v < KernelBase <=> w < KernelBase
<1>1. Prefix(v, 1) = Prefix(w, 1)
  BY AgreementAbove
<1> QED  BY <1>1, PrefixEnds, HalfIndex

\* The first page below an entry is a place of its tree, and the only one there.
LEMMA PlaceOf ==
  ASSUME NEW v \in Pages, NEW k \in 1..4
  PROVE  \E w \in Pages : w % Span(k) = 0 /\ Prefix(w, k) = Prefix(v, k)
<1> DEFINE p == v \div Span(k)
           w == Span(k) * p
<1>1. v \in Nat /\ v < Span(0) /\ Span(k) \in Nat \ {0} /\ Span(0) \in Nat
  BY Spans, PageBounds DEF Pages
<1>2. p \in Nat /\ v % Span(k) \in Nat /\ v = (Span(k) * p) + (v % Span(k))
  BY <1>1, Division
<1>3. p = Prefix(v, k)
  BY DEF Prefix
<1> HIDE DEF p
<1>4. w \in Nat /\ w <= v
  BY <1>1, <1>2
<1>5. w = (Span(k) * p) + 0
  BY <1>4
<1>6. w \div Span(k) = p /\ w % Span(k) = 0
  <2> HIDE DEF w
  <2> QED  BY <1>1, <1>2, <1>4, <1>5, DivisionUnique
<1>7. w \in Pages
  BY <1>1, <1>4 DEF Pages
<1>8. w % Span(k) = 0 /\ Prefix(w, k) = p
  BY <1>6 DEF Prefix
<1> QED  BY <1>3, <1>7, <1>8

LEMMA PlaceUnique ==
  ASSUME NEW v \in Pages, NEW w \in Pages, NEW k \in 1..4,
         v % Span(k) = 0, w % Span(k) = 0, Prefix(v, k) = Prefix(w, k)
  PROVE  v = w
<1>1. v \in Nat /\ w \in Nat /\ Span(k) \in Nat \ {0}
  BY Spans, PageBounds
<1>2. v = (Span(k) * (v \div Span(k))) + (v % Span(k)) /\ v \div Span(k) \in Nat
  BY <1>1, Division
<1>3. w = (Span(k) * (w \div Span(k))) + (w % Span(k)) /\ w \div Span(k) \in Nat
  BY <1>1, Division
<1>4. v \div Span(k) = w \div Span(k)
  BY DEF Prefix
<1> QED  BY <1>2, <1>3, <1>4

\* All of the heap is below one entry of the root.
LEMMA HeapIndex ==
  ASSUME NEW h \in Nat, h < HeapPages
  PROVE  HeapStart + 2 * h \in KernelPages /\ Index(HeapStart + 2 * h, 1) = Half
<1> DEFINE v == HeapStart + 2 * h
<1>1. /\ Span(1) \in Nat \ {0} /\ Half \in Nat \ {0} /\ Radix = 2 * Half /\ Span(0) = Radix * Span(1)
      /\ KernelBase = Span(1) * Half /\ 2 * h < Span(1) /\ KernelBase \in Nat
  BY Spans, PageBounds, RadixHalf, TreeAssumption
<1>2. v = (Span(1) * Half) + 2 * h
  BY <1>1 DEF HeapStart
<1>3. Span(1) * (Half + 1) <= Span(1) * Radix
  BY <1>1
<1>4. v \in Nat /\ v < Span(0) /\ ~(v < KernelBase)
  BY <1>1, <1>2, <1>3
<1>5. v \in Pages
  BY <1>4, <1>1 DEF Pages
<1>6. v \div Span(1) = Half
  <2> HIDE DEF v
  <2>1. 2 * h \in Nat
    OBVIOUS
  <2> QED  BY <1>1, <1>2, <1>4, <2>1, DivisionUnique
<1> HIDE DEF v
<1>7. v \in KernelPages /\ Index(v, 1) = Half
  BY <1>4, <1>5, <1>6, PageBounds, PrefixEnds DEF Prefix
<1> QED  BY <1>7 DEF v

-----------------------------------------------------------------------------
\* Walks through the tables.

\* A walk takes one entry per level.
LEMMA WalkStep ==
  ASSUME NEW t, NEW r, NEW v, NEW k \in 1..4
  PROVE  /\ Walk(t, r, v, 0) = Home(r, v)
         /\ Walk(t, r, v, k) = IF Walk(t, r, v, k - 1) = 0 THEN 0
                               ELSE t[Walk(t, r, v, k - 1)][Index(v, k)]
<1> DEFINE h == Home(r, v)
<1>1. /\ Node(t, h, v, 1) = Below(t, h, v, 1)
      /\ Node(t, h, v, 2) = Below(t, Node(t, h, v, 1), v, 2)
      /\ Node(t, h, v, 3) = Below(t, Node(t, h, v, 2), v, 3)
      /\ Node(t, h, v, 4) = Below(t, Node(t, h, v, 3), v, 4)
  <2> HIDE DEF h
  <2> QED  BY DEF Node
<1>2. /\ Walk(t, r, v, 0) = h /\ Walk(t, r, v, 1) = Node(t, h, v, 1)
      /\ Walk(t, r, v, 2) = Node(t, h, v, 2) /\ Walk(t, r, v, 3) = Node(t, h, v, 3)
      /\ Walk(t, r, v, 4) = Node(t, h, v, 4)
  BY DEF Walk
<1>3. \/ (k = 1 /\ k - 1 = 0) \/ (k = 2 /\ k - 1 = 1)
      \/ (k = 3 /\ k - 1 = 2) \/ (k = 4 /\ k - 1 = 3)
  OBVIOUS
<1> HIDE DEF h
<1>4. Walk(t, r, v, k) = Below(t, Walk(t, r, v, k - 1), v, k)
  BY <1>1, <1>2, <1>3, Zenon
<1> QED  BY <1>2, <1>4 DEF Below, h

LEMMA NodeFacts ==
  /\ FrameCount \in Nat /\ KernelRoot \notin 0..FrameCount /\ KernelRoot # 0
  /\ Frames \subseteq Nodes /\ KernelRoot \in Nodes /\ Nodes = Frames \cup {KernelRoot}
  /\ 0 \notin Frames /\ 0 \notin Nodes /\ \A x : x \in 0..FrameCount <=> x = 0 \/ x \in Frames
BY TreeAssumption DEF KernelRoot, Frames, Nodes

\* What a walk meets below the root.
LEMMA WalkTypes ==
  ASSUME NEW t, NEW fr, NEW r, NEW X, Types(t, fr, r, X), NEW v \in Pages
  PROVE  /\ Walk(t, r, v, 0) \in Nodes \cup {0}
         /\ \A k \in 0..4 : Walk(t, r, v, k) \in Nodes \cup {0}
         /\ \A k \in 1..4 : Walk(t, r, v, k) \in Frames \cup {0}
<1>1. \A n \in Nodes, i \in Entry : t[n][i] \in Frames \cup {0}
  BY NodeFacts DEF Types
<1>2. Walk(t, r, v, 0) \in Nodes \cup {0}
  <2>1. r \in Frames \cup {0}
    BY NodeFacts DEF Types
  <2>2. Walk(t, r, v, 0) = r \/ Walk(t, r, v, 0) = KernelRoot
    BY DEF Walk, Home
  <2> QED  BY <2>1, <2>2, NodeFacts
<1>3. ASSUME NEW k \in 1..4, Walk(t, r, v, k - 1) \in Nodes \cup {0}
      PROVE  Walk(t, r, v, k) \in Frames \cup {0}
  <2>1. Index(v, k) \in Entry
    BY PrefixStep
  <2> QED  BY <1>1, <1>3, <2>1, WalkStep
<1>4. Frames \subseteq Nodes
  BY NodeFacts
<1>5. Walk(t, r, v, 1) \in Frames \cup {0}
  BY <1>2, <1>3
<1>6. Walk(t, r, v, 2) \in Frames \cup {0}
  BY <1>3, <1>4, <1>5
<1>7. Walk(t, r, v, 3) \in Frames \cup {0}
  BY <1>3, <1>4, <1>6
<1>8. Walk(t, r, v, 4) \in Frames \cup {0}
  BY <1>3, <1>4, <1>7
<1>9. \A k \in 1..4 : k = 1 \/ k = 2 \/ k = 3 \/ k = 4
  OBVIOUS
<1>10. \A k \in 0..4 : k = 0 \/ k \in 1..4
  OBVIOUS
<1>11. \A k \in 1..4 : Walk(t, r, v, k) \in Frames \cup {0}
  BY <1>5, <1>6, <1>7, <1>8, <1>9
<1> QED  BY <1>2, <1>4, <1>10, <1>11

\* Pages with a common prefix are reached on a common way.
LEMMA WalkAgrees ==
  ASSUME NEW t, NEW r, NEW v \in Pages, NEW w \in Pages, NEW k \in 1..4,
         Prefix(v, k) = Prefix(w, k), NEW j \in 0..4, j <= k
  PROVE  Walk(t, r, v, j) = Walk(t, r, w, j)
<1> DEFINE E(i) == i <= k => Walk(t, r, v, i) = Walk(t, r, w, i)
<1>1. E(0)
  BY SameHalf, WalkStep DEF Home
<1>2. ASSUME NEW i \in 1..4, E(i - 1)
      PROVE  E(i)
  <2>1. SUFFICES ASSUME i <= k PROVE Walk(t, r, v, i) = Walk(t, r, w, i)
    OBVIOUS
  <2>2. Prefix(v, i) = Prefix(w, i)
    BY <2>1, AgreementAbove
  <2>3. Index(v, i) = Index(w, i)
    BY <2>2, Agreement
  <2>4. Walk(t, r, v, i - 1) = Walk(t, r, w, i - 1)
    BY <1>2, <2>1
  <2> QED  BY <2>3, <2>4, WalkStep
<1> HIDE DEF E
<1>3. E(1)
  BY <1>1, <1>2
<1>4. E(2)
  BY <1>2, <1>3
<1>5. E(3)
  BY <1>2, <1>4
<1>6. E(4)
  BY <1>2, <1>5
<1>7. j = 0 \/ j = 1 \/ j = 2 \/ j = 3 \/ j = 4
  OBVIOUS
<1>8. E(j)
  BY <1>1, <1>3, <1>4, <1>5, <1>6, <1>7
<1> QED  BY <1>8 DEF E

\* A way that ends does not begin again.
LEMMA WalkEnds ==
  ASSUME NEW t, NEW r, NEW v, NEW k \in 1..4, Walk(t, r, v, k) = 0, NEW j \in 1..4, k <= j
  PROVE  Walk(t, r, v, j) = 0
<1>1. \A i \in 1..4 : Walk(t, r, v, i - 1) = 0 => Walk(t, r, v, i) = 0
  BY WalkStep
<1>2. /\ Walk(t, r, v, 1) = 0 => Walk(t, r, v, 2) = 0
      /\ Walk(t, r, v, 2) = 0 => Walk(t, r, v, 3) = 0
      /\ Walk(t, r, v, 3) = 0 => Walk(t, r, v, 4) = 0
  BY <1>1
<1>3. j = k \/ (k = 1 /\ j \in {2, 3, 4}) \/ (k = 2 /\ j \in {3, 4}) \/ (k = 3 /\ j = 4)
  OBVIOUS
<1> QED  BY <1>2, <1>3

\* A frame that a walk meets below the root is in use, and its entry is no copy.
LEMMA WalkInUse ==
  ASSUME NEW t, NEW fr, NEW r, NEW X, Forest(t, fr, r, X), NEW v \in Pages, NEW k \in 1..4,
         Walk(t, r, v, k) # 0
  PROVE  /\ Walk(t, r, v, k) \in Frames /\ Walk(t, r, v, k) # r /\ Walk(t, r, v, k) \notin X
         /\ fr[Walk(t, r, v, k)] = 0
         /\ Walk(t, r, v, k - 1) \in Nodes /\ Index(v, k) \in Entry
         /\ Walk(t, r, v, k) = t[Walk(t, r, v, k - 1)][Index(v, k)]
<1>1. Types(t, fr, r, X) /\ Linked(t, fr, r, X)
  BY DEF Forest
<1>2. /\ Walk(t, r, v, k - 1) # 0
      /\ Walk(t, r, v, k) = t[Walk(t, r, v, k - 1)][Index(v, k)]
  BY WalkStep
<1>3. k - 1 \in 0..4
  OBVIOUS
<1>4. Walk(t, r, v, k - 1) \in Nodes /\ Walk(t, r, v, k) \in Frames
  BY <1>1, <1>2, <1>3, WalkTypes
<1>5. Index(v, k) \in Entry
  BY PrefixStep
<1> QED  BY <1>1, <1>2, <1>4, <1>5 DEF Linked

\* The entry that a walk takes is never one of the copies: user pages go through
\* the lower half of the process's root, kernel pages through the kernel's root.
LEMMA WalkNotCopied ==
  ASSUME NEW t, NEW fr, NEW r, NEW X, Forest(t, fr, r, X), NEW v \in Pages, NEW k \in 1..4,
         Walk(t, r, v, k - 1) # 0
  PROVE  ~Copied(r, Walk(t, r, v, k - 1), Index(v, k))
<1> SUFFICES ASSUME Walk(t, r, v, k - 1) = r
             PROVE  Index(v, k) < Radix \div 2 /\ Index(v, k) \in Int /\ Radix \div 2 \in Int
  BY DEF Copied
<1>1. r \in 0..FrameCount
  BY DEF Forest, Types
<1>2. k = 1
  <2>1. k - 1 \in 1..4 => Walk(t, r, v, k - 1) # r
    BY WalkInUse
  <2> QED  BY <2>1
<1>3. Home(r, v) = r
  BY <1>2, WalkStep
<1>4. v < KernelBase
  BY <1>1, <1>3, NodeFacts DEF Home
<1> QED  BY <1>2, <1>4, HalfIndex, PrefixStep, RadixHalf DEF Half, Entry

\* In a forest a frame is met at one level, on one way.
LEMMA Unique ==
  ASSUME NEW t, NEW fr, NEW r, NEW X, Forest(t, fr, r, X)
  PROVE  \A v, w \in Pages, k, j \in 0..4 :
           Walk(t, r, v, k) = Walk(t, r, w, j) /\ Walk(t, r, v, k) # 0
             => k = j /\ Prefix(v, k) = Prefix(w, k)
<1> DEFINE P(k) == \A v, w \in Pages, j \in 0..4 :
                     Walk(t, r, v, k) = Walk(t, r, w, j) /\ Walk(t, r, v, k) # 0
                       => k = j /\ Prefix(v, k) = Prefix(w, k)
<1>1. P(0)
  <2> SUFFICES ASSUME NEW v \in Pages, NEW w \in Pages, NEW j \in 0..4,
                      Walk(t, r, v, 0) = Walk(t, r, w, j), Walk(t, r, v, 0) # 0
               PROVE  j = 0
    BY AgreementAbove
  <2>1. Walk(t, r, v, 0) = r \/ Walk(t, r, v, 0) = KernelRoot
    BY WalkStep DEF Home
  <2>2. j \in 1..4 => Walk(t, r, w, j) # r /\ Walk(t, r, w, j) \in Frames
    BY WalkInUse
  <2> QED  BY <2>1, <2>2, NodeFacts
<1>2. ASSUME NEW k \in 1..4, P(k - 1)
      PROVE  P(k)
  <2> SUFFICES ASSUME NEW v \in Pages, NEW w \in Pages, NEW j \in 0..4,
                      Walk(t, r, v, k) = Walk(t, r, w, j), Walk(t, r, v, k) # 0
               PROVE  k = j /\ Prefix(v, k) = Prefix(w, k)
    OBVIOUS
  <2> DEFINE n == Walk(t, r, v, k - 1)
             m == Walk(t, r, w, j - 1)
  <2>1. /\ Walk(t, r, v, k) \in Frames /\ Walk(t, r, v, k) # r
        /\ n \in Nodes /\ Index(v, k) \in Entry /\ Walk(t, r, v, k) = t[n][Index(v, k)]
    BY WalkInUse
  <2>2. j # 0
    <3>1. Walk(t, r, w, 0) = r \/ Walk(t, r, w, 0) = KernelRoot
      BY WalkStep DEF Home
    <3> QED  BY <2>1, <3>1, NodeFacts
  <2>3. j \in 1..4
    BY <2>2
  <2>4. m \in Nodes /\ Index(w, j) \in Entry /\ Walk(t, r, w, j) = t[m][Index(w, j)]
    BY <2>3, WalkInUse
  <2>5. n # 0 /\ m # 0
    BY <2>1, <2>4, NodeFacts
  <2>6. ~Copied(r, n, Index(v, k)) /\ ~Copied(r, m, Index(w, j))
    BY <2>3, <2>5, WalkNotCopied
  <2>7. OneParent(t, r)
    BY DEF Forest
  <2> HIDE DEF n, m
  <2>8. n = m /\ Index(v, k) = Index(w, j)
    BY <2>1, <2>4, <2>6, <2>7 DEF OneParent
  <2>9. k - 1 = j - 1 /\ Prefix(v, k - 1) = Prefix(w, k - 1)
    BY <1>2, <2>3, <2>5, <2>8 DEF n, m
  <2>10. k = j
    BY <2>3, <2>9
  <2> QED  BY <2>8, <2>9, <2>10, Agreement
<1>3. P(1)
  BY <1>1, <1>2
<1>4. P(2)
  <2> HIDE DEF P
  <2> QED  BY <1>2, <1>3
<1>5. P(3)
  <2> HIDE DEF P
  <2> QED  BY <1>2, <1>4
<1>6. P(4)
  <2> HIDE DEF P
  <2> QED  BY <1>2, <1>5
<1>7. \A k \in 0..4 : P(k)
  <2>1. \A k \in 0..4 : k = 0 \/ k = 1 \/ k = 2 \/ k = 3 \/ k = 4
    OBVIOUS
  <2> HIDE DEF P
  <2> QED  BY <1>1, <1>3, <1>4, <1>5, <1>6, <2>1
<1> QED  BY <1>7, Zenon

-----------------------------------------------------------------------------
\* Changing the forest.

\* Taking a frame from the free list.
LEMMA TakeForest ==
  ASSUME NEW t, NEW fr, NEW r, NEW X, Forest(t, fr, r, X), NEW f \in Frames, fr[f] = 1
  PROVE  /\ Forest(t, [fr EXCEPT ![f] = 0], r, X \cup {f})
         /\ [t EXCEPT ![f] = Empty] = t /\ f \notin X
<1> DEFINE g == [fr EXCEPT ![f] = 0]
           Y == X \cup {f}
<1>1. /\ Types(t, fr, r, X) /\ OneParent(t, r) /\ Linked(t, fr, r, X) /\ Blank(t, fr, r, X)
      /\ Placed(t, fr, r, X)
      /\ r # 0 => \A i \in Entry : i >= Radix \div 2 => t[r][i] = t[KernelRoot][i]
  BY DEF Forest
<1>2. Types(t, g, r, Y)
  BY <1>1 DEF Types
<1>3. f \notin X
  BY <1>1 DEF Blank
<1>4. f \in Nodes /\ t[f] = Empty /\ f # r
  BY <1>1, NodeFacts DEF Blank
<1>5. \A e \in Frames : g[e] = IF e = f THEN 0 ELSE fr[e]
  BY <1>1 DEF Types
<1> HIDE DEF g
<1>6. Linked(t, g, r, Y)
  <2>1. \A n \in Nodes, i \in Entry : t[n][i] # 0 => t[n][i] \in Frames /\ t[n][i] # f
    BY <1>1, NodeFacts DEF Linked, Types
  <2> QED  BY <1>1, <1>5, <2>1 DEF Linked
<1>7. Blank(t, g, r, Y)
  <2>1. X \subseteq Frames
    BY <1>1 DEF Types
  <2> QED  BY <1>1, <1>4, <1>5, <2>1 DEF Blank
<1>8. Placed(t, g, r, Y)
  BY <1>1, <1>5 DEF Placed
<1>9. [t EXCEPT ![f] = Empty] = t
  BY <1>1, <1>4 DEF Types
<1>10. Forest(t, g, r, Y)
  BY <1>1, <1>2, <1>6, <1>7, <1>8 DEF Forest
<1> QED  BY <1>3, <1>9, <1>10 DEF g

\* A step of the walk in a changed entry.
LEMMA LinkWalk ==
  ASSUME NEW t, NEW fr, NEW r, NEW X, Forest(t, fr, r, X), NEW x \in X,
         NEW v \in Pages, NEW k \in 1..4, NEW n, n = Walk(t, r, v, k - 1), n # 0, NEW u,
         \A m \in Nodes, i \in Entry : u[m][i] = IF m = n /\ i = Index(v, k) THEN x ELSE t[m][i]
  PROVE  \A w \in Pages, j \in 0..4 :
           Walk(u, r, w, j) = IF j >= k /\ Prefix(w, k) = Prefix(v, k)
                              THEN (IF j = k THEN x ELSE 0) ELSE Walk(t, r, w, j)
<1> DEFINE E(w, j) == Walk(u, r, w, j) = IF j >= k /\ Prefix(w, k) = Prefix(v, k)
                                       THEN (IF j = k THEN x ELSE 0) ELSE Walk(t, r, w, j)
<1>1. /\ n \in Nodes /\ x \in Frames /\ x \in Nodes /\ x # 0 /\ t[x] = Empty /\ n # x
      /\ k - 1 \in 0..4
  <2>1. x \in Frames /\ t[x] = Empty /\ x # r
    BY DEF Forest, Types, Blank
  <2>2. n \in Nodes
    <3>1. k - 1 \in 0..4 /\ Types(t, fr, r, X)
      BY DEF Forest
    <3> QED  BY <3>1, WalkTypes
  <2>3. n # x
    <3>1. CASE k = 1
      <4>1. n = r \/ n = KernelRoot
        BY <3>1, WalkStep DEF Home
      <4> QED  BY <2>1, <4>1, NodeFacts
    <3>2. CASE k # 1
      <4>1. k - 1 \in 1..4
        BY <3>2
      <4>2. n \notin X
        BY <4>1, WalkInUse
      <4> QED  BY <4>2
    <3> QED  BY <3>1, <3>2
  <2> QED  BY <2>1, <2>2, <2>3, NodeFacts
<1>2. \A w \in Pages : E(w, 0)
  BY WalkStep
<1>3. ASSUME NEW w \in Pages, NEW j \in 1..4, E(w, j - 1)
      PROVE  E(w, j)
  <2> DEFINE a == Walk(u, r, w, j - 1)
             b == Walk(t, r, w, j - 1)
  <2>1. /\ Walk(u, r, w, j) = IF a = 0 THEN 0 ELSE u[a][Index(w, j)]
        /\ Walk(t, r, w, j) = IF b = 0 THEN 0 ELSE t[b][Index(w, j)]
    BY WalkStep
  <2>2. Index(w, j) \in Entry /\ b \in Nodes \cup {0} /\ j - 1 \in 0..4
    <3>1. j - 1 \in 0..4 /\ Types(t, fr, r, X)
      BY DEF Forest
    <3> QED  BY <3>1, WalkTypes, PrefixStep
  <2>3. b = n => j = k /\ Prefix(w, k - 1) = Prefix(v, k - 1)
    <3>1. b = n => j - 1 = k - 1 /\ Prefix(w, j - 1) = Prefix(v, j - 1)
      BY <1>1, <2>2, Unique
    <3> QED  BY <3>1
  <2>4. CASE j >= k /\ Prefix(w, k) = Prefix(v, k)
    <3>1. CASE j = k
      <4>1. b = n /\ Index(w, k) = Index(v, k)
        BY <1>1, <2>4, <3>1, WalkAgrees, Agreement
      <4>2. a = b
        BY <1>3, <3>1
      <4>3. u[n][Index(v, k)] = x
        BY <1>1, PrefixStep
      <4> HIDE DEF a, b
      <4>4. n # 0
        BY <1>1, NodeFacts
      <4> QED  BY <2>1, <2>4, <3>1, <4>1, <4>2, <4>3, <4>4
    <3>2. CASE j # k
      <4>1. a = 0 \/ a = x
        BY <1>3, <2>4, <3>2
      <4>2. u[x][Index(w, j)] = 0
        BY <1>1, <2>2 DEF Empty
      <4> HIDE DEF a
      <4> QED  BY <2>1, <2>4, <3>2, <4>1, <4>2
    <3> QED  BY <3>1, <3>2
  <2>5. CASE ~(j >= k /\ Prefix(w, k) = Prefix(v, k))
    <3>1. a = b
      BY <1>3, <2>5
    <3>2. ASSUME b # 0
          PROVE  u[b][Index(w, j)] = t[b][Index(w, j)]
      <4>1. b = n => Index(w, j) # Index(v, k)
        BY <2>3, <2>5, Agreement
      <4>2. b \in Nodes
        BY <2>2, <3>2
      <4> HIDE DEF b
      <4> QED  BY <2>2, <4>1, <4>2
    <3> HIDE DEF a, b
    <3> QED  BY <2>1, <2>5, <3>1, <3>2
  <2> QED  BY <2>4, <2>5
<1>4. ASSUME NEW w \in Pages
      PROVE  \A j \in 0..4 : E(w, j)
  <2> HIDE DEF E
  <2>1. E(w, 1)
    BY <1>2, <1>3
  <2>2. E(w, 2)
    BY <1>3, <2>1
  <2>3. E(w, 3)
    BY <1>3, <2>2
  <2>4. E(w, 4)
    BY <1>3, <2>3
  <2>5. \A j \in 0..4 : j = 0 \/ j = 1 \/ j = 2 \/ j = 3 \/ j = 4
    OBVIOUS
  <2> QED  BY <1>2, <2>1, <2>2, <2>3, <2>4, <2>5
<1> QED  BY <1>4, Zenon

\* Tables u are tables t with x in entry e of node n.
Enters(t, u, n, e, x) ==
  /\ u \in [Nodes -> [Entry -> 0..FrameCount]]
  /\ \A m \in Nodes : m # n => u[m] = t[m]
  /\ \A m \in Nodes, i \in Entry : u[m][i] = IF m = n /\ i = e THEN x ELSE t[m][i]

\* Every way after frame x was entered where the way to page v ended, at level k.
Rewalks(t, u, r, v, k, x) ==
  \A w \in Pages, j \in 0..4 :
    Walk(u, r, w, j) = IF j >= k /\ Prefix(w, k) = Prefix(v, k)
                       THEN (IF j = k THEN x ELSE 0) ELSE Walk(t, r, w, j)

\* Frame x is entered where the way to page v ends, at entry k of node n.
Linking(t, u, fr, r, X, x, v, k, n) ==
  /\ Forest(t, fr, r, X) /\ x \in X /\ v \in Pages /\ k \in 1..4
  /\ n = Walk(t, r, v, k - 1) /\ n # 0 /\ Walk(t, r, v, k) = 0
  /\ n = KernelRoot => r = 0
  /\ Enters(t, u, n, Index(v, k), x)

\* The frame gets its place, and no other way changes.
LEMMA LinkForest ==
  ASSUME NEW t, NEW u, NEW fr, NEW r, NEW X, NEW x, NEW v, NEW k, NEW n,
         Linking(t, u, fr, r, X, x, v, k, n)
  PROVE  /\ Forest(u, fr, r, X \ {x})
         /\ Rewalks(t, u, r, v, k, x)
         /\ \A i \in Entry : t[KernelRoot][i] # 0 => u[KernelRoot][i] # 0
<1>0. /\ Forest(t, fr, r, X) /\ x \in X /\ v \in Pages /\ k \in 1..4
      /\ n = Walk(t, r, v, k - 1) /\ n # 0 /\ Walk(t, r, v, k) = 0
      /\ n = KernelRoot => r = 0
      /\ Enters(t, u, n, Index(v, k), x)
  BY DEF Linking
<1> USE <1>0
<1> DEFINE e == Index(v, k)
           Y == X \ {x}
<1>1. /\ Types(t, fr, r, X) /\ OneParent(t, r) /\ Linked(t, fr, r, X) /\ Blank(t, fr, r, X)
      /\ Placed(t, fr, r, X)
      /\ r # 0 => \A i \in Entry : i >= Radix \div 2 => t[r][i] = t[KernelRoot][i]
  BY DEF Forest
<1>2. e \in Entry
  BY PrefixStep
<1>3. n \in Nodes /\ x \in Frames /\ x \in Nodes /\ x # 0 /\ x # r /\ fr[x] = 0 /\ x \in 0..FrameCount
  <2>1. n \in Nodes \cup {0}
    <3>1. k - 1 \in 0..4
      OBVIOUS
    <3> QED  BY <1>1, <3>1, WalkTypes
  <2>2. x \in Frames
    BY <1>1 DEF Types
  <2> QED  BY <1>1, <2>1, <2>2, NodeFacts DEF Blank
<1>4. t[n][e] = 0
  BY WalkStep
<1>5. ~Copied(r, n, e)
  BY WalkNotCopied
<1>6. n \notin X /\ (n \in Frames /\ n # r => fr[n] = 0)
  <2>1. CASE k = 1
    <3>1. n = r \/ n = KernelRoot
      BY <2>1, WalkStep DEF Home
    <3>2. KernelRoot \notin Frames /\ X \subseteq Frames
      BY <1>1, NodeFacts DEF Types
    <3> QED  BY <1>1, <3>1, <3>2 DEF Blank
  <2>2. CASE k # 1
    <3>1. k - 1 \in 1..4
      BY <2>2
    <3> QED  BY <3>1, WalkInUse
  <2> QED  BY <2>1, <2>2
<1> HIDE DEF e
<1>7. u \in [Nodes -> [Entry -> 0..FrameCount]]
  BY DEF Enters
<1>8. \A m \in Nodes, i \in Entry : u[m][i] = IF m = n /\ i = e THEN x ELSE t[m][i]
  BY DEF Enters, e
<1>9. \A m \in Nodes : m # n => u[m] = t[m]
  BY DEF Enters
<1>10. \A w \in Pages, j \in 0..4 :
         Walk(u, r, w, j) = IF j >= k /\ Prefix(w, k) = Prefix(v, k)
                            THEN (IF j = k THEN x ELSE 0) ELSE Walk(t, r, w, j)
  <2>1. \A m \in Nodes, i \in Entry : u[m][i] = IF m = n /\ i = Index(v, k) THEN x ELSE t[m][i]
    BY DEF Enters
  <2> QED  BY <2>1, LinkWalk
<1>11. Types(u, fr, r, Y)
  BY <1>1, <1>7 DEF Types
<1>12. OneParent(u, r)
  <2> SUFFICES ASSUME NEW m \in Nodes, NEW l \in Nodes, NEW i \in Entry, NEW j \in Entry,
                      u[m][i] # 0, u[m][i] = u[l][j], ~Copied(r, m, i), ~Copied(r, l, j)
               PROVE  m = l /\ i = j
    BY DEF OneParent
  <2>1. t[m][i] # x /\ t[l][j] # x
    BY <1>1, <1>3 DEF Linked
  <2>2. CASE (m = n /\ i = e) \/ (l = n /\ j = e)
    BY <1>8, <2>1, <2>2
  <2>3. CASE ~(m = n /\ i = e) /\ ~(l = n /\ j = e)
    BY <1>1, <1>8, <2>3 DEF OneParent
  <2> QED  BY <2>2, <2>3
<1>13. Linked(u, fr, r, Y)
  BY <1>1, <1>3, <1>8 DEF Linked
<1>14. Blank(u, fr, r, Y)
  <2>1. ASSUME NEW f \in Frames, fr[f] = 1 \/ f \in Y
        PROVE  f # r /\ u[f] = Empty
    <3>1. f # r /\ t[f] = Empty /\ f \in Nodes
      BY <1>1, <2>1, NodeFacts DEF Blank
    <3>2. f # n
      BY <1>6, <2>1, <3>1
    <3> QED  BY <1>9, <3>1, <3>2
  <2> QED  BY <1>1, <2>1 DEF Blank
<1>15. Placed(u, fr, r, Y)
  <2> SUFFICES ASSUME NEW f \in Frames, fr[f] # 1, f # r, f \notin Y
               PROVE  \E w \in Pages, j \in 1..4 : Walk(u, r, w, j) = f
    BY DEF Placed
  <2>1. CASE f = x
    <3>1. Walk(u, r, v, k) = x
      <4>1. k \in 0..4 /\ k >= k
        OBVIOUS
      <4> QED  BY <1>10, <4>1
    <3> QED  BY <2>1, <3>1
  <2>2. CASE f # x
    <3>1. PICK w \in Pages, j \in 1..4 : Walk(t, r, w, j) = f
      BY <1>1, <2>2 DEF Placed
    <3>2. ~(j >= k /\ Prefix(w, k) = Prefix(v, k))
      <4> SUFFICES ASSUME j >= k, Prefix(w, k) = Prefix(v, k)
                   PROVE  FALSE
        OBVIOUS
      <4>1. Walk(t, r, w, k) = 0
        BY WalkAgrees
      <4>2. Walk(t, r, w, j) = 0
        BY <4>1, WalkEnds
      <4> QED  BY <3>1, <4>2, NodeFacts
    <3>3. Walk(u, r, w, j) = f
      <4>1. j \in 0..4
        OBVIOUS
      <4> QED  BY <1>10, <3>1, <3>2, <4>1
    <3> QED  BY <3>3
  <2> QED  BY <2>1, <2>2
<1>16. ASSUME r # 0, NEW i \in Entry, i >= Radix \div 2
       PROVE  u[r][i] = u[KernelRoot][i]
  <2>1. r \in Nodes /\ KernelRoot \in Nodes
    BY <1>1, <1>16, NodeFacts DEF Types
  <2>2. ~(r = n /\ i = e)
    BY <1>5, <1>16 DEF Copied
  <2> QED  BY <1>1, <1>8, <1>16, <2>1, <2>2
<1>17. Forest(u, fr, r, Y)
  BY <1>11, <1>12, <1>13, <1>14, <1>15, <1>16 DEF Forest
<1>18. \A i \in Entry : t[KernelRoot][i] # 0 => u[KernelRoot][i] # 0
  BY <1>3, <1>8, NodeFacts
<1>19. Rewalks(t, u, r, v, k, x)
  BY <1>10 DEF Rewalks
<1> QED  BY <1>17, <1>18, <1>19

-----------------------------------------------------------------------------
\* Computations that allocate.

IsMem(z) == /\ z = [tables |-> z.tables, free |-> z.free, oom |-> z.oom, at |-> z.at]
            /\ z.oom \in BOOLEAN

\* Tables u translate like t, and the kernel's root has lost no entry.
SameWalks(t, u, r) ==
  /\ \A w \in Pages : Walk(u, r, w, 4) = Walk(t, r, w, 4)
  /\ \A i \in Entry : t[KernelRoot][i] # 0 => u[KernelRoot][i] # 0

\* A set of frames has a highest one.
LEMMA Highest ==
  ASSUME NEW S \in SUBSET Frames, S # {}
  PROVE  Max(S) \in S
<1> DEFINE R == OpToRel(<, Nat)
           T == {FrameCount - x : x \in S}
<1>1. FrameCount \in Nat /\ \A x \in S : x \in Nat /\ FrameCount - x \in Nat
  BY TreeAssumption DEF Frames
<1>2. R = {ss \in Nat \X Nat : ss[1] < ss[2]} /\ IsWellFoundedOn(R, Nat)
  BY NatLessThanWellFounded DEF OpToRel
<1>3. T \subseteq Nat /\ T # {}
  BY <1>1
<1> HIDE DEF R
<1>4. PICK d \in T : \A k \in T : ~(<<k, d>> \in R)
  <2> HIDE DEF T
  <2> QED  BY <1>2, <1>3, WFMin
<1>5. \A k \in T : ~(k < d)
  BY <1>2, <1>3, <1>4
<1>6. PICK x \in S : d = FrameCount - x
  BY <1>4
<1>7. ASSUME NEW y \in S
      PROVE  x >= y
  BY <1>1, <1>5, <1>6
<1> QED  BY <1>6, <1>7 DEF Max

LEMMA AllocMem ==
  ASSUME NEW m, NEW r, NEW X, IsMem(m), ~m.oom, Forest(m.tables, m.free, r, X)
  PROVE  /\ IsMem(Alloc(m))
         /\ ~Alloc(m).oom => /\ Alloc(m).at \in Frames /\ Alloc(m).at \notin X
                             /\ Alloc(m).tables = m.tables
                             /\ Forest(Alloc(m).tables, Alloc(m).free, r, X \cup {Alloc(m).at})
<1>1. CASE Avail(m) = {}
  <2>1. Alloc(m) = [m EXCEPT !.oom = TRUE]
    BY <1>1 DEF Alloc
  <2>2. Alloc(m) = [tables |-> m.tables, free |-> m.free, oom |-> TRUE, at |-> m.at]
    BY <2>1 DEF IsMem
  <2> HIDE <2>1
  <2> QED  BY <2>2 DEF IsMem
<1>2. CASE Avail(m) # {}
  <2> DEFINE f == Max(Avail(m))
             g == [m.free EXCEPT ![f] = 0]
  <2>1. f \in Frames /\ m.free[f] = 1
    <3>1. f \in Avail(m)
      BY <1>2, Highest DEF Avail
    <3>2. m.free \in [Frames -> 0..1]
      BY DEF Forest, Types
    <3> HIDE DEF f
    <3> QED  BY <3>1, <3>2 DEF Avail
  <2>2. Alloc(m) = [m EXCEPT !.free[f] = m.free[f] - 1, !.at = f, !.tables[f] = Empty]
    BY <1>2 DEF Alloc
  <2> HIDE DEF f
  <2>3. /\ Forest(m.tables, g, r, X \cup {f}) /\ [m.tables EXCEPT ![f] = Empty] = m.tables
        /\ f \notin X
    BY <2>1, TakeForest
  <2>4. [m EXCEPT !.free[f] = m.free[f] - 1, !.at = f, !.tables[f] = Empty]
          = [tables |-> [m.tables EXCEPT ![f] = Empty],
             free |-> [m.free EXCEPT ![f] = m.free[f] - 1], oom |-> m.oom, at |-> f]
    <3> DEFINE c == m.free[f] - 1
               h == [m.free EXCEPT ![f] = c]
               u == [m.tables EXCEPT ![f] = Empty]
               a == [tables |-> m.tables, free |-> h, oom |-> m.oom, at |-> m.at]
               b == [tables |-> m.tables, free |-> h, oom |-> m.oom, at |-> f]
    <3>1. [m EXCEPT !.free[f] = m.free[f] - 1, !.at = f, !.tables[f] = Empty]
            = [[[m EXCEPT !.free[f] = m.free[f] - 1] EXCEPT !.at = f] EXCEPT !.tables[f] = Empty]
      OBVIOUS
    <3>2. [m EXCEPT !.free[f] = m.free[f] - 1] = a
      BY DEF IsMem
    <3> HIDE DEF h
    <3>3. [a EXCEPT !.at = f] = b
      OBVIOUS
    <3>4. [b EXCEPT !.tables[f] = Empty] = [tables |-> u, free |-> h, oom |-> m.oom, at |-> f]
      OBVIOUS
    <3> HIDE DEF a, b, u
    <3> QED  BY <3>1, <3>2, <3>3, <3>4 DEF h, u
  <2>5. [m.free EXCEPT ![f] = m.free[f] - 1] = g
    BY <2>1
  <2> HIDE DEF g
  <2>6. Alloc(m) = [tables |-> m.tables, free |-> g, oom |-> FALSE, at |-> f]
    <3>1. m.oom = FALSE
      OBVIOUS
    <3> QED  BY <2>2, <2>3, <2>4, <2>5, <3>1, Zenon
  <2>7. /\ Alloc(m).tables = m.tables /\ Alloc(m).free = g /\ Alloc(m).oom = FALSE
        /\ Alloc(m).at = f
    BY <2>6
  <2>8. IsMem(Alloc(m))
    BY <2>6, <2>7 DEF IsMem
  <2> QED  BY <2>1, <2>3, <2>7, <2>8
<1> QED  BY <1>1, <1>2

\* A computation is at level k - 1 on the way to page v.
Descends(m, r, X, v, k) ==
  /\ IsMem(m) /\ ~m.oom /\ Forest(m.tables, m.free, r, X)
  /\ v \in Pages /\ k \in 1..3 /\ m.at = Walk(m.tables, r, v, k - 1) /\ m.at # 0
  /\ m.at = KernelRoot => r = 0 \/ m.tables[KernelRoot][Index(v, k)] # 0

\* get_next goes one level down.
LEMMA NextMem ==
  ASSUME NEW m, NEW r, NEW X, NEW v, NEW k, Descends(m, r, X, v, k),
         NEW z, z = get_next(m, Index(v, k))
  PROVE  /\ IsMem(z)
         /\ ~z.oom => /\ Forest(z.tables, z.free, r, X)
                      /\ z.at = Walk(z.tables, r, v, k) /\ z.at # 0
                      /\ SameWalks(m.tables, z.tables, r)
<1>0. /\ IsMem(m) /\ ~m.oom /\ Forest(m.tables, m.free, r, X)
      /\ v \in Pages /\ k \in 1..3 /\ m.at = Walk(m.tables, r, v, k - 1) /\ m.at # 0
      /\ m.at = KernelRoot => r = 0 \/ m.tables[KernelRoot][Index(v, k)] # 0
  BY DEF Descends
<1> USE <1>0
<1> DEFINE e == Index(v, k)
           t == m.tables
           a == Alloc(m)
<1>1. e \in Entry /\ k \in 1..4 /\ m.at \in Nodes
  <2>1. k \in 1..4 /\ k - 1 \in 0..4
    OBVIOUS
  <2>2. Types(m.tables, m.free, r, X)
    BY DEF Forest
  <2> QED  BY <2>1, <2>2, PrefixStep, WalkTypes
<1>2. Walk(t, r, v, k) = t[m.at][e]
  BY <1>1, WalkStep
<1>3. CASE t[m.at][e] # 0
  <2>1. z = [m EXCEPT !.at = m.tables[m.at][Index(v, k)]]
    BY <1>3 DEF get_next
  <2>2. z = [tables |-> m.tables, free |-> m.free, oom |-> m.oom, at |-> t[m.at][e]]
    BY <2>1 DEF IsMem
  <2>3. z.tables = m.tables /\ z.free = m.free /\ z.oom = m.oom /\ z.at = t[m.at][e]
    BY <2>2
  <2>4. IsMem(z)
    BY <2>2, <2>3 DEF IsMem
  <2>5. SameWalks(m.tables, z.tables, r)
    BY <2>3 DEF SameWalks
  <2> QED  BY <1>2, <1>3, <2>3, <2>4, <2>5
<1>4. CASE t[m.at][e] = 0
  <2>1. IsMem(a) /\ (~a.oom => /\ a.at \in Frames /\ a.at \notin X /\ a.tables = m.tables
                               /\ Forest(a.tables, a.free, r, X \cup {a.at}))
    BY AllocMem
  <2>2. z = IF a.oom THEN a ELSE [a EXCEPT !.tables[m.at][e] = a.at]
    BY <1>4 DEF get_next
  <2> HIDE DEF a, e
  <2>3. CASE a.oom
    BY <2>1, <2>2, <2>3
  <2>4. CASE ~a.oom
    <3> DEFINE u == [t EXCEPT ![m.at] = [t[m.at] EXCEPT ![e] = a.at]]
    <3>1. z = [tables |-> u, free |-> a.free, oom |-> a.oom, at |-> a.at]
      <4>1. z = [a EXCEPT !.tables[m.at][e] = a.at]
        BY <2>2, <2>4
      <4>2. z = [a EXCEPT !.tables = [a.tables EXCEPT ![m.at] = [a.tables[m.at] EXCEPT ![e] = a.at]]]
        BY <2>1, <4>1 DEF IsMem
      <4>3. z = [a EXCEPT !.tables = u]
        BY <2>1, <2>4, <4>2
      <4> HIDE DEF u
      <4> QED  BY <2>1, <4>3 DEF IsMem
    <3>2. /\ u \in [Nodes -> [Entry -> 0..FrameCount]] /\ \A n \in Nodes : n # m.at => u[n] = t[n]
          /\ \A n \in Nodes, i \in Entry : u[n][i] = IF n = m.at /\ i = e THEN a.at ELSE t[n][i]
      <4>1. t \in [Nodes -> [Entry -> 0..FrameCount]] /\ a.at \in 0..FrameCount
        BY <2>1, <2>4, NodeFacts DEF Forest, Types
      <4> QED  BY <1>1, <4>1
    <3> HIDE DEF u
    <3>3. z.tables = u /\ z.free = a.free /\ z.oom = a.oom /\ z.at = a.at
      BY <3>1
    <3>4. IsMem(z)
      BY <2>1, <3>1, <3>3 DEF IsMem
    <3> DEFINE Y == X \cup {a.at}
    <3>5. Y \ {a.at} = X /\ a.at \in Y /\ Forest(t, a.free, r, Y)
      BY <2>1, <2>4
    <3>6. /\ Walk(t, r, v, k) = 0 /\ (m.at = KernelRoot => r = 0)
      BY <1>2, <1>4 DEF e
    <3>7. \A n \in Nodes, i \in Entry :
            u[n][i] = IF n = m.at /\ i = Index(v, k) THEN a.at ELSE t[n][i]
      BY <3>2 DEF e
    <3> DEFINE n == m.at
               x == a.at
               g == a.free
    <3> HIDE DEF Y, t
    <3>8. n = Walk(t, r, v, k - 1) /\ n # 0 /\ x \in Y /\ Forest(t, g, r, Y)
      BY <3>5 DEF t
    <3>9. /\ Forest(u, g, r, Y \ {x}) /\ Rewalks(t, u, r, v, k, x)
          /\ \A i \in Entry : t[KernelRoot][i] # 0 => u[KernelRoot][i] # 0
      <4>1. Enters(t, u, n, Index(v, k), x)
        BY <3>2, <3>7 DEF Enters
      <4>2. n = KernelRoot => r = 0
        BY <3>6
      <4> HIDE DEF n, x, g
      <4>3. k \in 1..4 /\ Walk(t, r, v, k) = 0
        BY <1>1, <3>6
      <4>4. Linking(t, u, g, r, Y, x, v, k, n)
        BY <3>8, <4>1, <4>2, <4>3 DEF Linking
      <4> QED  BY <4>4, LinkForest
    <3>10. Walk(u, r, v, k) = a.at
      <4>1. k \in 0..4 /\ k >= k
        OBVIOUS
      <4> QED  BY <3>9, <4>1 DEF Rewalks
    <3>11. ASSUME NEW w \in Pages
           PROVE  Walk(u, r, w, 4) = Walk(t, r, w, 4)
      <4>1. 4 \in 0..4 /\ 4 \in 1..4 /\ 4 >= k /\ 4 # k /\ k <= 4 /\ k \in 0..4 /\ k <= k
        OBVIOUS
      <4>2. CASE Prefix(w, k) = Prefix(v, k)
        <5>1. Walk(t, r, w, k) = 0
          BY <1>1, <3>6, <4>1, <4>2, WalkAgrees
        <5>2. Walk(t, r, w, 4) = 0
          BY <1>1, <4>1, <5>1, WalkEnds
        <5> QED  BY <3>9, <4>1, <4>2, <5>2 DEF Rewalks
      <4>3. CASE Prefix(w, k) # Prefix(v, k)
        BY <3>9, <4>1, <4>3 DEF Rewalks
      <4> QED  BY <4>2, <4>3
    <3>12. SameWalks(t, u, r)
      BY <3>9, <3>11 DEF SameWalks
    <3>13. a.at # 0
      BY <2>1, <2>4, NodeFacts
    <3> QED  BY <3>3, <3>4, <3>5, <3>9, <3>10, <3>12, <3>13 DEF t
  <2> QED  BY <2>3, <2>4
<1> QED  BY <1>3, <1>4

\* A computation that has come to level k on the way to page v, or has panicked.
At(m, r, X, v, k) ==
  /\ IsMem(m)
  /\ ~m.oom => /\ Forest(m.tables, m.free, r, X)
               /\ m.at = Walk(m.tables, r, v, k) /\ m.at # 0

LEMMA NextStep ==
  ASSUME NEW m, NEW r, NEW X, NEW v \in Pages, NEW k \in 1..3, At(m, r, X, v, k - 1),
         k = 1 => (m.at = KernelRoot => r = 0 \/ m.tables[KernelRoot][Index(v, 1)] # 0)
  PROVE  LET z == get_next(m, Index(v, k))
         IN /\ At(z, r, X, v, k)
            /\ ~z.oom => ~m.oom /\ SameWalks(m.tables, z.tables, r)
<1> DEFINE z == get_next(m, Index(v, k))
<1>1. CASE m.oom
  <2>1. z = m
    BY <1>1 DEF get_next
  <2> HIDE DEF z
  <2> QED  BY <1>1, <2>1 DEF At, z
<1>2. CASE ~m.oom
  <2>1. /\ IsMem(m) /\ Forest(m.tables, m.free, r, X)
        /\ m.at = Walk(m.tables, r, v, k - 1) /\ m.at # 0
    BY <1>2 DEF At
  <2>2. m.at = KernelRoot => r = 0 \/ m.tables[KernelRoot][Index(v, k)] # 0
    <3>1. CASE k = 1
      BY <3>1
    <3>2. CASE k # 1
      <4>1. k - 1 \in 1..4
        BY <3>2
      <4>2. m.at \in Frames
        BY <2>1, <4>1, WalkInUse
      <4> QED  BY <4>2, NodeFacts
    <3> QED  BY <3>1, <3>2
  <2>3. z = get_next(m, Index(v, k))
    OBVIOUS
  <2> HIDE DEF z
  <2>4. /\ IsMem(z)
        /\ ~z.oom => /\ Forest(z.tables, z.free, r, X)
                     /\ z.at = Walk(z.tables, r, v, k) /\ z.at # 0
                     /\ SameWalks(m.tables, z.tables, r)
    <3>1. Descends(m, r, X, v, k)
      BY <1>2, <2>1, <2>2 DEF Descends
    <3> QED  BY <2>3, <3>1, NextMem
  <2> QED  BY <1>2, <2>4 DEF At, z
<1> QED  BY <1>1, <1>2

\* What vmm_map needs: a root, a page that is not mapped and, for a page of the
\* kernel's, an entry in its root that the process has too.
Mappable(m, r, X, v) ==
  /\ IsMem(m) /\ ~m.oom /\ Forest(m.tables, m.free, r, X)
  /\ v \in Pages /\ Home(r, v) # 0 /\ Walk(m.tables, r, v, 4) = 0
  /\ Home(r, v) = KernelRoot => r = 0 \/ m.tables[KernelRoot][Index(v, 1)] # 0

\* What it does: page v leads to frame x and no other page anywhere else.
Maps(m, z, r, X, v, x) ==
  /\ Forest(z.tables, z.free, r, X \ {x})
  /\ \A w \in Pages : Walk(z.tables, r, w, 4) = IF w = v THEN x ELSE Walk(m.tables, r, w, 4)
  /\ \A i \in Entry : m.tables[KernelRoot][i] # 0 => z.tables[KernelRoot][i] # 0
  /\ Home(r, v) = KernelRoot => z.tables[KernelRoot][Index(v, 1)] # 0

LEMMA MapMem ==
  ASSUME NEW m, NEW r, NEW X, NEW v, Mappable(m, r, X, v), NEW x \in X
  PROVE  LET z == vmm_map(m, Home(r, v), v, x)
         IN IsMem(z) /\ (~z.oom => Maps(m, z, r, X, v, x))
<1> DEFINE h == Home(r, v)
           m0 == [m EXCEPT !.at = h]
           pdpt == get_next(m0, Index(v, 1))
           pd == get_next(pdpt, Index(v, 2))
           pt == get_next(pd, Index(v, 3))
           z == vmm_map(m, h, v, x)
<1>1. /\ IsMem(m) /\ ~m.oom /\ Forest(m.tables, m.free, r, X)
      /\ v \in Pages /\ h # 0 /\ Walk(m.tables, r, v, 4) = 0
      /\ h = KernelRoot => r = 0 \/ m.tables[KernelRoot][Index(v, 1)] # 0
  BY DEF Mappable
<1>2. m0 = [tables |-> m.tables, free |-> m.free, oom |-> m.oom, at |-> h]
  <2> HIDE DEF h
  <2> QED  BY <1>1 DEF IsMem
<1>3. z = IF pt.oom THEN pt ELSE [pt EXCEPT !.tables[pt.at][Index(v, 4)] = x]
  BY DEF vmm_map
<1> HIDE DEF m0, z, h
<1>4. m0.tables = m.tables /\ m0.free = m.free /\ m0.oom = m.oom /\ m0.at = h
  BY <1>2
<1>5. At(m0, r, X, v, 1 - 1) /\ (m0.at = KernelRoot => r = 0 \/ m0.tables[KernelRoot][Index(v, 1)] # 0)
  <2>1. IsMem(m0)
    BY <1>1, <1>2, <1>4 DEF IsMem
  <2>2. h = Walk(m.tables, r, v, 1 - 1)
    BY DEF Walk, h
  <2> QED  BY <1>1, <1>4, <2>1, <2>2 DEF At
<1>6. At(pdpt, r, X, v, 1) /\ (~pdpt.oom => SameWalks(m0.tables, pdpt.tables, r))
  BY <1>1, <1>5, NextStep
<1> HIDE DEF pdpt
<1>7. At(pd, r, X, v, 2) /\ (~pd.oom => ~pdpt.oom /\ SameWalks(pdpt.tables, pd.tables, r))
  <2>1. At(pdpt, r, X, v, 2 - 1) /\ 2 \in 1..3 /\ 2 # 1
    BY <1>6
  <2> QED  BY <1>1, <2>1, NextStep
<1> HIDE DEF pd
<1>8. At(pt, r, X, v, 3) /\ (~pt.oom => ~pd.oom /\ SameWalks(pd.tables, pt.tables, r))
  <2>1. At(pd, r, X, v, 3 - 1) /\ 3 \in 1..3 /\ 3 # 1
    BY <1>7
  <2> QED  BY <1>1, <2>1, NextStep
<1> HIDE DEF pt
<1>9. CASE pt.oom
  BY <1>3, <1>8, <1>9 DEF At, z, h
<1>10. CASE ~pt.oom
  <2> DEFINE n == pt.at
             e == Index(v, 4)
             t == pt.tables
             u == [t EXCEPT ![n] = [t[n] EXCEPT ![e] = x]]
  <2>1. /\ IsMem(pt) /\ Forest(t, pt.free, r, X) /\ n = Walk(t, r, v, 3) /\ n # 0
    BY <1>8, <1>10 DEF At
  <2>2. /\ \A w \in Pages : Walk(t, r, w, 4) = Walk(m.tables, r, w, 4)
        /\ \A i \in Entry : m.tables[KernelRoot][i] # 0 => t[KernelRoot][i] # 0
        /\ \A i \in Entry : pdpt.tables[KernelRoot][i] # 0 => t[KernelRoot][i] # 0
    BY <1>4, <1>6, <1>7, <1>8, <1>10 DEF SameWalks
  <2>3. n \in Nodes /\ e \in Entry /\ x \in 0..FrameCount /\ t \in [Nodes -> [Entry -> 0..FrameCount]]
    <3>1. 3 \in 0..4 /\ 4 \in 1..4 /\ Types(t, pt.free, r, X)
      BY <2>1 DEF Forest
    <3>2. n \in Nodes /\ e \in Entry
      BY <1>1, <2>1, <3>1, WalkTypes, PrefixStep
    <3> QED  BY <3>1, <3>2, NodeFacts DEF Types
  <2>4. z = [tables |-> u, free |-> pt.free, oom |-> pt.oom, at |-> pt.at]
    <3>1. z = [pt EXCEPT !.tables[n][e] = x]
      BY <1>3, <1>10
    <3>2. z = [pt EXCEPT !.tables = u]
      BY <2>1, <3>1 DEF IsMem
    <3> HIDE DEF u
    <3> QED  BY <2>1, <3>2 DEF IsMem
  <2>5. Enters(t, u, n, e, x)
    BY <2>3 DEF Enters
  <2> HIDE DEF u, n, t
  <2>6. z.tables = u /\ z.free = pt.free /\ z.oom = pt.oom
    BY <2>4
  <2>7. IsMem(z)
    BY <2>1, <2>4, <2>6 DEF IsMem
  <2>8. Linking(t, u, pt.free, r, X, x, v, 4, n)
    <3>1. n = Walk(t, r, v, 4 - 1) /\ 4 \in 1..4 /\ Walk(t, r, v, 4) = 0
      BY <1>1, <2>1, <2>2
    <3>2. n # KernelRoot
      <4>1. 3 \in 1..4 /\ Walk(t, r, v, 3) # 0
        BY <2>1
      <4>2. Walk(t, r, v, 3) \in Frames
        BY <1>1, <2>1, <4>1, WalkInUse
      <4> QED  BY <2>1, <4>2, NodeFacts
    <3> QED  BY <1>1, <2>1, <2>5, <3>1, <3>2 DEF Linking
  <2>9. /\ Forest(u, pt.free, r, X \ {x}) /\ Rewalks(t, u, r, v, 4, x)
        /\ \A i \in Entry : t[KernelRoot][i] # 0 => u[KernelRoot][i] # 0
    BY <2>8, LinkForest
  <2>10. ASSUME NEW w \in Pages
         PROVE  Walk(u, r, w, 4) = IF w = v THEN x ELSE Walk(m.tables, r, w, 4)
    <3>1. Prefix(w, 4) = Prefix(v, 4) <=> w = v
      BY <1>1, PrefixEnds
    <3> QED  BY <2>2, <2>9, <3>1 DEF Rewalks
  <2>11. h = KernelRoot => u[KernelRoot][Index(v, 1)] # 0
    <3> SUFFICES ASSUME h = KernelRoot PROVE u[KernelRoot][Index(v, 1)] # 0
      OBVIOUS
    <3>1. Walk(pdpt.tables, r, v, 1) # 0
      BY <1>6, <1>7, <1>8, <1>10 DEF At
    <3>2. Walk(pdpt.tables, r, v, 1) = pdpt.tables[KernelRoot][Index(v, 1)]
      <4>1. Walk(pdpt.tables, r, v, 1 - 1) = KernelRoot /\ 1 \in 1..4
        BY DEF Walk, h
      <4> QED  BY <3>1, <4>1, WalkStep
    <3>3. Index(v, 1) \in Entry
      BY <1>1, PrefixStep
    <3> QED  BY <2>2, <2>9, <3>1, <3>2, <3>3
  <2>12. Maps(m, z, r, X, v, x)
    BY <2>2, <2>6, <2>9, <2>10, <2>11 DEF Maps, h
  <2> QED  BY <2>7, <2>12 DEF z, h
<1> QED  BY <1>9, <1>10

LEMMA FreshMem ==
  ASSUME NEW m, NEW r, NEW X, NEW v, Mappable(m, r, X, v)
  PROVE  LET z == MapFresh(m, Home(r, v), v)
         IN /\ z.oom \in BOOLEAN
            /\ ~z.oom => z.at \in Frames /\ z.at \notin X /\ Maps(m, z, r, X, v, z.at)
<1> DEFINE h == Home(r, v)
           a == Alloc(m)
           y == vmm_map(a, h, v, a.at)
           z == MapFresh(m, h, v)
<1>1. IsMem(m) /\ ~m.oom /\ Forest(m.tables, m.free, r, X)
  BY DEF Mappable
<1>2. /\ IsMem(a)
      /\ ~a.oom => /\ a.at \in Frames /\ a.at \notin X /\ a.tables = m.tables
                   /\ Forest(a.tables, a.free, r, X \cup {a.at})
  BY <1>1, AllocMem
<1>3. z = IF a.oom THEN a ELSE [y EXCEPT !.at = a.at]
  BY DEF MapFresh
<1> HIDE DEF a, z
<1>4. CASE a.oom
  <2>1. z.oom \in BOOLEAN /\ z.oom
    BY <1>2, <1>3, <1>4 DEF IsMem
  <2> QED  BY <2>1 DEF z
<1>5. CASE ~a.oom
  <2> DEFINE Y == X \cup {a.at}
  <2>1. Mappable(a, r, Y, v) /\ a.at \in Y
    BY <1>2, <1>5 DEF Mappable
  <2>2. Y \ {a.at} = X /\ X \ {a.at} = X
    BY <1>2, <1>5
  <2> HIDE DEF Y
  <2>3. IsMem(y) /\ (~y.oom => Maps(a, y, r, Y, v, a.at))
    BY <2>1, MapMem
  <2> HIDE DEF y
  <2>4. z = [tables |-> y.tables, free |-> y.free, oom |-> y.oom, at |-> a.at]
    <3>1. z = [y EXCEPT !.at = a.at]
      BY <1>3, <1>5
    <3> QED  BY <2>3, <3>1 DEF IsMem
  <2>5. z.tables = y.tables /\ z.free = y.free /\ z.oom = y.oom /\ z.at = a.at
    BY <2>4
  <2>6. ~y.oom => Maps(m, z, r, X, v, z.at)
    BY <1>2, <1>5, <2>2, <2>3, <2>5 DEF Maps
  <2>7. z.oom \in BOOLEAN
    BY <2>3, <2>5 DEF IsMem
  <2> QED  BY <1>2, <1>5, <2>5, <2>6, <2>7 DEF z
<1> QED  BY <1>4, <1>5

\* Tables u are tables t with the kernel half in frame x.
Shares(t, u, x) ==
  u = [t EXCEPT ![x] = [i \in Entry |-> IF i >= Radix \div 2 THEN t[KernelRoot][i] ELSE 0]]

\* A frame becomes the root of a process.
Rooting(t, u, fr, X, x) == Forest(t, fr, 0, X) /\ x \in X /\ Shares(t, u, x)

Rooted(t, u, fr, X, x) ==
  /\ Forest(u, fr, x, X \ {x})
  /\ \A w \in KernelPages : Walk(u, x, w, 4) = Walk(t, 0, w, 4)
  /\ \A w \in UserPages : Walk(u, x, w, 4) = 0
  /\ \A i \in Entry : u[KernelRoot][i] = t[KernelRoot][i]

LEMMA RootForest ==
  ASSUME NEW t, NEW fr, NEW X, NEW x, NEW u, Rooting(t, u, fr, X, x)
  PROVE  Rooted(t, u, fr, X, x)
<1>0. Forest(t, fr, 0, X) /\ x \in X /\ Shares(t, u, x)
  BY DEF Rooting
<1> USE <1>0
<1> DEFINE Y == X \ {x}
<1>1. /\ Types(t, fr, 0, X) /\ OneParent(t, 0) /\ Linked(t, fr, 0, X) /\ Blank(t, fr, 0, X)
      /\ Placed(t, fr, 0, X)
  BY DEF Forest
<1>2. x \in Frames /\ x \in Nodes /\ KernelRoot \in Nodes /\ x # 0 /\ x # KernelRoot
      /\ fr[x] = 0 /\ x \in 0..FrameCount
  BY <1>1, NodeFacts DEF Types, Blank
<1>3. u \in [Nodes -> [Entry -> 0..FrameCount]]
  BY <1>1, <1>2 DEF Types, Shares
<1>4. \A n \in Nodes : n # x => u[n] = t[n]
  BY <1>1, <1>2 DEF Types, Shares
<1>5. \A i \in Entry : u[x][i] = IF i >= Radix \div 2 THEN t[KernelRoot][i] ELSE 0
  BY <1>1, <1>2 DEF Types, Shares
<1>6. \A i \in Entry : u[KernelRoot][i] = t[KernelRoot][i]
  BY <1>2, <1>4
<1>7. Types(u, fr, x, Y)
  BY <1>1, <1>2, <1>3 DEF Types
<1>8. OneParent(u, x)
  <2> SUFFICES ASSUME NEW n \in Nodes, NEW m \in Nodes, NEW i \in Entry, NEW j \in Entry,
                      u[n][i] # 0, u[n][i] = u[m][j], ~Copied(x, n, i), ~Copied(x, m, j)
               PROVE  n = m /\ i = j
    BY DEF OneParent
  <2>1. n # x /\ m # x
    BY <1>5 DEF Copied
  <2>2. ~Copied(0, n, i) /\ ~Copied(0, m, j)
    BY NodeFacts DEF Copied
  <2> QED  BY <1>1, <1>4, <2>1, <2>2 DEF OneParent
<1>9. Linked(u, fr, x, Y)
  <2>1. \A n \in Nodes, i \in Entry : u[n][i] # 0 =>
          \E m \in Nodes : u[n][i] = t[m][i]
    BY <1>2, <1>4, <1>5
  <2> QED  BY <1>1, <2>1 DEF Linked
<1>10. Blank(u, fr, x, Y)
  <2>1. ASSUME NEW f \in Frames, fr[f] = 1 \/ f \in Y
        PROVE  f # x /\ u[f] = Empty
    <3>1. f # x /\ f \in Nodes
      BY <1>2, <2>1, NodeFacts
    <3> QED  BY <1>1, <1>4, <2>1, <3>1 DEF Blank
  <2> QED  BY <1>1, <2>1 DEF Blank
<1> DEFINE E(w, k) == Walk(u, x, w, k) = IF w < KernelBase THEN (IF k = 0 THEN x ELSE 0)
                                         ELSE Walk(t, 0, w, k)
<1>11. ASSUME NEW w \in Pages
       PROVE  E(w, 0)
  BY WalkStep DEF Home
<1>12. ASSUME NEW w \in Pages, NEW k \in 1..4, E(w, k - 1)
       PROVE  E(w, k)
  <2> DEFINE a == Walk(u, x, w, k - 1)
             b == Walk(t, 0, w, k - 1)
  <2>1. /\ Walk(u, x, w, k) = IF a = 0 THEN 0 ELSE u[a][Index(w, k)]
        /\ Walk(t, 0, w, k) = IF b = 0 THEN 0 ELSE t[b][Index(w, k)]
    <3>1. Walk(u, x, w, k) = IF a = 0 THEN 0 ELSE u[a][Index(w, k)]
      BY WalkStep
    <3>2. Walk(t, 0, w, k) = IF b = 0 THEN 0 ELSE t[b][Index(w, k)]
      BY WalkStep
    <3> HIDE DEF a, b
    <3> QED  BY <3>1, <3>2
  <2>2. CASE w < KernelBase
    <3>1. CASE k = 1
      <4>1. u[x][Index(w, 1)] = 0
        <5>1. Index(w, 1) \in Entry /\ Index(w, 1) < Radix \div 2
          BY <2>2, PrefixStep, HalfIndex DEF Half
        <5>2. ~(Index(w, 1) >= Radix \div 2)
          BY <5>1, RadixHalf DEF Half, Entry
        <5> QED  BY <1>5, <5>1, <5>2
      <4>2. a = x
        BY <1>12, <2>2, <3>1
      <4> HIDE DEF a
      <4> QED  BY <2>1, <2>2, <3>1, <4>1, <4>2
    <3>2. CASE k # 1
      <4>1. a = 0
        BY <1>12, <2>2, <3>2
      <4> HIDE DEF a
      <4> QED  BY <2>1, <2>2, <3>2, <4>1
    <3> QED  BY <3>1, <3>2
  <2>3. CASE ~(w < KernelBase)
    <3>1. a = b
      BY <1>12, <2>3
    <3>2. b # 0 => b \in Nodes /\ b # x
      <4>1. CASE k = 1
        <5>1. b = KernelRoot
          BY <2>3, <4>1, WalkStep DEF Home
        <5> QED  BY <1>2, <5>1
      <4>2. CASE k # 1
        <5>1. k - 1 \in 1..4
          BY <4>2
        <5>2. b # 0 => b \in Frames /\ b \notin X
          BY <5>1, WalkInUse
        <5> QED  BY <5>2, NodeFacts
      <4> QED  BY <4>1, <4>2
    <3> HIDE DEF a, b
    <3> QED  BY <1>4, <2>1, <2>3, <3>1, <3>2
  <2> QED  BY <2>2, <2>3
<1>13. ASSUME NEW w \in Pages
       PROVE  \A k \in 0..4 : E(w, k)
  <2> HIDE DEF E
  <2>1. E(w, 1)
    BY <1>11, <1>12
  <2>2. E(w, 2)
    BY <1>12, <2>1
  <2>3. E(w, 3)
    BY <1>12, <2>2
  <2>4. E(w, 4)
    BY <1>12, <2>3
  <2>5. \A j \in 0..4 : j = 0 \/ j = 1 \/ j = 2 \/ j = 3 \/ j = 4
    OBVIOUS
  <2> QED  BY <1>11, <2>1, <2>2, <2>3, <2>4, <2>5
<1>14. Placed(u, fr, x, Y)
  <2> SUFFICES ASSUME NEW f \in Frames, fr[f] # 1, f # x, f \notin Y
               PROVE  \E w \in Pages, k \in 1..4 : Walk(u, x, w, k) = f
    BY DEF Placed
  <2>1. PICK w \in Pages, k \in 1..4 : Walk(t, 0, w, k) = f
    BY <1>1, NodeFacts DEF Placed
  <2>2. ~(w < KernelBase)
    <3> SUFFICES ASSUME w < KernelBase PROVE FALSE
      OBVIOUS
    <3>1. Walk(t, 0, w, 1 - 1) = 0 /\ 1 \in 1..4 /\ 1 <= k
      BY DEF Walk, Home
    <3>2. Walk(t, 0, w, 1) = 0
      BY <3>1, WalkStep
    <3>3. Walk(t, 0, w, k) = 0
      BY <3>1, <3>2, WalkEnds
    <3> QED  BY <2>1, <3>3, NodeFacts
  <2>3. k \in 0..4
    OBVIOUS
  <2>4. Walk(u, x, w, k) = f
    BY <1>13, <2>1, <2>2, <2>3
  <2> QED  BY <2>4
<1>15. Forest(u, fr, x, Y)
  BY <1>5, <1>6, <1>7, <1>8, <1>9, <1>10, <1>14 DEF Forest
<1>16. 4 \in 0..4 /\ 4 # 0
  OBVIOUS
<1> QED  BY <1>6, <1>13, <1>15, <1>16, PageBounds DEF Rooted

-----------------------------------------------------------------------------
\* What a sound state says about translations and frames.

LEMMA WalkNode ==
  ASSUME NEW t, NEW r, NEW v \in Pages, NEW k \in 1..4
  PROVE  Walk(t, r, v, k) = Node(t, IF v < KernelBase THEN r ELSE KernelRoot, v, k)
<1>1. k # 0
  OBVIOUS
<1> QED  BY <1>1 DEF Walk, Home

LEMMA SoundTranslation == Sound => TranslationExact
<1> SUFFICES ASSUME Sound, NEW v \in UserPages
             PROVE  vmm_virt_to_phys_as(tables, root, v) = wanted[v]
  BY DEF TranslationExact
<1>1. v \in Pages /\ v < KernelBase /\ 4 \in 1..4
  BY PageBounds
<1>2. Walk(tables, root, v, 4) = Node(tables, root, v, 4)
  BY <1>1, WalkNode
<1> QED  BY <1>2 DEF Sound, Translates, vmm_virt_to_phys_as

\* Below a root that shares the kernel half, kernel pages are those of the kernel.
LEMMA SoundShared == Sound => KernelShared
<1> SUFFICES ASSUME Sound, root # 0, NEW v \in KernelPages
             PROVE  vmm_virt_to_phys_as(tables, root, v) = vmm_virt_to_phys_as(tables, KernelRoot, v)
  BY DEF KernelShared
<1>1. Index(v, 1) \in Entry /\ Index(v, 1) >= Radix \div 2
  <2>1. v \in Pages /\ ~(v < KernelBase)
    BY PageBounds
  <2>2. Index(v, 1) \in Entry /\ ~(Index(v, 1) < Half)
    BY <2>1, PrefixStep, HalfIndex
  <2> QED  BY <2>2, RadixHalf DEF Half, Entry
<1>2. tables[root][Index(v, 1)] = tables[KernelRoot][Index(v, 1)]
  BY <1>1 DEF Sound, Forest
<1>3. Below(tables, root, v, 1) = Below(tables, KernelRoot, v, 1)
  BY <1>2, NodeFacts DEF Below
<1> QED  BY <1>3 DEF vmm_virt_to_phys_as, Node

\* The places of frame f in the kernel's tree: what KernelUses counts.
KernelPlaces(t, f) == {s \in (1..4) \X KernelPages :
                         s[2] % Span(s[1]) = 0 /\ Node(t, KernelRoot, s[2], s[1]) = f}

LEMMA PlacesFinite ==
  /\ \A t, r, f : IsFiniteSet(Uses(t, r, f))
  /\ \A t, f : IsFiniteSet(KernelPlaces(t, f))
<1>1. IsFiniteSet(1..4)
  <2>1. 1 \in Int /\ 4 \in Int
    OBVIOUS
  <2> QED  BY <2>1, FS_Interval
<1>2. IsFiniteSet(UserPages)
  <2>1. 0 \in Int /\ KernelBase - 1 \in Int
    BY PageBounds
  <2> QED  BY <2>1, FS_Interval DEF UserPages
<1>3. IsFiniteSet(KernelPages)
  <2>1. KernelBase \in Int /\ Span(0) - 1 \in Int
    BY PageBounds, Spans
  <2> QED  BY <2>1, FS_Interval DEF KernelPages
<1>4. IsFiniteSet((1..4) \X UserPages)
  BY <1>1, <1>2, FS_Product
<1>5. IsFiniteSet((1..4) \X KernelPages)
  BY <1>1, <1>3, FS_Product
<1>6. \A t, r, f : Uses(t, r, f) \subseteq (1..4) \X UserPages
  BY DEF Uses, Places
<1>7. \A t, f : KernelPlaces(t, f) \subseteq (1..4) \X KernelPages
  BY DEF KernelPlaces
<1> QED  BY <1>4, <1>5, <1>6, <1>7, FS_Subset

LEMMA AtMostOne ==
  ASSUME NEW S, IsFiniteSet(S), \A x, y \in S : x = y
  PROVE  /\ Cardinality(S) = 0 \/ Cardinality(S) = 1
         /\ Cardinality(S) = 0 => S = {}
         /\ S = {} => Cardinality(S) = 0
<1>1. CASE S = {}
  BY <1>1, FS_EmptySet
<1>2. CASE S # {}
  <2>1. PICK x \in S : TRUE
    BY <1>2
  <2>2. S = {x}
    BY <2>1
  <2>3. Cardinality(S) = 1
    BY <2>2, FS_Singleton
  <2> QED  BY <1>2, <2>3
<1> QED  BY <1>1, <1>2

LEMMA CountZero ==
  ASSUME NEW S, IsFiniteSet(S)
  PROVE  Cardinality(S) \in Nat /\ (Cardinality(S) = 0 <=> S = {})
BY FS_EmptySet, FS_CardinalityType

\* A place is met on a walk, and every walk to a frame gives it a place.
LEMMA UsesWalk ==
  ASSUME NEW t, NEW r, NEW f, NEW s \in Uses(t, r, f)
  PROVE  /\ s[1] \in 1..4 /\ s[2] \in Pages /\ s[2] < KernelBase /\ s = <<s[1], s[2]>>
         /\ s[2] % Span(s[1]) = 0 /\ Walk(t, r, s[2], s[1]) = f
<1>1. s \in (1..4) \X UserPages /\ s[2] % Span(s[1]) = 0 /\ Node(t, r, s[2], s[1]) = f
  BY DEF Uses, Places
<1>2. s[1] \in 1..4 /\ s[2] \in UserPages /\ s = <<s[1], s[2]>>
  BY <1>1
<1>3. s[2] \in Pages /\ s[2] < KernelBase
  BY <1>2, PageBounds
<1>4. Walk(t, r, s[2], s[1]) = Node(t, r, s[2], s[1])
  BY <1>2, <1>3, WalkNode
<1> QED  BY <1>1, <1>2, <1>3, <1>4

LEMMA KernelPlacesWalk ==
  ASSUME NEW t, NEW r, NEW f, NEW s \in KernelPlaces(t, f)
  PROVE  /\ s[1] \in 1..4 /\ s[2] \in Pages /\ ~(s[2] < KernelBase) /\ s = <<s[1], s[2]>>
         /\ s[2] % Span(s[1]) = 0 /\ Walk(t, r, s[2], s[1]) = f
<1>1. s \in (1..4) \X KernelPages /\ s[2] % Span(s[1]) = 0 /\ Node(t, KernelRoot, s[2], s[1]) = f
  BY DEF KernelPlaces
<1>2. s[1] \in 1..4 /\ s[2] \in KernelPages /\ s = <<s[1], s[2]>>
  BY <1>1
<1>3. s[2] \in Pages /\ ~(s[2] < KernelBase)
  BY <1>2, PageBounds
<1>4. Walk(t, r, s[2], s[1]) = Node(t, KernelRoot, s[2], s[1])
  BY <1>2, <1>3, WalkNode
<1> QED  BY <1>1, <1>2, <1>3, <1>4

LEMMA HasPlace ==
  ASSUME NEW t, NEW r, NEW f, NEW w \in Pages, NEW k \in 1..4, Walk(t, r, w, k) = f
  PROVE  IF w < KernelBase THEN Uses(t, r, f) # {} ELSE KernelPlaces(t, f) # {}
<1>1. PICK p \in Pages : p % Span(k) = 0 /\ Prefix(p, k) = Prefix(w, k)
  BY PlaceOf
<1>2. (p < KernelBase <=> w < KernelBase) /\ Walk(t, r, p, k) = f
  <2>1. k \in 0..4 /\ k <= k
    OBVIOUS
  <2> QED  BY <1>1, <2>1, SameHalf, WalkAgrees
<1>3. CASE w < KernelBase
  <2>1. Node(t, r, p, k) = f /\ p \in UserPages
    BY <1>2, <1>3, WalkNode, PageBounds
  <2>2. <<k, p>> \in Uses(t, r, f)
    BY <1>1, <2>1 DEF Uses, Places
  <2> QED  BY <1>3, <2>2
<1>4. CASE ~(w < KernelBase)
  <2>1. Node(t, KernelRoot, p, k) = f /\ p \in KernelPages
    BY <1>2, <1>4, WalkNode, PageBounds
  <2>2. <<k, p>> \in KernelPlaces(t, f)
    BY <1>1, <2>1 DEF KernelPlaces
  <2> QED  BY <1>4, <2>2
<1> QED  BY <1>3, <1>4

\* In a forest a frame has one place.
LEMMA OnePlace ==
  ASSUME NEW t, NEW fr, NEW r, NEW X, Forest(t, fr, r, X), NEW f \in Frames
  PROVE  /\ \A s, q \in KernelPlaces(t, f) : s = q
         /\ r # 0 => \A s, q \in Uses(t, r, f) : s = q
         /\ KernelPlaces(t, f) # {} => f # r /\ fr[f] = 0 /\ (r # 0 => Uses(t, r, f) = {})
         /\ r # 0 /\ Uses(t, r, f) # {} => f # r /\ fr[f] = 0
<1>1. f # 0
  BY NodeFacts
<1>2. ASSUME NEW v \in Pages, NEW w \in Pages, NEW k \in 1..4, NEW j \in 1..4,
             Walk(t, r, v, k) = f, Walk(t, r, w, j) = f
      PROVE  k = j /\ Prefix(v, k) = Prefix(w, k) /\ (v < KernelBase <=> w < KernelBase)
             /\ (v % Span(k) = 0 /\ w % Span(j) = 0 => v = w)
  <2>1. k \in 0..4 /\ j \in 0..4
    OBVIOUS
  <2>2. k = j /\ Prefix(v, k) = Prefix(w, k)
    BY <1>1, <1>2, <2>1, Unique
  <2>3. v < KernelBase <=> w < KernelBase
    BY <2>2, SameHalf
  <2>4. v % Span(k) = 0 /\ w % Span(j) = 0 => v = w
    BY <2>2, PlaceUnique
  <2> QED  BY <2>2, <2>3, <2>4
<1>3. ASSUME NEW v \in Pages, NEW k \in 1..4, Walk(t, r, v, k) = f
      PROVE  f # r /\ fr[f] = 0
  BY <1>1, <1>3, WalkInUse
<1>4. /\ \A s \in Uses(t, r, f) :
           /\ s[1] \in 1..4 /\ s[2] \in Pages /\ s[2] < KernelBase /\ s = <<s[1], s[2]>>
           /\ s[2] % Span(s[1]) = 0 /\ Walk(t, r, s[2], s[1]) = f
      /\ \A s \in KernelPlaces(t, f) :
           /\ s[1] \in 1..4 /\ s[2] \in Pages /\ ~(s[2] < KernelBase) /\ s = <<s[1], s[2]>>
           /\ s[2] % Span(s[1]) = 0 /\ Walk(t, r, s[2], s[1]) = f
  BY UsesWalk, KernelPlacesWalk
<1>5. \A s, q \in KernelPlaces(t, f) : s = q
  <2> SUFFICES ASSUME NEW s \in KernelPlaces(t, f), NEW q \in KernelPlaces(t, f) PROVE s = q
    OBVIOUS
  <2>1. s[1] = q[1] /\ s[2] = q[2]
    BY <1>2, <1>4
  <2> QED  BY <1>4, <2>1
<1>6. ASSUME r # 0, NEW s \in Uses(t, r, f), NEW q \in Uses(t, r, f)
      PROVE  s = q
  <2>1. s[1] = q[1] /\ s[2] = q[2]
    BY <1>2, <1>4, <1>6
  <2> QED  BY <1>4, <1>6, <2>1
<1>7. ASSUME r # 0, NEW s \in Uses(t, r, f), NEW q \in KernelPlaces(t, f)
      PROVE  FALSE
  BY <1>2, <1>4, <1>7
<1>8. \A s \in KernelPlaces(t, f) : f # r /\ fr[f] = 0
  BY <1>3, <1>4
<1>9. r # 0 => \A s \in Uses(t, r, f) : f # r /\ fr[f] = 0
  BY <1>3, <1>4
<1> QED  BY <1>5, <1>6, <1>7, <1>8, <1>9

LEMMA SoundFrames == Sound => FramesUsedOnce
<1> SUFFICES ASSUME Sound, NEW f \in Frames
             PROVE  KernelUses(f) + free[f] + (IF f = root THEN 1 ELSE 0)
                      + (IF root = 0 THEN 0 ELSE Cardinality(Uses(tables, root, f))) <= 1
  BY DEF FramesUsedOnce
<1> DEFINE K == Cardinality(KernelPlaces(tables, f))
           U == Cardinality(Uses(tables, root, f))
           R == IF f = root THEN 1 ELSE 0
<1>1. Forest(tables, free, root, Pending)
  BY DEF Sound
<1>2. KernelUses(f) = K
  BY DEF KernelUses, KernelPlaces
<1>3. /\ \A s, q \in KernelPlaces(tables, f) : s = q
      /\ root # 0 => \A s, q \in Uses(tables, root, f) : s = q
      /\ KernelPlaces(tables, f) # {} => f # root /\ free[f] = 0 /\ (root # 0 => Uses(tables, root, f) = {})
      /\ root # 0 /\ Uses(tables, root, f) # {} => f # root /\ free[f] = 0
  BY <1>1, OnePlace
<1>4. (K = 0 \/ K = 1) /\ (K = 0 => KernelPlaces(tables, f) = {}) /\ (KernelPlaces(tables, f) = {} => K = 0)
  BY <1>3, PlacesFinite, AtMostOne
<1>5. root # 0 => /\ U = 0 \/ U = 1
                  /\ (U = 0 => Uses(tables, root, f) = {}) /\ (Uses(tables, root, f) = {} => U = 0)
  BY <1>3, PlacesFinite, AtMostOne
<1>6. free[f] \in 0..1 /\ (free[f] = 1 => f # root) /\ f # 0
  BY <1>1, NodeFacts DEF Forest, Types, Blank
<1> HIDE DEF K, U
<1>7. CASE root = 0
  BY <1>2, <1>3, <1>4, <1>6, <1>7
<1>8. CASE root # 0
  <2>1. K + free[f] + R + U <= 1
    BY <1>3, <1>4, <1>5, <1>6, <1>8
  <2> QED  BY <1>2, <1>8, <2>1 DEF U
<1> QED  BY <1>7, <1>8

-----------------------------------------------------------------------------
\* The steps.

LEMMA StackFacts ==
  /\ StackTop \in Nat /\ StackPages \in Nat \ {0} /\ bottom_max \in Nat
  /\ bottom_max <= StackTop - StackPages /\ StackTop <= KernelBase
  /\ \A v \in bottom_max..(StackTop - 1) : v \in UserPages
<1>1. StackTop \in Nat /\ StackPages \in Nat \ {0} /\ StackGrowth \in Nat /\ bottom_max \in Nat
  BY StackAssumption
<1>2. bottom_max <= StackTop - StackPages
  BY <1>1 DEF bottom_max
<1>3. StackTop <= KernelBase /\ KernelBase \in Nat
  BY StackAssumption, PageBounds
<1> QED  BY <1>1, <1>2, <1>3 DEF UserPages

LEMMA SoundStack == Sound => StackSound
<1> SUFFICES ASSUME Sound, pc = "run"
             PROVE  /\ bottom_max <= bottom
                    /\ \A v \in bottom_max..(StackTop - 1) : wanted[v] # 0 <=> v >= bottom
  BY DEF StackSound
<1>1. bottom \in bottom_max..(StackTop - StackPages) /\ root # 0
  BY DEF Sound, StackGrows, Order
<1>2. \A v \in bottom_max..(StackTop - 1) : wanted[v] # 0 <=> bottom <= v
  BY <1>1 DEF Sound, StackGrows
<1>3. \A v \in bottom_max..(StackTop - 1) : bottom <= v <=> v >= bottom
  BY <1>1, StackFacts
<1> QED  BY <1>1, <1>2, <1>3, StackFacts

LEMMA InitSound == Init => Sound
<1> SUFFICES ASSUME Init
             PROVE  Sound
  OBVIOUS
<1> USE DEF Init
<1>1. /\ \A n \in Nodes : tables[n] = Empty
      /\ \A n \in Nodes, i \in Entry : tables[n][i] = 0
  BY DEF Empty
<1>2. \A v \in Pages, k \in 1..4 : Walk(tables, root, v, k) = 0
  <2> SUFFICES ASSUME NEW v \in Pages, NEW k \in 1..4
               PROVE  Walk(tables, root, v, k) = 0
    OBVIOUS
  <2>1. 1 \in 1..4 /\ 1 <= k /\ 1 - 1 = 0
    OBVIOUS
  <2>2. Index(v, 1) \in Entry
    BY <2>1, PrefixStep
  <2>3. Walk(tables, root, v, 0) = 0 \/ Walk(tables, root, v, 0) = KernelRoot
    BY <2>1, WalkStep DEF Home
  <2>4. Walk(tables, root, v, 1) = 0
    BY <2>1, <2>2, <2>3, <1>1, WalkStep, NodeFacts
  <2> QED  BY <2>1, <2>4, WalkEnds
<1>3. Pending = {}
  BY DEF Pending
<1>4. Types(tables, free, root, Pending)
  <2>1. Empty \in [Entry -> 0..FrameCount]
    BY NodeFacts DEF Empty
  <2> QED  BY <1>3, <2>1, NodeFacts DEF Types
<1>5. OneParent(tables, root)
  BY <1>1 DEF OneParent
<1>6. Linked(tables, free, root, Pending)
  BY <1>1 DEF Linked
<1>7. Blank(tables, free, root, Pending)
  BY <1>1, <1>3, NodeFacts DEF Blank
<1>8. Placed(tables, free, root, Pending)
  BY DEF Placed
<1>9. Forest(tables, free, root, Pending)
  BY <1>4, <1>5, <1>6, <1>7, <1>8 DEF Forest
<1>10. Order
  BY DEF Order
<1>11. HeapSound
  <2>1. \A v \in KernelPages : v \in Pages
    BY PageBounds
  <2>2. HeapPages \in Nat /\ 4 \in 1..4
    BY TreeAssumption
  <2> QED  BY <1>2, <2>1, <2>2 DEF HeapSound
<1>12. Translates
  <2>1. \A v \in UserPages : v \in Pages
    BY PageBounds
  <2>2. wanted \in [UserPages -> 0..FrameCount] /\ 4 \in 1..4
    BY NodeFacts
  <2> QED  BY <1>2, <2>1, <2>2 DEF Translates
<1>13. SegmentsWait
  BY DEF SegmentsWait
<1>14. StackGrows
  BY StackFacts DEF StackGrows
<1> QED  BY <1>9, <1>10, <1>11, <1>12, <1>13, <1>14 DEF Sound

LEMMA MemoryFacts ==
  /\ IsMem(Memory) /\ ~Memory.oom /\ Memory.tables = tables /\ Memory.free = free
BY DEF Memory, IsMem

LEMMA PendingNone ==
  ASSUME phys = <<>>, mapped \in 0..Len(phys)
  PROVE  Pending = {}
<1>1. Len(phys) = 0 /\ mapped = 0
  OBVIOUS
<1> QED  BY <1>1 DEF Pending

\* The parts of Sound that are about the tables.
InTables == Forest(tables, free, root, Pending) /\ HeapSound /\ Translates

\* A page of the kernel's heap appears in the shared half and moves no other page.
LEMMA HeapStep ==
  ASSUME Sound, NEW next, HeapGrow(next), phys = <<>>, pc = "boot" \/ next # "boot"
  PROVE  pc' = "panic" \/ (pc' = next /\ InTables')
<1> DEFINE v == HeapStart + 2 * heap
           z == MapFresh(Memory, KernelRoot, v)
<1>1. /\ heap \in 0..HeapPages /\ heap < HeapPages /\ HeapPages \in Nat /\ heap \in Nat
      /\ pc # "boot" => heap > 0
      /\ heap > 0 => tables[KernelRoot][Half] # 0
      /\ \A w \in KernelPages : w >= HeapStart + 2 * heap => Walk(tables, root, w, 4) = 0
  BY TreeAssumption DEF Sound, HeapSound, HeapGrow, Half
<1>2. v \in KernelPages /\ Index(v, 1) = Half
  BY <1>1, HeapIndex
<1>3. v \in Pages /\ ~(v < KernelBase) /\ v \in Nat
  BY <1>2, PageBounds
<1>4. Home(root, v) = KernelRoot /\ KernelRoot # 0
  BY <1>3, NodeFacts DEF Home
<1>5. Pending = {} /\ Pending' = {}
  <2>1. mapped \in 0..Len(phys) /\ phys' = phys /\ mapped' = mapped
    BY DEF Sound, Order, HeapGrow
  <2>2. Pending = {}
    BY <2>1, PendingNone
  <2> QED  BY <2>1, <2>2 DEF Pending
<1>6. Mappable(Memory, root, {}, v)
  <2>1. Walk(tables, root, v, 4) = 0
    BY <1>1, <1>2, <1>3
  <2>2. root = 0 \/ tables[KernelRoot][Index(v, 1)] # 0
    BY <1>1, <1>2 DEF Sound, Order
  <2>3. Forest(tables, free, root, {})
    BY <1>5 DEF Sound
  <2> QED  BY <1>3, <1>4, <2>1, <2>2, <2>3, MemoryFacts DEF Mappable
<1>7. z.oom \in BOOLEAN /\ (~z.oom => z.at \in Frames /\ Maps(Memory, z, root, {}, v, z.at))
  BY <1>4, <1>6, FreshMem
<1>8. /\ tables' = z.tables /\ free' = z.free /\ pc' = (IF z.oom THEN "panic" ELSE next)
      /\ heap' = heap + 1 /\ root' = root /\ wanted' = wanted
  BY DEF HeapGrow, Becomes
<1> HIDE DEF v, z
<1>9. ASSUME ~z.oom
      PROVE  InTables'
  <2>1. /\ Forest(tables', free', root, {} \ {z.at})
        /\ \A w \in Pages : Walk(tables', root, w, 4) = IF w = v THEN z.at ELSE Walk(tables, root, w, 4)
        /\ \A i \in Entry : tables[KernelRoot][i] # 0 => tables'[KernelRoot][i] # 0
        /\ tables'[KernelRoot][Half] # 0
    BY <1>2, <1>4, <1>7, <1>8, <1>9, MemoryFacts DEF Maps
  <2>2. Forest(tables', free', root', Pending')
    <3>1. {} \ {z.at} = {}
      OBVIOUS
    <3> QED  BY <1>5, <1>8, <2>1, <3>1
  <2>3. HeapSound'
    <3>1. heap' \in 0..HeapPages /\ heap' > 0
      BY <1>1, <1>8
    <3>2. ASSUME NEW w \in KernelPages, w >= HeapStart + 2 * heap'
          PROVE  Walk(tables', root', w, 4) = 0
      <4>1. w \in Pages /\ w \in Nat /\ HeapStart \in Nat
        BY PageBounds DEF HeapStart
      <4>2. w >= HeapStart + 2 * heap /\ w # v
        BY <1>1, <1>8, <3>2, <4>1 DEF v
      <4> QED  BY <1>1, <1>8, <2>1, <4>1, <4>2
    <3> QED  BY <2>1, <3>1, <3>2 DEF HeapSound, Half
  <2>4. Translates'
    <3>1. ASSUME NEW w \in UserPages
          PROVE  Walk(tables', root', w, 4) = wanted'[w]
      <4>1. w \in Pages /\ w # v
        BY <1>3, PageBounds
      <4> QED  BY <1>8, <2>1, <4>1 DEF Sound, Translates
    <3>2. wanted' \in [UserPages -> 0..FrameCount]
      BY <1>8 DEF Sound, Translates
    <3> QED  BY <3>1, <3>2 DEF Translates
  <2> QED  BY <2>2, <2>3, <2>4 DEF InTables
<1> QED  BY <1>7, <1>8, <1>9

\* Page v of the process, which led nowhere, leads to frame x.
UserMap(z, X, v, x) ==
  /\ Maps(Memory, z, root, X, v, x) /\ x \in Frames /\ v \in UserPages
  /\ tables' = z.tables /\ free' = z.free /\ root' = root /\ heap' = heap
  /\ Pending' = X \ {x} /\ wanted' = [wanted EXCEPT ![v] = x]

LEMMA UserStep ==
  ASSUME Sound, NEW z, NEW X, NEW v, NEW x, UserMap(z, X, v, x), root # 0
  PROVE  InTables'
<1>1. v \in Pages /\ v < KernelBase /\ v \in UserPages /\ x \in Frames
  BY PageBounds DEF UserMap
<1>2. /\ Forest(tables', free', root', Pending')
      /\ \A w \in Pages : Walk(tables', root', w, 4) = IF w = v THEN x ELSE Walk(tables, root, w, 4)
      /\ \A i \in Entry : tables[KernelRoot][i] # 0 => tables'[KernelRoot][i] # 0
      /\ root' = root /\ heap' = heap /\ wanted' = [wanted EXCEPT ![v] = x]
  BY MemoryFacts DEF UserMap, Maps
<1>3. HeapSound'
  <2>1. heap' \in 0..HeapPages /\ heap' > 0
    BY <1>2 DEF Sound, HeapSound, Order
  <2>2. tables'[KernelRoot][Radix \div 2] # 0
    <3>1. tables[KernelRoot][Half] # 0
      BY <1>2, <2>1 DEF Sound, HeapSound, Half
    <3> QED  BY <1>2, <3>1, RadixHalf DEF Half
  <2>3. ASSUME NEW w \in KernelPages, w >= HeapStart + 2 * heap'
        PROVE  Walk(tables', root', w, 4) = 0
    <3>1. w \in Pages /\ w # v
      BY <1>1, PageBounds
    <3> QED  BY <1>2, <2>3, <3>1 DEF Sound, HeapSound
  <2> QED  BY <2>1, <2>2, <2>3 DEF HeapSound
<1>4. Translates'
  <2>1. wanted' \in [UserPages -> 0..FrameCount]
    BY <1>1, <1>2, NodeFacts DEF Sound, Translates
  <2>2. ASSUME NEW w \in UserPages
        PROVE  Walk(tables', root', w, 4) = wanted'[w]
    <3>1. w \in Pages
      BY PageBounds
    <3> QED  BY <1>2, <3>1 DEF Sound, Translates
  <2> QED  BY <2>1, <2>2 DEF Translates
<1> QED  BY <1>2, <1>3, <1>4 DEF InTables

\* Without frames waiting to be mapped, a frame that is not the kernel's is free
\* or is in the process's tree.
LEMMA NoneLost ==
  ASSUME Sound, phys = <<>>, NEW f \in Frames, KernelUses(f) = 0
  PROVE  free[f] = 1 \/ (root # 0 /\ (f = root \/ Uses(tables, root, f) # {}))
<1>1. Pending = {}
  BY PendingNone DEF Sound, Order
<1>2. KernelPlaces(tables, f) = {}
  <2>1. Cardinality(KernelPlaces(tables, f)) = 0
    BY DEF KernelUses, KernelPlaces
  <2> QED  BY <2>1, PlacesFinite, CountZero
<1>3. \/ free[f] = 1 \/ f = root
      \/ \E v \in Pages, k \in 1..4 : Walk(tables, root, v, k) = f
  BY <1>1 DEF Sound, Forest, Placed
<1>4. f # 0
  BY NodeFacts
<1>5. ASSUME NEW v \in Pages, NEW k \in 1..4, Walk(tables, root, v, k) = f
      PROVE  root # 0 /\ Uses(tables, root, f) # {}
  <2>1. v < KernelBase /\ Uses(tables, root, f) # {}
    <3>1. IF v < KernelBase THEN Uses(tables, root, f) # {} ELSE KernelPlaces(tables, f) # {}
      BY <1>5, HasPlace
    <3> QED  BY <1>2, <3>1
  <2>2. 1 \in 1..4 /\ 1 <= k /\ 1 - 1 = 0
    OBVIOUS
  <2>3. root = 0 => Walk(tables, root, v, 1) = 0
    BY <2>1, <2>2, WalkStep DEF Home
  <2> QED  BY <1>4, <1>5, <2>1, <2>2, <2>3, WalkEnds
<1> QED  BY <1>3, <1>4, <1>5

\* Where a load has failed, destroying the address space frees what is not free.
LEMMA SoundDestroy == Sound => DestroyExact
<1> SUFFICES ASSUME Sound, pc = "fail", NEW f \in Frames, ~(KernelUses(f) > 0)
             PROVE  paging_destroy_address_space(Memory, root).free[f] = 1
  BY DEF DestroyExact
<1> DEFINE m == paging_destroy_address_space(Memory, root)
           g == [x \in Frames |-> free[x] + Cardinality(Uses(tables, root, x))
                                    + (IF x = root THEN 1 ELSE 0)]
           U == Cardinality(Uses(tables, root, f))
<1>1. phys = <<>> /\ root # 0 /\ free \in [Frames -> 0..1]
  BY DEF Sound, Order, Forest, Types
<1>2. m.free = g
  <2>1. m = [Memory EXCEPT !.free = g]
    BY MemoryFacts, Zenon DEF paging_destroy_address_space
  <2> QED  BY <2>1 DEF Memory
<1>3. KernelUses(f) = 0
  <2>1. KernelUses(f) = Cardinality(KernelPlaces(tables, f))
    BY DEF KernelUses, KernelPlaces
  <2>2. KernelUses(f) \in Nat
    BY <2>1, PlacesFinite, CountZero
  <2> QED  BY <2>2
<1>4. free[f] = 1 \/ f = root \/ Uses(tables, root, f) # {}
  BY <1>1, <1>3, NoneLost
<1>5. U \in Nat /\ (U = 0 => Uses(tables, root, f) = {})
  BY PlacesFinite, CountZero
<1>6. free[f] + (IF f = root THEN 1 ELSE 0) + U <= 1
  <2>1. pc \notin {"failed", "panic", "wild"}
    OBVIOUS
  <2>2. 0 + free[f] + (IF f = root THEN 1 ELSE 0) + U <= 1
    BY <1>1, <1>3, <2>1, SoundFrames DEF FramesUsedOnce
  <2> HIDE DEF U
  <2> QED  BY <1>1, <1>5, <2>2
<1>7. free[f] \in 0..1 /\ m.free[f] = free[f] + U + (IF f = root THEN 1 ELSE 0)
  BY <1>1, <1>2
<1> HIDE DEF U, m
<1> QED  BY <1>4, <1>5, <1>6, <1>7 DEF m

\* What the inductive invariant says.
LEMMA Consequences ==
  IInv => /\ TranslationExact /\ KernelShared /\ FramesUsedOnce
          /\ DestroyExact /\ StackSound
<1> SUFFICES ASSUME IInv
             PROVE  /\ TranslationExact /\ KernelShared /\ FramesUsedOnce
                    /\ DestroyExact /\ StackSound
  OBVIOUS
<1>1. CASE pc \in {"panic", "wild"}
  BY <1>1 DEF TranslationExact, KernelShared, FramesUsedOnce, DestroyExact, StackSound, Alive
<1>2. CASE pc = "failed" /\ root = 0 /\ touch = NoPage
  BY <1>2 DEF TranslationExact, KernelShared, FramesUsedOnce, DestroyExact, StackSound
<1>3. CASE Sound
  BY <1>3, SoundTranslation, SoundShared, SoundFrames, SoundDestroy, SoundStack
<1> QED  BY <1>1, <1>2, <1>3 DEF IInv

\* process_create has returned without a process.
LEMMA FailedStep == Sound /\ (ProcessRefused \/ CreateFails) => IInv'
<1> SUFFICES ASSUME Sound, ProcessRefused \/ CreateFails
             PROVE  pc' = "failed" /\ root' = 0 /\ touch' = NoPage
  BY DEF IInv
<1>1. CASE ProcessRefused
  BY <1>1 DEF Sound, Order, ProcessRefused, memory_and_process
<1>2. CASE CreateFails
  BY <1>2 DEF Sound, Order, CreateFails
<1> QED  BY <1>1, <1>2

\* Steps that leave memory and what is mapped in it alone.
LEMMA SameTables ==
  ASSUME Sound, pc' # "boot" => heap > 0, Pending' = Pending,
         UNCHANGED <<tables, free, heap, root, wanted>>
  PROVE  InTables'
<1>1. Forest(tables, free, root, Pending)'
  BY DEF Sound
<1>2. HeapSound'
  BY DEF Sound, HeapSound
<1>3. Translates'
  BY DEF Sound, Translates
<1> QED  BY <1>1, <1>2, <1>3 DEF InTables

LEMMA KernelAllocatesStep == Sound /\ KernelAllocates => IInv'
<1> SUFFICES ASSUME Sound, KernelAllocates, pc' # "panic"
             PROVE  Sound'
  BY DEF IInv
<1>1. phys = <<>> /\ touch = NoPage /\ HeapGrow(pc) /\ (pc = "boot" \/ pc # "boot")
  BY DEF KernelAllocates
<1>2. pc' = pc /\ InTables'
  BY <1>1, HeapStep
<1>3. UNCHANGED <<root, todo, phys, mapped, stack, bottom, touch, wanted>>
  BY <1>1 DEF HeapGrow
<1>4. Order'
  BY <1>2, <1>3 DEF Sound, Order
<1>5. SegmentsWait'
  BY <1>3 DEF Sound, SegmentsWait
<1>6. StackGrows'
  BY <1>2, <1>3 DEF Sound, StackGrows
<1> QED  BY <1>2, <1>4, <1>5, <1>6 DEF Sound, InTables

LEMMA ProcessCreateStep == Sound /\ ProcessCreate => IInv'
<1> SUFFICES ASSUME Sound, ProcessCreate, pc' # "panic"
             PROVE  Sound'
  BY DEF IInv
<1>1. pc = "boot" /\ root = 0 /\ phys = <<>>
  BY DEF ProcessCreate, Sound, Order
<1>2. /\ pc' = "space" /\ InTables'
      /\ UNCHANGED <<root, todo, phys, mapped, stack, bottom, touch, wanted>>
  <2>1. CASE HeapGrow("space")
    <3>1. pc' = "space" /\ InTables'
      BY <1>1, <2>1, HeapStep
    <3> QED  BY <2>1, <3>1 DEF HeapGrow
  <2>2. CASE heap > 0 /\ pc' = "space" /\ UNCHANGED memory_and_process
    <3>1. Pending' = Pending /\ UNCHANGED <<tables, free, heap, root, wanted>>
      BY <2>2 DEF memory_and_process, Pending
    <3>2. InTables'
      BY <2>2, <3>1, SameTables
    <3> QED  BY <2>2, <3>2 DEF memory_and_process
  <2> QED  BY <2>1, <2>2 DEF ProcessCreate
<1>3. Order'
  BY <1>1, <1>2 DEF Sound, Order
<1>4. SegmentsWait'
  BY <1>2 DEF Sound, SegmentsWait
<1>5. StackGrows'
  BY <1>1, <1>2 DEF Sound, StackGrows
<1> QED  BY <1>2, <1>3, <1>4, <1>5 DEF Sound, InTables

\* Without a process no user page leads anywhere.
LEMMA NothingWanted ==
  ASSUME Sound, root = 0, NEW v \in UserPages
  PROVE  wanted[v] = 0
<1>1. v < KernelBase /\ v \in Pages
  BY PageBounds
<1>2. 1 \in 1..4 /\ 4 \in 1..4 /\ 1 <= 4 /\ 1 - 1 = 0
  OBVIOUS
<1>3. Walk(tables, root, v, 1) = 0
  BY <1>1, <1>2, WalkStep DEF Home
<1>4. Walk(tables, root, v, 4) = 0
  BY <1>2, <1>3, WalkEnds
<1> QED  BY <1>4 DEF Sound, Translates

\* The new address space.
LEMMA SpaceMem ==
  ASSUME NEW m, IsMem(m), ~m.oom, Forest(m.tables, m.free, 0, {})
  PROVE  LET z == paging_create_address_space(m)
         IN /\ z.oom \in BOOLEAN
            /\ ~z.oom => /\ z.at \in Frames /\ Forest(z.tables, z.free, z.at, {})
                         /\ \A w \in KernelPages : Walk(z.tables, z.at, w, 4) = Walk(m.tables, 0, w, 4)
                         /\ \A w \in UserPages : Walk(z.tables, z.at, w, 4) = 0
                         /\ \A i \in Entry : z.tables[KernelRoot][i] = m.tables[KernelRoot][i]
<1> DEFINE a == Alloc(m)
           u == [a.tables EXCEPT ![a.at] = paging_copy_kernel_half(a)]
           z == paging_create_address_space(m)
<1>1. /\ IsMem(a)
      /\ ~a.oom => /\ a.at \in Frames /\ a.tables = m.tables
                   /\ Forest(a.tables, a.free, 0, {} \cup {a.at})
  BY AllocMem
<1>2. z = IF a.oom THEN a ELSE [a EXCEPT !.tables[a.at] = paging_copy_kernel_half(a)]
  BY DEF paging_create_address_space
<1> HIDE DEF a, z
<1>3. CASE a.oom
  <2>1. z.oom \in BOOLEAN /\ z.oom
    BY <1>1, <1>2, <1>3 DEF IsMem
  <2> QED  BY <2>1 DEF z
<1>4. CASE ~a.oom
  <2>1. Shares(a.tables, u, a.at)
    BY DEF Shares, paging_copy_kernel_half
  <2>2. z = [tables |-> u, free |-> a.free, oom |-> a.oom, at |-> a.at]
    <3> DEFINE h == paging_copy_kernel_half(a)
    <3>1. z = [a EXCEPT !.tables[a.at] = h]
      BY <1>2, <1>4
    <3>2. u = [a.tables EXCEPT ![a.at] = h]
      OBVIOUS
    <3> HIDE DEF u, h
    <3> QED  BY <1>1, <3>1, <3>2 DEF IsMem
  <2> HIDE DEF u
  <2>3. z.tables = u /\ z.free = a.free /\ z.oom = a.oom /\ z.at = a.at
    BY <2>2
  <2> DEFINE X == {} \cup {a.at}
  <2>4. Forest(a.tables, a.free, 0, X) /\ a.at \in X /\ X \ {a.at} = {}
    BY <1>1, <1>4
  <2> HIDE DEF X
  <2>5. /\ Forest(u, a.free, a.at, X \ {a.at})
        /\ \A w \in KernelPages : Walk(u, a.at, w, 4) = Walk(a.tables, 0, w, 4)
        /\ \A w \in UserPages : Walk(u, a.at, w, 4) = 0
        /\ \A i \in Entry : u[KernelRoot][i] = a.tables[KernelRoot][i]
    <3>1. Rooting(a.tables, u, a.free, X, a.at)
      BY <2>1, <2>4 DEF Rooting
    <3>2. Rooted(a.tables, u, a.free, X, a.at)
      BY <3>1, RootForest
    <3> QED  BY <3>2 DEF Rooted
  <2>6. z.oom \in BOOLEAN
    BY <1>1, <2>3 DEF IsMem
  <2>7. /\ z.at \in Frames /\ Forest(z.tables, z.free, z.at, {})
        /\ \A w \in KernelPages : Walk(z.tables, z.at, w, 4) = Walk(m.tables, 0, w, 4)
        /\ \A w \in UserPages : Walk(z.tables, z.at, w, 4) = 0
        /\ \A i \in Entry : z.tables[KernelRoot][i] = m.tables[KernelRoot][i]
    BY <1>1, <1>4, <2>3, <2>4, <2>5
  <2> QED  BY <2>6, <2>7 DEF z
<1> QED  BY <1>3, <1>4

LEMMA CreateSpaceStep ==
  ASSUME Sound, NEW img \in Images, CreateSpace(img), pc' # "panic"
  PROVE  Sound'
<1> DEFINE z == paging_create_address_space(Memory)
<1>1. pc = "space" /\ root = 0 /\ phys = <<>> /\ mapped = 0 /\ touch = NoPage /\ stack = <<>>
  BY DEF CreateSpace, Sound, Order, StackGrows
<1>2. Pending = {} /\ Pending' = {}
  <2>1. Pending = {}
    BY <1>1, PendingNone DEF Sound, Order
  <2> QED  BY <2>1 DEF CreateSpace, Pending
<1>3. Forest(Memory.tables, Memory.free, 0, {})
  BY <1>1, <1>2, MemoryFacts DEF Sound
<1>4. /\ z.oom \in BOOLEAN
      /\ ~z.oom => /\ z.at \in Frames /\ Forest(z.tables, z.free, z.at, {})
                   /\ \A w \in KernelPages : Walk(z.tables, z.at, w, 4) = Walk(Memory.tables, 0, w, 4)
                   /\ \A w \in UserPages : Walk(z.tables, z.at, w, 4) = 0
                   /\ \A i \in Entry : z.tables[KernelRoot][i] = Memory.tables[KernelRoot][i]
  BY <1>3, MemoryFacts, SpaceMem
<1>5. /\ tables' = z.tables /\ free' = z.free /\ pc' = (IF z.oom THEN "panic" ELSE "stack")
      /\ root' = IF z.oom THEN 0 ELSE z.at
      /\ todo' = img /\ UNCHANGED <<heap, phys, mapped, stack, bottom, touch, wanted>>
  BY DEF CreateSpace, Becomes
<1> HIDE DEF z
<1>6. ~z.oom /\ pc' = "stack" /\ root' = z.at /\ root' # 0
  BY <1>4, <1>5, NodeFacts
<1>7. Forest(tables', free', root', Pending')
  BY <1>2, <1>4, <1>5, <1>6
<1>8. HeapSound'
  <2>1. heap' \in 0..HeapPages /\ heap' > 0 /\ heap' = heap
    BY <1>1, <1>5 DEF Sound, HeapSound
  <2>2. tables'[KernelRoot][Radix \div 2] # 0
    <3>1. tables[KernelRoot][Half] # 0
      BY <2>1 DEF Sound, HeapSound, Half
    <3> QED  BY <1>4, <1>5, <1>6, <3>1, RadixHalf, MemoryFacts DEF Half
  <2>3. \A w \in KernelPages : w >= HeapStart + 2 * heap' => Walk(tables', root', w, 4) = 0
    BY <1>1, <1>4, <1>5, <1>6, <2>1, MemoryFacts DEF Sound, HeapSound
  <2> QED  BY <2>1, <2>2, <2>3 DEF HeapSound
<1>9. \A v \in UserPages : wanted'[v] = 0
  BY <1>1, <1>5, NothingWanted
<1>10. Translates'
  BY <1>4, <1>5, <1>6, <1>9 DEF Sound, Translates
<1>11. Order'
  BY <1>1, <1>5, <1>6 DEF Sound, Order
<1>12. SegmentsWait'
  BY <1>5, <1>9, ImageAssumption DEF SegmentsWait
<1>13. StackGrows'
  <2>1. bottom' = bottom /\ stack' = <<>> /\ bottom \in Int /\ bottom = StackTop - StackPages
    BY <1>1, <1>5, StackFacts DEF Sound, StackGrows
  <2>2. bottom \in bottom_max..(StackTop - StackPages)
    BY DEF Sound, StackGrows
  <2>3. \A v \in bottom_max..(StackTop - 1) : wanted'[v] = 0 /\ ~(bottom' <= v /\ v < bottom' + Len(stack'))
    BY <1>9, <2>1, StackFacts
  <2> QED  BY <1>6, <2>1, <2>2, <2>3, StackFacts DEF StackGrows
<1> QED  BY <1>7, <1>8, <1>10, <1>11, <1>12, <1>13 DEF Sound

LEMMA SegmentInts ==
  ASSUME NEW s \in Segment
  PROVE  First(s) \in Nat /\ Count(s) \in Int
<1>1. Units \in Nat \ {0} /\ s.vaddr \in Nat /\ s.memsz \in Nat
  BY ImageAssumption DEF Segment
<1>2. s.vaddr + s.memsz + Units - 1 \in Nat
  BY <1>1
<1>3. s.vaddr \div Units \in Nat /\ (s.vaddr + s.memsz + Units - 1) \div Units \in Nat
  BY <1>1, <1>2, Division
<1> QED  BY <1>3 DEF First, Count

\* A page above the segments is mapped: they still wait.
LEMMA SegmentsKept ==
  ASSUME Sound, NEW v \in UserPages, v >= bottom_max, NEW x,
         UNCHANGED <<todo, mapped>>, wanted' = [wanted EXCEPT ![v] = x]
  PROVE  SegmentsWait'
<1>1. /\ todo \in Seq(Segment)
      /\ \A i \in 1..Len(todo) :
           /\ First(todo[i]) + Count(todo[i]) <= bottom_max
           /\ \A w \in UserPages :
                First(todo[i]) + (IF i = 1 THEN mapped ELSE 0) <= w /\ w < First(todo[i]) + Count(todo[i])
                  => wanted[w] = 0
  BY DEF Sound, SegmentsWait
<1>2. ASSUME NEW i \in 1..Len(todo), NEW w \in UserPages,
             First(todo[i]) + (IF i = 1 THEN mapped ELSE 0) <= w, w < First(todo[i]) + Count(todo[i])
      PROVE  wanted'[w] = 0
  <2>1. todo[i] \in Segment
    BY <1>1
  <2>2. First(todo[i]) \in Nat /\ Count(todo[i]) \in Int
    BY <2>1, SegmentInts
  <2>3. w \in Nat /\ v \in Nat /\ bottom_max \in Nat
    BY StackFacts, PageBounds
  <2>4. First(todo[i]) + Count(todo[i]) <= bottom_max
    BY <1>1
  <2>5. w # v
    BY <1>2, <2>2, <2>3, <2>4
  <2>6. wanted[w] = 0
    BY <1>1, <1>2
  <2> QED  BY <2>5, <2>6 DEF Sound, Translates
<1> QED  BY <1>2 DEF Sound, SegmentsWait

\* A fresh frame for page v of the process.
Fresh(v, z) ==
  /\ root # 0 /\ phys = <<>> /\ v \in UserPages /\ wanted[v] = 0
  /\ z = MapFresh(Memory, root, v)
  /\ tables' = z.tables /\ free' = z.free
  /\ wanted' = [wanted EXCEPT ![v] = z.at]
  /\ UNCHANGED <<root, heap, phys, mapped>>

LEMMA FreshStep ==
  ASSUME Sound, NEW v, NEW z, Fresh(v, z)
  PROVE  z.oom \in BOOLEAN /\ (~z.oom => z.at \in Frames /\ InTables')
<1>1. v \in UserPages /\ v \in Pages /\ v < KernelBase /\ root # 0 /\ wanted[v] = 0
  BY PageBounds DEF Fresh
<1>2. Pending = {} /\ Pending' = {}
  <2>1. Pending = {}
    BY PendingNone DEF Fresh, Sound, Order
  <2> QED  BY <2>1 DEF Fresh, Pending
<1>3. Home(root, v) = root /\ root # KernelRoot
  BY <1>1, NodeFacts DEF Home, Sound, Forest, Types
<1>4. Mappable(Memory, root, {}, v)
  <2>1. Walk(tables, root, v, 4) = 0
    BY <1>1 DEF Sound, Translates
  <2> QED  BY <1>1, <1>2, <1>3, <2>1, MemoryFacts DEF Mappable, Sound
<1>5. /\ z.oom \in BOOLEAN
      /\ ~z.oom => z.at \in Frames /\ z.at \notin {} /\ Maps(Memory, z, root, {}, v, z.at)
  <2>1. z = MapFresh(Memory, Home(root, v), v)
    BY <1>3 DEF Fresh
  <2> QED  BY <1>4, <2>1, FreshMem
<1>6. ASSUME ~z.oom
      PROVE  InTables'
  <2>1. UserMap(z, {}, v, z.at)
    BY <1>1, <1>2, <1>5, <1>6 DEF UserMap, Fresh
  <2> QED  BY <1>1, <2>1, UserStep
<1> QED  BY <1>5, <1>6

LEMMA StackPageStep ==
  ASSUME Sound, StackPage, pc' # "panic"
  PROVE  Sound'
<1> DEFINE v == bottom + Len(stack)
           z == MapFresh(Memory, root, v)
<1>1. /\ pc = "stack" /\ phys = <<>> /\ root # 0 /\ Len(stack) < StackPages
      /\ bottom = StackTop - StackPages /\ stack \in Seq(Frames) /\ Len(stack) \in Nat
  BY DEF StackPage, MoreStack, Sound, Order, StackGrows
<1>2. /\ tables' = z.tables /\ free' = z.free /\ pc' = (IF z.oom THEN "panic" ELSE "stack")
      /\ stack' = Append(stack, z.at) /\ wanted' = [wanted EXCEPT ![v] = z.at]
      /\ UNCHANGED <<heap, root, todo, phys, mapped, bottom, touch>>
  BY DEF StackPage, Becomes
<1>3. v \in bottom_max..(StackTop - 1) /\ v \in UserPages /\ v >= bottom_max
  BY <1>1, StackFacts
<1>4. wanted[v] = 0
  <2>1. wanted[v] # 0 => v < bottom + Len(stack)
    BY <1>1, <1>3 DEF Sound, StackGrows
  <2>2. ~(v < bottom + Len(stack))
    BY <1>1, StackFacts
  <2> QED  BY <2>1, <2>2
<1> HIDE DEF z
<1>5. Fresh(v, z)
  BY <1>1, <1>2, <1>3, <1>4 DEF Fresh, z
<1>6. z.oom \in BOOLEAN /\ (~z.oom => z.at \in Frames /\ InTables')
  BY <1>5, FreshStep
<1>7. z.at \in Frames /\ InTables' /\ pc' = "stack"
  BY <1>2, <1>6
<1>8. Order'
  BY <1>1, <1>2, <1>7 DEF Sound, Order
<1>9. SegmentsWait'
  BY <1>2, <1>3, SegmentsKept
<1>10. StackGrows'
  <2>1. stack' \in Seq(Frames) /\ Len(stack') = Len(stack) + 1
    BY <1>1, <1>2, <1>7
  <2>2. bottom' = bottom /\ bottom' \in bottom_max..(StackTop - StackPages)
    BY <1>2 DEF Sound, StackGrows
  <2>3. Len(stack') <= StackPages
    BY <1>1, <2>1, StackFacts
  <2>4. ASSUME NEW w \in bottom_max..(StackTop - 1)
        PROVE  wanted'[w] # 0 <=> bottom' <= w /\ w < bottom' + Len(stack')
    <3>1. wanted[w] # 0 <=> bottom <= w /\ w < bottom + Len(stack)
      BY <1>1 DEF Sound, StackGrows
    <3>2. w \in UserPages /\ w \in Int /\ bottom \in Int
      BY <1>1, StackFacts
    <3>3. wanted'[w] = IF w = v THEN z.at ELSE wanted[w]
      BY <1>2, <1>3, <3>2 DEF Sound, Translates
    <3>4. CASE w = v
      BY <1>1, <1>7, <2>1, <2>2, <3>2, <3>3, <3>4, NodeFacts
    <3>5. CASE w # v
      BY <1>1, <2>1, <2>2, <3>1, <3>2, <3>3, <3>5
    <3> QED  BY <3>4, <3>5
  <2> QED  BY <1>1, <1>2, <1>7, <2>1, <2>2, <2>3, <2>4 DEF StackGrows
<1> QED  BY <1>7, <1>8, <1>9, <1>10 DEF Sound, InTables

LEMMA PageFaultStep ==
  ASSUME Sound, PageFault, pc' # "panic"
  PROVE  Sound'
<1> DEFINE v == bottom - 1
           z == MapFresh(Memory, root, v)
<1>1. pc = "run" /\ phys = <<>> /\ root # 0 /\ touch # NoPage
  BY DEF PageFault, Sound, Order
<1>2. /\ tables' = z.tables /\ free' = z.free /\ pc' = (IF z.oom THEN "panic" ELSE "run")
      /\ bottom' = v /\ wanted' = [wanted EXCEPT ![v] = z.at] /\ ~(v < bottom_max)
      /\ UNCHANGED <<heap, root, todo, phys, mapped, stack>>
  BY DEF PageFault, grow_user_stack, Becomes, AtLimit
<1>3. /\ bottom \in bottom_max..(StackTop - StackPages) /\ bottom \in Int
      /\ v \in bottom_max..(StackTop - 1) /\ v \in UserPages /\ v >= bottom_max
  <2>1. bottom \in bottom_max..(StackTop - StackPages)
    BY DEF Sound, StackGrows
  <2> QED  BY <1>2, <2>1, StackFacts
<1>4. wanted[v] = 0
  <2>1. wanted[v] # 0 => bottom <= v
    BY <1>1, <1>3 DEF Sound, StackGrows
  <2> QED  BY <1>3, <2>1
<1> HIDE DEF z
<1>5. Fresh(v, z)
  BY <1>1, <1>2, <1>3, <1>4 DEF Fresh, z
<1>6. z.oom \in BOOLEAN /\ (~z.oom => z.at \in Frames /\ InTables')
  BY <1>5, FreshStep
<1>7. z.at \in Frames /\ InTables' /\ pc' = "run"
  BY <1>2, <1>6
<1>8. Order'
  BY <1>1, <1>2, <1>7 DEF Sound, Order
<1>9. SegmentsWait'
  BY <1>2, <1>3, SegmentsKept
<1>10. StackGrows'
  <2>1. bottom' \in bottom_max..(StackTop - StackPages)
    BY <1>2, <1>3, StackFacts
  <2>2. ASSUME NEW w \in bottom_max..(StackTop - 1)
        PROVE  wanted'[w] # 0 <=> bottom' <= w
    <3>1. wanted[w] # 0 <=> bottom <= w
      BY <1>1 DEF Sound, StackGrows
    <3>2. w \in UserPages /\ w \in Int
      BY StackFacts
    <3>3. wanted'[w] = IF w = v THEN z.at ELSE wanted[w]
      BY <1>2, <1>3, <3>2 DEF Sound, Translates
    <3>4. CASE w = v
      BY <1>2, <1>3, <1>7, <3>2, <3>3, <3>4, NodeFacts
    <3>5. CASE w # v
      BY <1>2, <1>3, <3>1, <3>2, <3>3, <3>5
    <3> QED  BY <3>4, <3>5
  <2>3. stack' \in Seq(Frames) /\ Len(stack') <= StackPages
    BY <1>2 DEF Sound, StackGrows
  <2> QED  BY <1>1, <1>2, <1>7, <2>1, <2>2, <2>3 DEF StackGrows
<1> QED  BY <1>7, <1>8, <1>9, <1>10 DEF Sound, InTables

LEMMA ElfAllocStep ==
  ASSUME Sound, ElfAlloc, pc' # "panic"
  PROVE  Sound'
<1> DEFINE a == Alloc(Memory)
<1>1. /\ pc = "elf" /\ mapped = 0 /\ todo # <<>> /\ phys \in Seq(Frames) /\ Len(phys) \in Nat
      /\ \A i, j \in 1..Len(phys) : phys[i] = phys[j] => i = j
  BY DEF ElfAlloc, Sound, Order
<1>2. /\ tables' = a.tables /\ free' = a.free /\ pc' = (IF a.oom THEN "panic" ELSE "elf")
      /\ phys' = Append(phys, a.at)
      /\ UNCHANGED <<heap, root, todo, mapped, stack, bottom, touch, wanted>>
  BY DEF ElfAlloc, Becomes
<1>3. /\ IsMem(a)
      /\ ~a.oom => /\ a.at \in Frames /\ a.at \notin Pending /\ a.tables = tables
                   /\ Forest(a.tables, a.free, root, Pending \cup {a.at})
  <2>1. Forest(Memory.tables, Memory.free, root, Pending)
    BY MemoryFacts DEF Sound
  <2> QED  BY <2>1, MemoryFacts, AllocMem
<1> HIDE DEF a
<1>4. /\ ~a.oom /\ pc' = "elf" /\ a.at \in Frames /\ a.at \notin Pending /\ tables' = tables
      /\ Forest(tables', free', root', Pending \cup {a.at})
  BY <1>2, <1>3 DEF IsMem
<1>5. /\ phys' \in Seq(Frames) /\ Len(phys') = Len(phys) + 1 /\ phys'[Len(phys) + 1] = a.at
      /\ \A i \in 1..Len(phys) : phys'[i] = phys[i]
  BY <1>1, <1>2, <1>4
<1>6. Pending = {phys[i] : i \in 1..Len(phys)}
  BY <1>1 DEF Pending
<1>7. Pending' = Pending \cup {a.at}
  <2>1. Pending' = {phys'[i] : i \in 1..(Len(phys) + 1)}
    BY <1>1, <1>2, <1>5 DEF Pending
  <2>2. \A x : (\E i \in 1..(Len(phys) + 1) : x = phys'[i])
                 <=> (\E i \in 1..Len(phys) : x = phys[i]) \/ x = a.at
    <3>1. \A i \in 1..(Len(phys) + 1) : i \in 1..Len(phys) \/ i = Len(phys) + 1
      BY <1>1
    <3>2. (Len(phys) + 1) \in 1..(Len(phys) + 1) /\ \A i \in 1..Len(phys) : i \in 1..(Len(phys) + 1)
      BY <1>1
    <3> QED  BY <1>5, <3>1, <3>2
  <2> QED  BY <1>6, <2>1, <2>2
<1>8. Order'
  <2>1. \A i, j \in 1..Len(phys') : phys'[i] = phys'[j] => i = j
    <3>1. \A i \in 1..Len(phys') : i \in 1..Len(phys) \/ i = Len(phys) + 1
      BY <1>1, <1>5
    <3>2. \A i \in 1..Len(phys) : phys'[i] # a.at
      BY <1>4, <1>5, <1>6
    <3> QED  BY <1>1, <1>5, <3>1, <3>2
  <2>2. mapped' \in 0..Len(phys')
    BY <1>1, <1>2, <1>5
  <2> QED  BY <1>1, <1>2, <1>4, <1>5, <2>1, <2>2 DEF Sound, Order
<1>9. HeapSound'
  BY <1>1, <1>2, <1>4 DEF Sound, HeapSound
<1>10. Translates'
  BY <1>2, <1>4 DEF Sound, Translates
<1>11. SegmentsWait'
  BY <1>2 DEF Sound, SegmentsWait
<1>12. StackGrows'
  BY <1>1, <1>2, <1>4 DEF Sound, StackGrows
<1> QED  BY <1>4, <1>7, <1>8, <1>9, <1>10, <1>11, <1>12 DEF Sound

LEMMA ElfMapStep ==
  ASSUME Sound, ElfMap, pc' # "panic"
  PROVE  Sound'
<1> DEFINE s == todo[1]
           v == First(s) + mapped
           f == phys[mapped + 1]
           z == vmm_map(Memory, root, v, f)
<1>1. /\ pc = "elf" /\ root # 0 /\ phys \in Seq(Frames) /\ Len(phys) \in Nat
      /\ mapped \in Nat /\ mapped < Len(phys) /\ mapped + 1 \in 1..Len(phys)
      /\ todo \in Seq(Segment) /\ todo # <<>> /\ Head(todo) = s /\ Len(phys) = Count(s)
      /\ \A i, j \in 1..Len(phys) : phys[i] = phys[j] => i = j
  <2>1. todo \in Seq(Segment) /\ todo # <<>> /\ pc = "elf" /\ Len(phys) = Count(Head(todo)) /\ mapped < Len(phys)
    BY DEF ElfMap, Sound, SegmentsWait
  <2>2. Head(todo) = s
    BY <2>1
  <2>3. phys \in Seq(Frames) /\ mapped \in 0..Len(phys) /\ root # 0
        /\ \A i, j \in 1..Len(phys) : phys[i] = phys[j] => i = j
    BY <2>1 DEF Sound, Order
  <2> QED  BY <2>1, <2>2, <2>3
<1>2. /\ tables' = z.tables /\ free' = z.free /\ pc' = (IF z.oom THEN "panic" ELSE "elf")
      /\ mapped' = mapped + 1 /\ wanted' = [wanted EXCEPT ![v] = f]
      /\ UNCHANGED <<heap, root, todo, phys, stack, bottom, touch>>
  BY <1>1 DEF ElfMap, Becomes
<1>3. s \in Segment /\ 1 \in 1..Len(todo) /\ Len(todo) \in Nat
  BY <1>1
<1>4. First(s) \in Nat /\ Count(s) \in Int
  BY <1>3, SegmentInts
<1>5. First(s) + Count(s) <= bottom_max
  BY <1>3 DEF Sound, SegmentsWait
<1>6. v \in Nat /\ First(s) <= v /\ v < First(s) + Count(s) /\ v < bottom_max
  BY <1>1, <1>4, <1>5, StackFacts
<1>7. v \in UserPages /\ v \in Pages /\ v < KernelBase
  <2>1. bottom_max <= KernelBase /\ KernelBase \in Nat
    BY StackFacts, PageBounds
  <2>2. v \in UserPages
    BY <1>6, <2>1, StackFacts DEF UserPages
  <2> QED  BY <2>2, PageBounds
<1>8. wanted[v] = 0
  <2>1. \A w \in UserPages : First(s) + mapped <= w /\ w < First(s) + Count(s) => wanted[w] = 0
    BY <1>3 DEF Sound, SegmentsWait
  <2> QED  BY <1>6, <1>7, <2>1
<1>9. f \in Pending /\ f \in Frames
  BY <1>1 DEF Pending
<1> HIDE DEF v, f, z
<1>10. Home(root, v) = root /\ root # KernelRoot
  BY <1>1, <1>7, NodeFacts DEF Home, Sound, Forest, Types
<1>11. Mappable(Memory, root, Pending, v)
  <2>1. Walk(tables, root, v, 4) = 0
    BY <1>7, <1>8 DEF Sound, Translates
  <2> QED  BY <1>1, <1>7, <1>10, <2>1, MemoryFacts DEF Mappable, Sound
<1>12. IsMem(z) /\ (~z.oom => Maps(Memory, z, root, Pending, v, f))
  <2>1. z = vmm_map(Memory, Home(root, v), v, f)
    BY <1>10 DEF z
  <2> QED  BY <1>9, <1>11, <2>1, MapMem
<1>13. Pending' = Pending \ {f}
  <2>1. Pending' = {phys[i] : i \in (mapped + 2)..Len(phys)}
    BY <1>1, <1>2 DEF Pending
  <2>2. \A i \in (mapped + 1)..Len(phys) : i \in 1..Len(phys)
    BY <1>1
  <2>3. ASSUME NEW x
        PROVE  (\E i \in (mapped + 2)..Len(phys) : x = phys[i])
                 <=> (\E i \in (mapped + 1)..Len(phys) : x = phys[i]) /\ x # f
    <3>1. \A i \in (mapped + 1)..Len(phys) : i = mapped + 1 \/ i \in (mapped + 2)..Len(phys)
      BY <1>1
    <3>2. \A i \in (mapped + 2)..Len(phys) : i \in (mapped + 1)..Len(phys) /\ i # mapped + 1
      BY <1>1
    <3> QED  BY <1>1, <2>2, <3>1, <3>2 DEF f
  <2> QED  BY <2>1, <2>3 DEF Pending
<1>14. ~z.oom /\ pc' = "elf"
  BY <1>2, <1>12 DEF IsMem
<1>15. InTables'
  <2>1. UserMap(z, Pending, v, f)
    BY <1>2, <1>7, <1>9, <1>12, <1>13, <1>14 DEF UserMap
  <2> QED  BY <1>1, <2>1, UserStep
<1>16. Order'
  <2>1. mapped' \in 0..Len(phys')
    BY <1>1, <1>2
  <2> QED  BY <1>1, <1>2, <1>14, <2>1 DEF Sound, Order
<1>17. \A w \in UserPages : wanted'[w] = IF w = v THEN f ELSE wanted[w]
  BY <1>2, <1>7 DEF Sound, Translates
<1>18. SegmentsWait'
  <2>1. ASSUME NEW i \in 1..Len(todo), NEW w \in UserPages,
               First(todo[i]) + (IF i = 1 THEN mapped + 1 ELSE 0) <= w, w < First(todo[i]) + Count(todo[i])
        PROVE  wanted'[w] = 0
    <3>1. todo[i] \in Segment /\ w \in Nat
      <4>1. todo \in Seq(Segment)
        BY <1>1
      <4>2. todo[i] \in Segment
        BY <4>1
      <4> QED  BY <4>2, PageBounds
    <3>2. First(todo[i]) \in Nat /\ Count(todo[i]) \in Int
      BY <3>1, SegmentInts
    <3>3. w # v
      <4>1. CASE i = 1
        BY <1>1, <1>4, <2>1, <3>1, <4>1 DEF v
      <4>2. CASE i # 1
        <5>1. 1 < i
          BY <4>2
        <5>2. \/ First(s) + Count(s) <= First(todo[i])
              \/ First(todo[i]) + Count(todo[i]) <= First(s)
          BY <1>3, <5>1 DEF Sound, SegmentsWait
        <5> QED  BY <1>4, <1>6, <2>1, <3>1, <3>2, <4>2, <5>2
      <4> QED  BY <4>1, <4>2
    <3>4. First(todo[i]) + (IF i = 1 THEN mapped ELSE 0) <= w
      BY <1>1, <2>1, <3>1, <3>2
    <3>5. wanted[w] = 0
      BY <2>1, <3>4 DEF Sound, SegmentsWait
    <3> QED  BY <1>17, <3>3, <3>5
  <2> QED  BY <1>2, <2>1 DEF Sound, SegmentsWait
<1>19. StackGrows'
  <2>1. \A w \in bottom_max..(StackTop - 1) : wanted'[w] = wanted[w]
    BY <1>6, <1>17, StackFacts
  <2> QED  BY <1>1, <1>2, <1>14, <2>1 DEF Sound, StackGrows
<1> QED  BY <1>15, <1>16, <1>18, <1>19 DEF Sound, InTables

LEMMA ElfFillStep ==
  ASSUME Sound, NEW fills \in BOOLEAN, ElfFill(fills)
  PROVE  Sound'
<1>1. /\ pc = "elf" /\ mapped = Len(phys) /\ pc' \in {"elf", "fail"}
      /\ todo # <<>> /\ todo' = Tail(todo) /\ phys' = <<>> /\ mapped' = 0
      /\ UNCHANGED <<tables, free, heap, root, stack, bottom, touch, wanted>>
  BY DEF ElfFill, SegmentMapped
<1>2. phys \in Seq(Frames) /\ todo \in Seq(Segment)
  BY DEF Sound, Order, SegmentsWait
<1>3. Pending = {} /\ Pending' = {}
  BY <1>1, <1>2 DEF Pending
<1>4. InTables'
  <2>1. heap > 0
    BY <1>1 DEF Sound, HeapSound
  <2> QED  BY <1>1, <1>3, <2>1, SameTables
<1>5. Order'
  BY <1>1 DEF Sound, Order
<1>6. SegmentsWait'
  <2>1. /\ todo' \in Seq(Segment) /\ Len(todo') = Len(todo) - 1 /\ Len(todo) \in Nat
        /\ \A i \in 1..Len(todo') : todo'[i] = todo[i + 1] /\ i + 1 \in 1..Len(todo) /\ i + 1 # 1
    BY <1>1, <1>2
  <2>2. ASSUME NEW i \in 1..Len(todo')
        PROVE  /\ First(todo'[i]) + Count(todo'[i]) <= bottom_max
               /\ \A w \in UserPages :
                    First(todo'[i]) + 0 <= w /\ w < First(todo'[i]) + Count(todo'[i]) => wanted[w] = 0
    BY <2>1 DEF Sound, SegmentsWait
  <2>3. ASSUME NEW i \in 1..Len(todo'), NEW j \in 1..Len(todo'), i < j
        PROVE  \/ First(todo'[i]) + Count(todo'[i]) <= First(todo'[j])
               \/ First(todo'[j]) + Count(todo'[j]) <= First(todo'[i])
    <3>1. i + 1 < j + 1
      BY <2>1, <2>3
    <3> QED  BY <2>1, <3>1 DEF Sound, SegmentsWait
  <2>4. \A i : (IF i = 1 THEN mapped' ELSE 0) = 0
    BY <1>1
  <2> QED  BY <1>1, <2>1, <2>2, <2>3, <2>4 DEF SegmentsWait
<1>7. StackGrows'
  BY <1>1 DEF Sound, StackGrows
<1> QED  BY <1>4, <1>5, <1>6, <1>7 DEF Sound, InTables

\* The steps that change nothing but pc, or what is touched.
LEMMA QuietStep ==
  ASSUME Sound, StackDone \/ ElfBad \/ ElfDone \/ (\E v \in UserPages : Touch(v)) \/ UNCHANGED vars
  PROVE  Sound'
<1>1. /\ UNCHANGED <<tables, free, heap, root, todo, phys, mapped, stack, bottom, wanted>>
      /\ pc' = pc \/ (pc \in {"stack", "elf"} /\ pc' \in {"elf", "run", "fail"})
      /\ pc' # "elf" => phys = <<>>
      /\ touch' # NoPage => pc' = "run"
  <2>1. CASE StackDone
    BY <2>1 DEF Sound, Order, StackDone, memory_and_process
  <2>2. CASE ElfBad
    BY <2>2 DEF Sound, Order, ElfBad, memory_and_process
  <2>3. CASE ElfDone
    BY <2>3 DEF Sound, Order, ElfDone, memory_and_process
  <2>4. CASE \E v \in UserPages : Touch(v)
    BY <2>4 DEF Sound, Order, Touch
  <2>5. CASE UNCHANGED vars
    BY <2>5 DEF Sound, Order, vars
  <2> QED  BY <2>1, <2>2, <2>3, <2>4, <2>5
<1>2. InTables'
  <2>1. Pending' = Pending
    BY <1>1 DEF Pending
  <2>2. pc' # "boot" => heap > 0
    BY <1>1 DEF Sound, HeapSound
  <2> QED  BY <1>1, <2>1, <2>2, SameTables
<1>3. Order'
  BY <1>1 DEF Sound, Order
<1>4. SegmentsWait'
  BY <1>1 DEF Sound, SegmentsWait
<1>5. StackGrows'
  <2>1. CASE pc = "stack" /\ pc' # pc
    <3>1. Len(stack) = StackPages /\ bottom = StackTop - StackPages
      <4>1. StackDone
        BY <2>1 DEF ElfBad, ElfDone, Touch, vars
      <4>2. stack \in Seq(Frames) /\ Len(stack) <= StackPages /\ bottom = StackTop - StackPages
        BY <2>1 DEF Sound, StackGrows
      <4>3. ~(Len(stack) < StackPages) /\ Len(stack) \in Nat
        BY <4>1, <4>2 DEF StackDone, MoreStack
      <4> QED  BY <4>2, <4>3, StackFacts
    <3>2. \A v \in bottom_max..(StackTop - 1) : v < bottom + Len(stack)
      BY <3>1, StackFacts
    <3> QED  BY <1>1, <2>1, <3>2 DEF Sound, StackGrows
  <2>2. CASE ~(pc = "stack" /\ pc' # pc)
    BY <1>1, <2>2 DEF Sound, StackGrows
  <2> QED  BY <2>1, <2>2
<1> QED  BY <1>2, <1>3, <1>4, <1>5 DEF Sound, InTables

LEMMA InductiveStep == IInv /\ [Next]_vars => IInv'
<1> SUFFICES ASSUME IInv, [Next]_vars, pc' # "panic"
             PROVE  IInv'
  BY DEF IInv
<1>1. CASE pc \in {"panic", "wild"}
  BY <1>1 DEF IInv, Next, KernelAllocates, ProcessRefused, ProcessCreate, CreateSpace, StackPage,
              StackDone, ElfAlloc, ElfMap, ElfFill, ElfOverruns, SegmentMapped, ElfBad, ElfDone,
              CreateFails, LoadInitPanics, Touch, PageFault, vars
<1>2. CASE pc = "failed" /\ root = 0 /\ touch = NoPage
  <2>1. UNCHANGED vars
    BY <1>2 DEF Next, KernelAllocates, ProcessRefused, ProcessCreate, CreateSpace, StackPage,
                StackDone, ElfAlloc, ElfMap, ElfFill, ElfOverruns, SegmentMapped, ElfBad, ElfDone,
                CreateFails, LoadInitPanics, Touch, PageFault
  <2> QED  BY <1>2, <2>1 DEF IInv, vars
<1>3. ASSUME Sound
      PROVE  IInv'
  <2>1. CASE KernelAllocates
    BY <1>3, <2>1, KernelAllocatesStep
  <2>2. CASE ProcessRefused \/ CreateFails
    BY <1>3, <2>2, FailedStep
  <2>3. CASE ProcessCreate
    BY <1>3, <2>3, ProcessCreateStep
  <2>4. CASE \E img \in Images : CreateSpace(img)
    BY <1>3, <2>4, CreateSpaceStep DEF IInv
  <2>5. CASE StackPage
    BY <1>3, <2>5, StackPageStep DEF IInv
  <2>6. CASE ElfAlloc
    BY <1>3, <2>6, ElfAllocStep DEF IInv
  <2>7. CASE ElfMap
    BY <1>3, <2>7, ElfMapStep DEF IInv
  <2>8. CASE \E fills \in BOOLEAN : ElfFill(fills)
    BY <1>3, <2>8, ElfFillStep DEF IInv
  <2>9. CASE ElfOverruns
    BY <2>9 DEF ElfOverruns, IInv
  <2>10. CASE LoadInitPanics
    BY <1>3, <2>10 DEF LoadInitPanics
  <2>11. CASE PageFault
    BY <1>3, <2>11, PageFaultStep DEF IInv
  <2>12. CASE StackDone \/ ElfBad \/ ElfDone \/ (\E v \in UserPages : Touch(v)) \/ UNCHANGED vars
    BY <1>3, <2>12, QuietStep DEF IInv
  <2> QED  BY <2>1, <2>2, <2>3, <2>4, <2>5, <2>6, <2>7, <2>8, <2>9, <2>10, <2>11, <2>12 DEF Next
<1> QED  BY <1>1, <1>2, <1>3 DEF IInv
-----------------------------------------------------------------------------
\* The page tables are a forest in which no frame is used twice or lost, and they
\* translate as the calls of vmm_map asked, until the kernel stops.
THEOREM Inductive == Spec => []IInv
<1>1. Init => IInv
  BY InitSound DEF IInv
<1>2. IInv /\ [Next]_vars => IInv'
  BY InductiveStep
<1> QED  BY <1>1, <1>2, PTL DEF Spec

\* vmm_virt_to_phys_as finds for each user page the frame that vmm_map was last
\* given for it, and nothing for a page that was never mapped.
THEOREM TranslationKept == Spec => []TranslationExact
BY Inductive, Consequences, PTL

\* The process and the kernel translate every kernel page alike, whenever the
\* page was mapped: paging_copy_kernel_half need not be run again.
THEOREM KernelHalfShared == Spec => []KernelShared
BY Inductive, Consequences, PTL

\* Until a process fails to be made no frame is in two places of the trees, nor
\* in a tree and on the free list.
THEOREM FramesOnce == Spec => []FramesUsedOnce
BY Inductive, Consequences, PTL

\* Wherever a load failed, paging_destroy_address_space frees every frame that is
\* neither the kernel's nor free, and frees it once.
THEOREM DestroyGivesBack == Spec => []DestroyExact
BY Inductive, Consequences, PTL

\* The pages between user_stack_bottom and the top of the stack are mapped, and
\* the bottom stays above its limit.
THEOREM StackBounded == Spec => []StackSound
BY Inductive, Consequences, PTL

\* A page fault brings the page, moves the stack down by a page, or stops the
\* kernel.
THEOREM FaultsProgress == Spec => FaultProgress
<1>1. IInv /\ [Next]_vars =>
        [touch # NoPage => touch' = NoPage \/ bottom' < bottom \/ pc' = "panic"]_vars
  <2> SUFFICES ASSUME IInv, Next, touch # NoPage, pc' # "panic"
               PROVE  bottom' < bottom
    OBVIOUS
  <2>1. pc \in {"panic", "wild"} \/ Sound
    BY DEF IInv
  <2>2. pc \in {"panic", "wild", "run"}
    BY <2>1 DEF Sound, Order
  <2>3. PageFault
    BY <2>2 DEF Next, KernelAllocates, ProcessRefused, ProcessCreate, CreateSpace, StackPage,
                StackDone, ElfAlloc, ElfMap, ElfFill, ElfOverruns, SegmentMapped, ElfBad, ElfDone,
                CreateFails, LoadInitPanics, Touch
  <2>4. Sound
    BY <2>1, <2>3 DEF PageFault
  <2>5. bottom \in Int
    BY <2>4, StackFacts DEF Sound, StackGrows
  <2>6. bottom' = bottom - 1
    BY <2>3 DEF PageFault, grow_user_stack
  <2> QED  BY <2>5, <2>6
<1> QED  BY <1>1, Inductive, PTL DEF Spec, FaultProgress

-----------------------------------------------------------------------------
\* The contents of memory.

\* How many segments have been loaded.
Passed == Len(image) - Len(todo)

\* Address a has its contents from the file part of segment s.
FromFile(s, a) == s.vaddr <= a /\ a < s.vaddr + s.filesz

\* x is what address a holds once the first n segments are loaded.
Placing(n, a, x) ==
  /\ \A i \in 1..n : FromFile(image[i], a) => x = FileUnit(image[i].offset + a - image[i].vaddr)
  /\ (\A i \in 1..n : ~FromFile(image[i], a)) => x = 0

\* todo is the end of the image, and the pages of its first segment are mapped as
\* far as the loop has come.
Rest ==
  /\ image \in Images \cup {<<>>}
  /\ Len(todo) <= Len(image) /\ \A i \in 1..Len(todo) : todo[i] = image[Passed + i]
  /\ pc = "run" => todo = <<>>
  /\ todo # <<>> => \A v \in UserPages :
       First(todo[1]) <= v /\ v < First(todo[1]) + mapped => wanted[v] # 0

\* Mapped pages hold what has been loaded, and all other frames are zero.
Written ==
  /\ \A v \in UserPages : wanted[v] # 0 => \A i \in 0..(Units - 1) :
       Placing(Passed, (v * Units) + i, data[(wanted[v] * Units) + i])
  /\ \A f \in Frames : (\A v \in UserPages : wanted[v] # f) =>
       \A i \in 0..(Units - 1) : data[(f * Units) + i] = 0

\* The image is known when the address space is there.
ContentsInv ==
  /\ pc \in {"boot", "space"} => image = <<>>
  /\ \/ pc \in {"panic", "failed", "fail"} \/ ~WellCut(image)
     \/ pc # "wild" /\ Rest /\ Written

\* No frame is behind two pages.
LEMMA WantedOnce ==
  ASSUME Sound, NEW v \in UserPages, NEW w \in UserPages, wanted[v] = wanted[w], wanted[v] # 0
  PROVE  v = w
<1>1. v \in Pages /\ w \in Pages /\ 4 \in 0..4
  BY PageBounds
<1>2. Walk(tables, root, v, 4) = wanted[v] /\ Walk(tables, root, w, 4) = wanted[w]
  BY DEF Sound, Translates
<1>3. Prefix(v, 4) = Prefix(w, 4)
  BY <1>1, <1>2, Unique DEF Sound
<1> QED  BY <1>1, <1>3, PrefixEnds

LEMMA DivisionMonotone ==
  ASSUME NEW a \in Nat, NEW b \in Nat, a <= b, NEW c \in Nat \ {0}
  PROVE  a \div c <= b \div c
<1> DEFINE p == a \div c
           q == b \div c
<1>1. p \in Nat /\ q \in Nat /\ a % c \in Nat /\ b % c \in Nat /\ b % c < c
      /\ a = (c * p) + (a % c) /\ b = (c * q) + (b % c)
  BY Division
<1> HIDE DEF p, q
<1>2. c * p < c * (q + 1)
  BY <1>1
<1>3. p < q + 1
  BY <1>1, <1>2
<1> QED  BY <1>1, <1>3 DEF p, q

\* A unit of memory is a page and a place in it.
LEMMA UnitPlace ==
  ASSUME NEW p \in Nat, NEW i \in 0..(Units - 1)
  PROVE  /\ (p * Units) + i \in Nat
         /\ ((p * Units) + i) \div Units = p /\ ((p * Units) + i) % Units = i
<1>1. Units \in Nat \ {0} /\ i \in Nat /\ i < Units
  BY ImageAssumption
<1>2. (p * Units) + i = (Units * p) + i /\ (p * Units) + i \in Nat
  BY <1>1
<1> QED  BY <1>1, <1>2, DivisionUnique

LEMMA PlaceOfUnit ==
  ASSUME NEW a \in Nat
  PROVE  /\ a \div Units \in Nat /\ a % Units \in 0..(Units - 1)
         /\ a = ((a \div Units) * Units) + (a % Units)
<1>1. Units \in Nat \ {0}
  BY ImageAssumption
<1>2. a \div Units \in Nat /\ a % Units \in Nat /\ a % Units < Units
      /\ a = (Units * (a \div Units)) + (a % Units)
  BY <1>1, Division
<1> QED  BY <1>1, <1>2

LEMMA UnitIn ==
  ASSUME NEW f \in Frames, NEW i \in 0..(Units - 1)
  PROVE  (f * Units) + i \in PhysUnits
<1>1. Units \in Nat \ {0} /\ FrameCount \in Nat /\ f \in Nat /\ f <= FrameCount
  BY ImageAssumption, TreeAssumption DEF Frames
<1>2. f * Units <= FrameCount * Units
  BY <1>1
<1>3. (KernelRoot + 1) * Units = (FrameCount * Units) + Units + Units
  BY <1>1 DEF KernelRoot
<1>4. FrameCount * Units \in Nat /\ f * Units \in Nat
  BY <1>1
<1> QED  BY <1>1, <1>2, <1>3, <1>4 DEF PhysUnits

\* The addresses of a segment are in its pages.
LEMMA SegmentPages ==
  ASSUME NEW s \in Segment, NEW a \in Nat, s.vaddr <= a, a < s.vaddr + s.memsz
  PROVE  First(s) <= a \div Units /\ a \div Units < First(s) + Count(s)
<1> DEFINE e == s.vaddr + s.memsz + Units - 1
<1>1. Units \in Nat \ {0} /\ s.vaddr \in Nat /\ s.memsz \in Nat
  BY ImageAssumption DEF Segment
<1>2. e \in Nat /\ a + Units \in Nat /\ a + Units <= e
  BY <1>1
<1> HIDE DEF e
<1>3. s.vaddr \div Units <= a \div Units /\ (a + Units) \div Units <= e \div Units
  BY <1>1, <1>2, DivisionMonotone
<1>4. (a + Units) \div Units = (a \div Units) + 1
  <2>1. a \div Units \in Nat /\ a % Units \in Nat /\ a % Units < Units
        /\ a = (Units * (a \div Units)) + (a % Units)
    BY <1>1, Division
  <2> DEFINE q == a \div Units
             r == a % Units
  <2>2. q \in Nat /\ r \in Nat /\ r < Units /\ a = (Units * q) + r /\ q + 1 \in Nat
    BY <2>1
  <2> HIDE DEF q, r
  <2>3. a + Units = (Units * (q + 1)) + r
    BY <1>1, <2>2
  <2>4. (a + Units) \div Units = q + 1
    BY <1>1, <1>2, <2>2, <2>3, DivisionUnique
  <2> QED  BY <2>4 DEF q
<1>5. s.vaddr \div Units \in Nat /\ a \div Units \in Nat /\ e \div Units \in Nat
  BY <1>1, <1>2, Division
<1>6. First(s) = s.vaddr \div Units /\ Count(s) = (e \div Units) - First(s)
  BY DEF First, Count, e
<1> QED  BY <1>3, <1>4, <1>5, <1>6

\* A chunk goes where its addresses lead, although only its beginning is translated.
LEMMA TargetIs ==
  ASSUME Sound, root # 0, NEW a \in Nat, NEW n \in Nat, Contained(a, n), NEW k \in 0..(n - 1),
         (a + k) \div Units \in UserPages
  PROVE  Target(a, k) = (wanted[(a + k) \div Units] * Units) + ((a + k) % Units)
<1> DEFINE c == ChunkStart(k)
           p == (a + k) \div Units
           b == a + c
<1>1. Units \in Nat \ {0} /\ k \in Nat /\ k < n /\ a + k \in Nat
  BY ImageAssumption
<1>2. /\ c \in Nat /\ k - c \in 0..(Units - 1) /\ c = (k \div Units) * Units
      /\ k \div Units \in Nat
  <2>1. k \div Units \in Nat /\ k % Units \in 0..(Units - 1) /\ k = ((k \div Units) * Units) + (k % Units)
    BY <1>1, PlaceOfUnit
  <2>2. (k \div Units) * Units \in Nat
    BY <1>1, <2>1
  <2> QED  BY <1>1, <2>1, <2>2 DEF ChunkStart
<1>3. b \div Units = p /\ (b % Units) + (k - c) = (a + k) % Units
  <2> DEFINE q == a \div Units
             r == a % Units
             d == k \div Units
             m == k - c
  <2>1. q \in Nat /\ r \in 0..(Units - 1) /\ a = (q * Units) + r
    BY PlaceOfUnit
  <2>2. d \in Nat /\ m \in 0..(Units - 1) /\ c = d * Units /\ k = c + m /\ c \in Nat
    BY <1>1, <1>2
  <2>3. r = 0 \/ r + n <= Units
    BY DEF Contained
  <2> HIDE DEF q, r, d, m, c
  <2>4. CASE r = 0
    <3>1. q + d \in Nat /\ b = ((q + d) * Units) + 0 /\ a + k = ((q + d) * Units) + m
          /\ 0 \in 0..(Units - 1)
      BY <1>1, <2>1, <2>2, <2>4
    <3>2. b \div Units = q + d /\ b % Units = 0 /\ (a + k) \div Units = q + d /\ (a + k) % Units = m
      BY <2>2, <3>1, UnitPlace
    <3> QED  BY <2>2, <3>2 DEF m
  <2>5. CASE r + n <= Units
    <3>1. k < Units /\ r + k \in 0..(Units - 1)
      BY <1>1, <2>1, <2>5
    <3>2. d = 0
      <4>1. k = (0 * Units) + k /\ k \in 0..(Units - 1)
        BY <1>1, <3>1
      <4> QED  BY <4>1, UnitPlace DEF d
    <3>3. c = 0 /\ m = k
      BY <1>1, <2>2, <3>2
    <3>4. b = (q * Units) + r /\ a + k = (q * Units) + (r + k)
      BY <1>1, <2>1, <3>3
    <3>5. b \div Units = q /\ b % Units = r /\ (a + k) \div Units = q /\ (a + k) % Units = r + k
      BY <2>1, <3>1, <3>4, UnitPlace
    <3> QED  BY <3>3, <3>5 DEF m
  <2> QED  BY <2>3, <2>4, <2>5
<1>4. vmm_virt_to_phys_as(tables, root, p) = wanted[p]
  <2>1. Alive
    BY DEF Alive, Sound, Order
  <2> QED  BY <2>1, SoundTranslation DEF TranslationExact
<1>5. wanted[p] \in Nat
  BY DEF Sound, Translates
<1>6. b \in Nat /\ b % Units \in 0..(Units - 1)
  <2>1. b \in Nat
    BY <1>2
  <2> QED  BY <2>1, PlaceOfUnit
<1>7. Target(a, k) = (vmm_virt_to_phys_as(tables, root, b \div Units) * Units) + (b % Units) + (k - c)
  BY DEF Target
<1> HIDE DEF b, c, p
<1>8. wanted[p] * Units \in Nat
  BY <1>1, <1>5
<1>9. Target(a, k) = (wanted[p] * Units) + ((a + k) % Units)
  BY <1>1, <1>2, <1>3, <1>4, <1>6, <1>7, <1>8
<1> QED  BY <1>9 DEF p

LEMMA UnitEqual ==
  ASSUME NEW p \in Nat, NEW q \in Nat, NEW i \in 0..(Units - 1), NEW j \in 0..(Units - 1)
  PROVE  (p * Units) + i = (q * Units) + j <=> p = q /\ i = j
BY UnitPlace

LEMMA TargetUnit ==
  ASSUME Sound, root # 0, NEW a \in Nat, NEW n \in Nat, Contained(a, n), NEW k \in 0..(n - 1),
         (a + k) \div Units \in UserPages, NEW f \in Nat, NEW i \in 0..(Units - 1)
  PROVE  Target(a, k) = (f * Units) + i
           <=> wanted[(a + k) \div Units] = f /\ (a + k) % Units = i
<1> DEFINE p == (a + k) \div Units
           r == (a + k) % Units
<1>1. Target(a, k) = (wanted[p] * Units) + r
  BY TargetIs
<1>2. r \in 0..(Units - 1) /\ p \in UserPages
  <2>1. a + k \in Nat
    OBVIOUS
  <2> QED  BY <2>1, PlaceOfUnit
<1>3. wanted[p] \in Nat
  BY <1>2 DEF Sound, Translates
<1> HIDE DEF p, r
<1>4. Target(a, k) = (f * Units) + i <=> wanted[p] = f /\ r = i
  BY <1>1, <1>2, <1>3, UnitEqual
<1> QED  BY <1>4 DEF p, r

\* The loader writes a unit of a page exactly when it has come to its address.
LEMMA TargetHits ==
  ASSUME Sound, root # 0, NEW a \in Nat, NEW n \in Nat, Contained(a, n), NEW k \in 0..(n - 1),
         (a + k) \div Units \in UserPages, wanted[(a + k) \div Units] # 0,
         NEW v \in UserPages, NEW i \in 0..(Units - 1)
  PROVE  Target(a, k) = (wanted[v] * Units) + i <=> a + k = (v * Units) + i
<1> DEFINE p == (a + k) \div Units
           r == (a + k) % Units
<1>1. wanted[v] \in Nat /\ v \in Nat
  <2>1. wanted[v] \in Nat
    BY DEF Sound, Translates
  <2> QED  BY <2>1, PageBounds
<1>2. Target(a, k) = (wanted[v] * Units) + i <=> wanted[p] = wanted[v] /\ r = i
  BY <1>1, TargetUnit
<1>3. p \in Nat /\ r \in 0..(Units - 1) /\ a + k = (p * Units) + r
  <2>1. a + k \in Nat
    OBVIOUS
  <2> QED  BY <2>1, PlaceOfUnit
<1>4. p \in UserPages /\ wanted[p] # 0
  OBVIOUS
<1> HIDE DEF p, r
<1>5. wanted[p] = wanted[v] <=> p = v
  BY <1>4, WantedOnce
<1>6. (p * Units) + r = (v * Units) + i <=> p = v /\ r = i
  BY <1>1, <1>3, UnitEqual
<1> QED  BY <1>2, <1>3, <1>5, <1>6

\* A segment whose pages are all there.
Ready(s) ==
  /\ s \in Segment /\ s.filesz <= s.memsz
  /\ Contained(s.vaddr, s.filesz) /\ Contained(s.vaddr + s.filesz, s.memsz - s.filesz)
  /\ \A p \in Nat : First(s) <= p /\ p < First(s) + Count(s) => p \in UserPages /\ wanted[p] # 0

LEMMA ReadyAt ==
  ASSUME NEW s, Ready(s), NEW k \in Nat, k < s.memsz
  PROVE  (s.vaddr + k) \div Units \in UserPages /\ wanted[(s.vaddr + k) \div Units] # 0
<1>1. s \in Segment /\ s.vaddr \in Nat /\ s.memsz \in Nat
  BY DEF Ready, Segment
<1> DEFINE a == s.vaddr + k
<1>2. a \in Nat /\ s.vaddr <= a /\ a < s.vaddr + s.memsz
  BY <1>1
<1> HIDE DEF a
<1>3. First(s) <= a \div Units /\ a \div Units < First(s) + Count(s)
  BY <1>1, <1>2, SegmentPages
<1>4. a \div Units \in Nat
  BY <1>2, PlaceOfUnit
<1>5. a \div Units \in UserPages /\ wanted[a \div Units] # 0
  BY <1>3, <1>4 DEF Ready
<1> QED  BY <1>5 DEF a

\* The two loops over a segment: which of the units they read or clear is unit i of
\* page v, and that none is in a frame behind no page.
LEMMA Loops ==
  ASSUME Sound, root # 0, NEW s, Ready(s), NEW i \in 0..(Units - 1)
  PROVE  /\ \A v \in UserPages :
              /\ \A k \in 0..(s.filesz - 1) :
                   Target(s.vaddr, k) = (wanted[v] * Units) + i <=> s.vaddr + k = (v * Units) + i
              /\ \A k \in 0..(s.memsz - s.filesz - 1) :
                   Target(s.vaddr + s.filesz, k) = (wanted[v] * Units) + i
                     <=> s.vaddr + s.filesz + k = (v * Units) + i
         /\ \A f \in Frames : (\A v \in UserPages : wanted[v] # f) =>
              /\ \A k \in 0..(s.filesz - 1) : Target(s.vaddr, k) # (f * Units) + i
              /\ \A k \in 0..(s.memsz - s.filesz - 1) :
                   Target(s.vaddr + s.filesz, k) # (f * Units) + i
<1> DEFINE a == s.vaddr
           b == s.vaddr + s.filesz
           n == s.filesz
           m == s.memsz - s.filesz
<1>1. /\ a \in Nat /\ b \in Nat /\ n \in Nat /\ m \in Nat /\ s.memsz \in Nat
      /\ Contained(a, n) /\ Contained(b, m)
  BY DEF Ready, Segment
<1>2. ASSUME NEW k \in 0..(n - 1)
      PROVE  (a + k) \div Units \in UserPages /\ wanted[(a + k) \div Units] # 0
  <2>1. k \in Nat /\ k < s.memsz
    BY <1>1 DEF Ready
  <2> QED  BY <2>1, ReadyAt
<1>3. ASSUME NEW k \in 0..(m - 1)
      PROVE  (b + k) \div Units \in UserPages /\ wanted[(b + k) \div Units] # 0
  <2>1. n + k \in Nat /\ n + k < s.memsz /\ b + k = s.vaddr + (n + k)
    BY <1>1
  <2> QED  BY <2>1, ReadyAt
<1>4. \A f \in Frames : f \in Nat
  BY TreeAssumption DEF Frames
<1> HIDE DEF a, b, n, m
<1>5. ASSUME NEW v \in UserPages
      PROVE  /\ \A k \in 0..(n - 1) : Target(a, k) = (wanted[v] * Units) + i <=> a + k = (v * Units) + i
             /\ \A k \in 0..(m - 1) : Target(b, k) = (wanted[v] * Units) + i <=> b + k = (v * Units) + i
  <2>1. ASSUME NEW k \in 0..(n - 1)
        PROVE  Target(a, k) = (wanted[v] * Units) + i <=> a + k = (v * Units) + i
    <3>1. (a + k) \div Units \in UserPages /\ wanted[(a + k) \div Units] # 0
      BY <1>2
    <3> QED  BY <1>1, <3>1, TargetHits
  <2>2. ASSUME NEW k \in 0..(m - 1)
        PROVE  Target(b, k) = (wanted[v] * Units) + i <=> b + k = (v * Units) + i
    <3>1. (b + k) \div Units \in UserPages /\ wanted[(b + k) \div Units] # 0
      BY <1>3
    <3> QED  BY <1>1, <3>1, TargetHits
  <2> QED  BY <2>1, <2>2
<1>6. ASSUME NEW f \in Frames, \A v \in UserPages : wanted[v] # f
      PROVE  /\ \A k \in 0..(n - 1) : Target(a, k) # (f * Units) + i
             /\ \A k \in 0..(m - 1) : Target(b, k) # (f * Units) + i
  <2>1. ASSUME NEW k \in 0..(n - 1)
        PROVE  Target(a, k) # (f * Units) + i
    <3>1. (a + k) \div Units \in UserPages /\ f \in Nat
      BY <1>2, <1>4
    <3>2. Target(a, k) = (f * Units) + i => wanted[(a + k) \div Units] = f
      BY <1>1, <3>1, TargetUnit
    <3> QED  BY <1>6, <3>1, <3>2
  <2>2. ASSUME NEW k \in 0..(m - 1)
        PROVE  Target(b, k) # (f * Units) + i
    <3>1. (b + k) \div Units \in UserPages /\ f \in Nat
      BY <1>3, <1>4
    <3>2. Target(b, k) = (f * Units) + i => wanted[(b + k) \div Units] = f
      BY <1>1, <3>1, TargetUnit
    <3> QED  BY <1>6, <3>1, <3>2
  <2> QED  BY <2>1, <2>2
<1> QED  BY <1>5, <1>6 DEF a, b, n, m

\* What a unit of memory is after a segment has been loaded, from where the loops
\* went.
LEMMA FilledUnit ==
  ASSUME NEW s \in Segment, s.filesz <= s.memsz, NEW u \in PhysUnits, NEW a \in Int,
         \A k \in 0..(s.filesz - 1) : Target(s.vaddr, k) = u <=> s.vaddr + k = a,
         \A k \in 0..(s.memsz - s.filesz - 1) :
           Target(s.vaddr + s.filesz, k) = u <=> s.vaddr + s.filesz + k = a
  PROVE  Filled(s)[u] = IF FromFile(s, a) THEN FileUnit(s.offset + a - s.vaddr)
                        ELSE IF s.vaddr <= a /\ a < s.vaddr + s.memsz THEN 0 ELSE data[u]
<1> DEFINE C == Clears(s)
           R == {k \in 0..(s.filesz - 1) : Target(s.vaddr, k) = u}
<1>1. s.vaddr \in Nat /\ s.filesz \in Nat /\ s.memsz \in Nat /\ s.offset \in Nat
  BY DEF Segment
<1>2. \A k : k \in R <=> k \in 0..(s.filesz - 1) /\ s.vaddr + k = a
  OBVIOUS
<1>3. Filled(s)[u] = IF u \in C THEN 0
                     ELSE IF R # {} THEN FileUnit(s.offset + Max(R))
                     ELSE data[u]
  <2>1. u \in Reads(s) <=> R # {}
    BY DEF Reads
  <2>2. Filled(s)[u] = IF u \in C THEN 0
                       ELSE IF u \in Reads(s) THEN FileUnit(s.offset + Max(R))
                       ELSE data[u]
    BY Zenon DEF Filled
  <2> QED  BY <2>1, <2>2
<1>4. u \in C <=> s.vaddr + s.filesz <= a /\ a < s.vaddr + s.memsz
  <2>1. u \in C <=> \E k \in 0..(s.memsz - s.filesz - 1) : s.vaddr + s.filesz + k = a
    BY DEF Clears
  <2>2. ASSUME s.vaddr + s.filesz <= a, a < s.vaddr + s.memsz
        PROVE  \E k \in 0..(s.memsz - s.filesz - 1) : s.vaddr + s.filesz + k = a
    <3> DEFINE j == a - (s.vaddr + s.filesz)
    <3>1. j \in 0..(s.memsz - s.filesz - 1) /\ s.vaddr + s.filesz + j = a
      BY <1>1, <2>2
    <3> QED  BY <3>1
  <2>3. ASSUME NEW k \in 0..(s.memsz - s.filesz - 1), s.vaddr + s.filesz + k = a
        PROVE  s.vaddr + s.filesz <= a /\ a < s.vaddr + s.memsz
    BY <1>1, <2>3
  <2> HIDE DEF C
  <2> QED  BY <2>1, <2>2, <2>3
<1>5. R = IF FromFile(s, a) THEN {a - s.vaddr} ELSE {}
  <2>1. \A k : k \in R <=> FromFile(s, a) /\ k = a - s.vaddr
    BY <1>1, <1>2 DEF FromFile
  <2> HIDE DEF R
  <2> QED  BY <2>1
<1>6. FromFile(s, a) => s.offset + Max(R) = s.offset + a - s.vaddr
  <2> SUFFICES ASSUME FromFile(s, a) PROVE s.offset + Max(R) = s.offset + a - s.vaddr
    OBVIOUS
  <2>1. R = {a - s.vaddr} /\ a - s.vaddr \in Int
    BY <1>1, <1>5
  <2> HIDE DEF R
  <2>2. Max(R) = a - s.vaddr
    BY <2>1 DEF Max
  <2> QED  BY <1>1, <2>2
<1>7. FromFile(s, a) <=> s.vaddr <= a /\ a < s.vaddr + s.filesz
  BY DEF FromFile
<1> HIDE DEF R, C
<1>8. CASE FromFile(s, a)
  <2>1. ~(u \in C)
    BY <1>1, <1>4, <1>7, <1>8
  <2> QED  BY <1>3, <1>5, <1>6, <1>8, <2>1
<1>9. CASE ~FromFile(s, a)
  <2>1. u \in C <=> s.vaddr <= a /\ a < s.vaddr + s.memsz
    BY <1>1, <1>4, <1>7, <1>9
  <2> QED  BY <1>3, <1>5, <1>9, <2>1
<1> QED  BY <1>8, <1>9

\* Two segments of an image share no address.
LEMMA SegmentsApart ==
  ASSUME NEW img \in Images, NEW i \in 1..Len(img), NEW j \in 1..Len(img), i # j, NEW a \in Nat,
         img[i].vaddr <= a, a < img[i].vaddr + img[i].memsz,
         img[j].vaddr <= a, a < img[j].vaddr + img[j].memsz
  PROVE  FALSE
<1>1. img \in Seq(Segment) /\ Len(img) \in Nat
  BY ImageAssumption
<1>2. img[i] \in Segment /\ img[j] \in Segment
  BY <1>1
<1> DEFINE p == a \div Units
<1>3. /\ First(img[i]) <= p /\ p < First(img[i]) + Count(img[i])
      /\ First(img[j]) <= p /\ p < First(img[j]) + Count(img[j])
  BY <1>2, SegmentPages
<1>4. /\ First(img[i]) \in Nat /\ Count(img[i]) \in Int
      /\ First(img[j]) \in Nat /\ Count(img[j]) \in Int /\ p \in Nat
  BY <1>2, SegmentInts, PlaceOfUnit
<1>5. \/ First(img[i]) + Count(img[i]) <= First(img[j])
      \/ First(img[j]) + Count(img[j]) <= First(img[i])
  <2>1. i < j \/ j < i
    BY <1>1
  <2> QED  BY <2>1, ImageAssumption
<1> HIDE DEF p
<1> QED  BY <1>3, <1>4, <1>5

\* Once its last page is mapped a segment is ready.
LEMMA FirstIsReady ==
  ASSUME Sound, Rest, WellCut(image), SegmentMapped
  PROVE  /\ Ready(todo[1]) /\ image \in Images
         /\ Passed \in Nat /\ Passed + 1 \in 1..Len(image) /\ image[Passed + 1] = todo[1]
<1> DEFINE s == todo[1]
<1>1. /\ todo \in Seq(Segment) /\ Len(todo) \in Nat /\ Len(todo) > 0 /\ 1 \in 1..Len(todo)
      /\ todo # <<>> /\ mapped = Count(s)
  <2>1. todo \in Seq(Segment)
    BY DEF Sound, SegmentsWait
  <2> QED  BY <2>1 DEF SegmentMapped
<1>2. image \in Images
  <2>1. Len(todo) <= Len(image) /\ Len(<<>>) = 0
    BY DEF Rest
  <2> QED  BY <1>1, <2>1 DEF Rest
<1>3. image \in Seq(Segment) /\ Len(image) \in Nat
  BY <1>2, ImageAssumption
<1>4. Passed \in Nat /\ Passed + 1 \in 1..Len(image)
  BY <1>1, <1>3 DEF Rest, Passed
<1>5. image[Passed + 1] = s
  BY <1>1 DEF Rest
<1>6. /\ s \in Segment /\ s.filesz <= s.memsz
      /\ Contained(s.vaddr, s.filesz) /\ Contained(s.vaddr + s.filesz, s.memsz - s.filesz)
      /\ First(s) + Count(s) <= bottom_max
  BY <1>1, <1>2, <1>4, <1>5, ImageAssumption DEF WellCut
<1>7. ASSUME NEW p \in Nat, First(s) <= p, p < First(s) + Count(s)
      PROVE  p \in UserPages /\ wanted[p] # 0
  <2>1. First(s) \in Nat /\ Count(s) \in Int
    BY <1>6, SegmentInts
  <2>2. p < KernelBase /\ KernelBase \in Nat
    BY <1>6, <1>7, <2>1, StackFacts, PageBounds
  <2>3. p \in UserPages
    BY <2>2 DEF UserPages
  <2>4. p < First(s) + mapped
    BY <1>1, <1>7
  <2> QED  BY <1>1, <1>7, <2>3, <2>4 DEF Rest
<1> HIDE DEF s
<1>8. Ready(s)
  BY <1>6, <1>7 DEF Ready
<1> QED  BY <1>2, <1>4, <1>5, <1>8 DEF s

\* Of an image without chunks across the end of a page all goes to its own pages.
LEMMA NeverOverruns ==
  ASSUME Sound, Rest, WellCut(image), SegmentMapped
  PROVE  ~Overruns(Head(todo))
<1> DEFINE s == todo[1]
           b == s.vaddr + s.filesz
           m == s.memsz - s.filesz
<1>1. Head(todo) = s /\ root # 0
  <2>1. todo \in Seq(Segment) /\ todo # <<>>
    BY DEF Sound, SegmentsWait, SegmentMapped
  <2> QED  BY <2>1 DEF SegmentMapped, Sound, Order
<1>2. Ready(s)
  BY FirstIsReady
<1> HIDE DEF s
<1>3. /\ s.vaddr \in Nat /\ s.filesz \in Nat /\ s.memsz \in Nat /\ b \in Nat /\ m \in Nat
      /\ Contained(s.vaddr, s.filesz) /\ Contained(b, m) /\ s.filesz <= s.memsz
  BY <1>2 DEF Ready, Segment
<1>4. ASSUME NEW a \in Nat, NEW n \in Nat, Contained(a, n), NEW k \in 0..(n - 1),
             (a + k) \div Units \in UserPages
      PROVE  \E v \in UserPages : vmm_virt_to_phys_as(tables, root, v) = Target(a, k) \div Units
  <2> DEFINE p == (a + k) \div Units
             r == (a + k) % Units
  <2>1. Target(a, k) = (wanted[p] * Units) + r
    BY <1>1, <1>4, TargetIs
  <2>2. a + k \in Nat
    BY <1>4
  <2>3. r \in 0..(Units - 1) /\ p \in UserPages
    BY <1>4, <2>2, PlaceOfUnit
  <2>4. wanted[p] \in Nat
    BY <2>3 DEF Sound, Translates
  <2>5. vmm_virt_to_phys_as(tables, root, p) = wanted[p]
    BY <1>1, <2>3, SoundTranslation DEF TranslationExact, Alive, Sound, Order
  <2> HIDE DEF p, r
  <2>6. Target(a, k) \div Units = wanted[p]
    BY <2>1, <2>3, <2>4, UnitPlace
  <2> QED  BY <2>3, <2>5, <2>6
<1>5. ASSUME NEW k \in 0..(s.filesz - 1)
      PROVE  (s.vaddr + k) \div Units \in UserPages
  <2>1. k \in Nat /\ k < s.memsz
    BY <1>3
  <2> QED  BY <1>2, <2>1, ReadyAt
<1>6. ASSUME NEW k \in 0..(m - 1)
      PROVE  (b + k) \div Units \in UserPages
  <2>1. s.filesz + k \in Nat /\ s.filesz + k < s.memsz /\ b + k = s.vaddr + (s.filesz + k)
    BY <1>3
  <2> QED  BY <1>2, <2>1, ReadyAt
<1>7. Reads(s) = {Target(s.vaddr, k) : k \in 0..(s.filesz - 1)}
      /\ Clears(s) = {Target(b, k) : k \in 0..(m - 1)}
  BY DEF Reads, Clears
<1> HIDE DEF b, m
<1>8. ASSUME NEW u \in Reads(s) \cup Clears(s)
      PROVE  \E v \in UserPages : vmm_virt_to_phys_as(tables, root, v) = u \div Units
  <2>1. CASE u \in Reads(s)
    <3>1. PICK k \in 0..(s.filesz - 1) : u = Target(s.vaddr, k)
      BY <1>7, <2>1
    <3> QED  BY <1>3, <1>4, <1>5, <3>1
  <2>2. CASE u \in Clears(s)
    <3>1. PICK k \in 0..(m - 1) : u = Target(b, k)
      BY <1>7, <2>2
    <3> QED  BY <1>3, <1>4, <1>6, <3>1
  <2> QED  BY <2>1, <2>2
<1> QED  BY <1>1, <1>8 DEF Overruns

LEMMA FillContents ==
  ASSUME Sound, Rest, Written, WellCut(image), ElfFill(TRUE)
  PROVE  Rest' /\ Written'
<1> DEFINE s == todo[1]
           n == Passed
<1>1. /\ SegmentMapped /\ pc = "elf" /\ todo # <<>>
      /\ pc' = "elf" /\ data' = Filled(Head(todo)) /\ todo' = Tail(todo) /\ mapped' = 0
      /\ UNCHANGED <<root, wanted, image>>
  BY DEF ElfFill, SegmentMapped
<1>2. todo \in Seq(Segment)
  BY DEF Sound, SegmentsWait
<1>3. /\ Head(todo) = s /\ Len(todo') = Len(todo) - 1 /\ Len(todo) \in Nat
      /\ \A i \in 1..Len(todo') : todo'[i] = todo[i + 1] /\ i + 1 \in 1..Len(todo)
  BY <1>1, <1>2
<1>4. /\ Ready(s) /\ image \in Images /\ image \in Seq(Segment) /\ Len(image) \in Nat
      /\ n \in Nat /\ n + 1 \in 1..Len(image) /\ image[n + 1] = s
  BY <1>1, <1>3, FirstIsReady, ImageAssumption
<1>5. Passed' = n + 1
  BY <1>1, <1>3, <1>4 DEF Passed
<1>6. Rest'
  <2>1. Len(todo') <= Len(image')
    BY <1>1, <1>3, <1>4 DEF Rest
  <2>2. ASSUME NEW i \in 1..Len(todo')
        PROVE  todo'[i] = image'[Passed' + i]
    <3>1. todo[i + 1] = image[n + (i + 1)]
      BY <1>3 DEF Rest
    <3>2. n + (i + 1) = Passed' + i
      BY <1>4, <1>5
    <3> QED  BY <1>1, <1>3, <3>1, <3>2
  <2>3. todo' # <<>> => \A v \in UserPages :
          First(todo'[1]) <= v /\ v < First(todo'[1]) + mapped' => wanted'[v] # 0
    <3> SUFFICES ASSUME todo' # <<>>, NEW v \in UserPages, First(todo'[1]) <= v, v < First(todo'[1]) + 0
                 PROVE  FALSE
      BY <1>1
    <3>1. todo' \in Seq(Segment)
      BY <1>1, <1>2
    <3>2. todo'[1] \in Segment
      BY <3>1
    <3>3. First(todo'[1]) \in Nat /\ v \in Nat
      BY <3>2, SegmentInts, PageBounds
    <3> QED  BY <3>3
  <2> QED  BY <1>1, <1>4, <2>1, <2>2, <2>3 DEF Rest
<1>7. root # 0
  BY <1>1 DEF Sound, Order
<1>8. s \in Segment /\ s.filesz <= s.memsz /\ s.vaddr \in Nat /\ s.filesz \in Nat /\ s.memsz \in Nat
  BY <1>4 DEF Ready, Segment
<1> HIDE DEF s, n
<1>9. ASSUME NEW v \in UserPages, wanted[v] # 0, NEW i \in 0..(Units - 1)
      PROVE  Placing(n + 1, (v * Units) + i, Filled(s)[(wanted[v] * Units) + i])
  <2> DEFINE a == (v * Units) + i
             u == (wanted[v] * Units) + i
             x == Filled(s)[u]
  <2>1. v \in Nat /\ a \in Nat
    <3>1. v \in Nat
      BY PageBounds
    <3> QED  BY <3>1, UnitPlace
  <2>2. u \in PhysUnits
    <3>1. wanted[v] \in Frames
      BY <1>9, NodeFacts DEF Sound, Translates
    <3> QED  BY <3>1, UnitIn
  <2>3. Placing(n, a, data[u])
    BY <1>9 DEF Written, n
  <2>4. /\ \A k \in 0..(s.filesz - 1) : Target(s.vaddr, k) = u <=> s.vaddr + k = a
        /\ \A k \in 0..(s.memsz - s.filesz - 1) :
             Target(s.vaddr + s.filesz, k) = u <=> s.vaddr + s.filesz + k = a
    BY <1>4, <1>7, Loops
  <2> HIDE DEF a, u
  <2>5. x = IF FromFile(s, a) THEN FileUnit(s.offset + a - s.vaddr)
            ELSE IF s.vaddr <= a /\ a < s.vaddr + s.memsz THEN 0 ELSE data[u]
    BY <1>8, <2>1, <2>2, <2>4, FilledUnit
  <2> HIDE DEF x
  <2>6. ASSUME NEW j \in 1..n, FromFile(image[j], a)
        PROVE  ~(s.vaddr <= a /\ a < s.vaddr + s.memsz)
    <3>1. j \in 1..Len(image) /\ j # n + 1
      BY <1>4
    <3>2. image[j] \in Segment /\ image[j].filesz <= image[j].memsz
      BY <1>4, <3>1, ImageAssumption
    <3>3. image[j].vaddr <= a /\ a < image[j].vaddr + image[j].memsz
      BY <2>1, <2>6, <3>2 DEF FromFile, Segment
    <3> QED  BY <1>4, <2>1, <3>1, <3>3, SegmentsApart
  <2>7. FromFile(s, a) => s.vaddr <= a /\ a < s.vaddr + s.memsz
    BY <1>8, <2>1 DEF FromFile
  <2>8. ASSUME NEW j \in 1..(n + 1), FromFile(image[j], a)
        PROVE  x = FileUnit(image[j].offset + a - image[j].vaddr)
    <3>1. CASE j = n + 1
      BY <1>4, <2>5, <2>8, <3>1
    <3>2. CASE j # n + 1
      <4>1. j \in 1..n
        BY <1>4, <3>2
      <4>2. x = data[u]
        BY <2>5, <2>6, <2>7, <2>8, <4>1
      <4> QED  BY <2>3, <2>8, <4>1, <4>2 DEF Placing
    <3> QED  BY <3>1, <3>2
  <2>9. ASSUME \A j \in 1..(n + 1) : ~FromFile(image[j], a)
        PROVE  x = 0
    <3>1. n + 1 \in 1..(n + 1) /\ \A j \in 1..n : j \in 1..(n + 1)
      BY <1>4
    <3>2. ~FromFile(s, a) /\ \A j \in 1..n : ~FromFile(image[j], a)
      BY <1>4, <2>9, <3>1
    <3>3. data[u] = 0
      BY <2>3, <3>2 DEF Placing
    <3> QED  BY <2>5, <3>2, <3>3
  <2>10. Placing(n + 1, a, x)
    BY <2>8, <2>9 DEF Placing
  <2> QED  BY <2>10 DEF a, u, x
<1>10. ASSUME NEW f \in Frames, \A v \in UserPages : wanted[v] # f, NEW i \in 0..(Units - 1)
       PROVE  Filled(s)[(f * Units) + i] = 0
  <2> DEFINE u == (f * Units) + i
             a == -1
  <2>1. u \in PhysUnits
    BY UnitIn
  <2>2. data[u] = 0
    BY <1>10 DEF Written
  <2>3. /\ \A k \in 0..(s.filesz - 1) : Target(s.vaddr, k) # u
        /\ \A k \in 0..(s.memsz - s.filesz - 1) : Target(s.vaddr + s.filesz, k) # u
    BY <1>4, <1>7, <1>10, Loops
  <2> HIDE DEF u
  <2>4. /\ \A k \in 0..(s.filesz - 1) : s.vaddr + k # a
        /\ \A k \in 0..(s.memsz - s.filesz - 1) : s.vaddr + s.filesz + k # a
        /\ a \in Int /\ ~(s.vaddr <= a)
    BY <1>8
  <2> HIDE DEF a
  <2>5. Filled(s)[u] = IF FromFile(s, a) THEN FileUnit(s.offset + a - s.vaddr)
                       ELSE IF s.vaddr <= a /\ a < s.vaddr + s.memsz THEN 0 ELSE data[u]
    BY <1>8, <2>1, <2>3, <2>4, FilledUnit
  <2>6. Filled(s)[u] = 0
    BY <2>2, <2>4, <2>5 DEF FromFile
  <2> QED  BY <2>6 DEF u
<1>11. Written'
  <2>1. data' = Filled(s) /\ wanted' = wanted /\ image' = image
    BY <1>1, <1>3
  <2> QED  BY <1>5, <1>9, <1>10, <2>1 DEF Written, Placing
<1> QED  BY <1>6, <1>11

\* Nothing that contents depend on changes.
LEMMA SameContents ==
  ASSUME Rest, Written, UNCHANGED <<image, todo, wanted, data, mapped>>,
         pc' = "run" => pc = "run" \/ todo = <<>>
  PROVE  Rest' /\ Written'
<1>1. Rest'
  BY DEF Rest, Passed
<1>2. Written'
  BY DEF Written, Passed, Placing
<1> QED  BY <1>1, <1>2

\* Page v gets a frame, and is a page of no segment that has been loaded.
LEMMA MapContents ==
  ASSUME Sound, Sound', Rest, Written, UNCHANGED <<image, todo, data>>,
         NEW v \in UserPages, wanted[v] = 0, NEW x \in Frames, wanted' = [wanted EXCEPT ![v] = x],
         \A j \in 1..Passed : ~(First(image[j]) <= v /\ v < First(image[j]) + Count(image[j]))
  PROVE  Written'
<1>1. wanted'[v] = x /\ \A w \in UserPages : w # v => wanted'[w] = wanted[w]
  BY DEF Sound, Translates
<1>2. x # 0
  BY NodeFacts
<1>3. ASSUME NEW w \in UserPages, wanted[w] = x
      PROVE  FALSE
  <2>1. w # v
    BY <1>2, <1>3
  <2>2. wanted'[w] = wanted'[v] /\ wanted'[w] # 0
    BY <1>1, <1>2, <1>3, <2>1
  <2>3. w \in Pages /\ v \in Pages /\ 4 \in 0..4
    BY PageBounds
  <2>4. /\ Walk(tables', root', w, 4) = wanted'[w] /\ Walk(tables', root', v, 4) = wanted'[v]
        /\ Forest(tables', free', root', Pending')
    BY DEF Sound, Translates
  <2>5. Prefix(w, 4) = Prefix(v, 4)
    BY <2>2, <2>3, <2>4, Unique
  <2> QED  BY <2>1, <2>3, <2>5, PrefixEnds
<1>4. \A i \in 0..(Units - 1) : data[(x * Units) + i] = 0
  BY <1>3 DEF Written
<1>5. ASSUME NEW i \in 0..(Units - 1), NEW j \in 1..Passed, FromFile(image[j], (v * Units) + i)
      PROVE  FALSE
  <2> DEFINE a == (v * Units) + i
  <2>1. v \in Nat
    BY PageBounds
  <2>2. a \in Nat /\ a \div Units = v
    BY <2>1, UnitPlace
  <2>3. /\ image \in Seq(Segment) /\ Len(image) \in Nat /\ Len(todo) \in Nat
        /\ \A l \in 1..Len(image) : image[l].filesz <= image[l].memsz
    <3>1. todo \in Seq(Segment)
      BY DEF Sound, SegmentsWait
    <3>2. CASE image \in Images
      BY <3>1, <3>2, ImageAssumption
    <3>3. CASE image = <<>>
      BY <3>1, <3>3
    <3> QED  BY <3>2, <3>3 DEF Rest
  <2>4. j \in 1..Len(image)
    BY <2>3 DEF Passed
  <2>5. image[j] \in Segment /\ image[j].filesz <= image[j].memsz
    BY <2>3, <2>4
  <2> HIDE DEF a
  <2>6. image[j].vaddr <= a /\ a < image[j].vaddr + image[j].memsz
    <3>1. FromFile(image[j], a)
      BY <1>5 DEF a
    <3> QED  BY <2>2, <2>5, <3>1 DEF FromFile, Segment
  <2>7. First(image[j]) <= a \div Units /\ a \div Units < First(image[j]) + Count(image[j])
    BY <2>2, <2>5, <2>6, SegmentPages
  <2> QED  BY <2>2, <2>7
<1>6. ASSUME NEW w \in UserPages, wanted'[w] # 0, NEW i \in 0..(Units - 1)
      PROVE  Placing(Passed, (w * Units) + i, data[(wanted'[w] * Units) + i])
  <2>1. CASE w = v
    BY <1>1, <1>4, <1>5, <2>1 DEF Placing
  <2>2. CASE w # v
    BY <1>1, <1>6, <2>2 DEF Written
  <2> QED  BY <2>1, <2>2
<1>7. ASSUME NEW f \in Frames, \A w \in UserPages : wanted'[w] # f, NEW i \in 0..(Units - 1)
      PROVE  data[(f * Units) + i] = 0
  <2>1. \A w \in UserPages : wanted[w] # f
    <3>1. f # 0
      BY NodeFacts
    <3> QED  BY <1>1, <1>7, <3>1
  <2> QED  BY <2>1 DEF Written
<1>8. image' = image /\ data' = data /\ Passed' = Passed
  BY DEF Passed
<1> QED  BY <1>6, <1>7, <1>8 DEF Written, Placing

\* A page at or above bottom_max is a page of no segment.
LEMMA StackApart ==
  ASSUME Sound, Rest, NEW v \in UserPages, v >= bottom_max, NEW j \in 1..Passed
  PROVE  ~(First(image[j]) <= v /\ v < First(image[j]) + Count(image[j]))
<1>1. todo \in Seq(Segment)
  BY DEF Sound, SegmentsWait
<1>2. CASE image = <<>>
  BY <1>1, <1>2 DEF Passed
<1>3. CASE image \in Images
  <2>1. image \in Seq(Segment)
    BY <1>3, ImageAssumption
  <2>2. j \in 1..Len(image)
    BY <1>1, <2>1 DEF Passed
  <2>3. First(image[j]) + Count(image[j]) <= bottom_max
    BY <1>3, <2>2, ImageAssumption
  <2>4. image[j] \in Segment
    BY <2>1, <2>2
  <2>5. First(image[j]) \in Nat /\ Count(image[j]) \in Int /\ bottom_max \in Nat /\ v \in Nat
    BY <2>4, SegmentInts, StackFacts, PageBounds
  <2> QED  BY <2>3, <2>5
<1> QED  BY <1>2, <1>3 DEF Rest

LEMMA StackContents ==
  ASSUME Sound, Sound', Rest, Written, UNCHANGED <<image, todo, data, mapped>>, pc' = pc,
         NEW v \in UserPages, v >= bottom_max, wanted[v] = 0, NEW x \in Frames,
         wanted' = [wanted EXCEPT ![v] = x]
  PROVE  Rest' /\ Written'
<1>1. Written'
  BY StackApart, MapContents
<1>2. x # 0 /\ \A w \in UserPages : wanted'[w] = IF w = v THEN x ELSE wanted[w]
  BY NodeFacts DEF Sound, Translates
<1>3. Rest'
  BY <1>2 DEF Rest, Passed
<1> QED  BY <1>1, <1>3

LEMMA CreateSpaceContents ==
  ASSUME Sound, Rest, Written, NEW img \in Images, CreateSpace(img), pc' # "panic"
  PROVE  Rest' /\ Written'
<1>1. /\ pc = "space" /\ todo' = img /\ image' = img /\ UNCHANGED <<mapped, wanted, data>>
      /\ pc' = "stack"
  BY DEF CreateSpace, Becomes
<1>2. root = 0 /\ mapped = 0
  BY <1>1 DEF Sound, Order
<1>3. img \in Seq(Segment) /\ Len(img) \in Nat /\ Passed' = 0
  BY <1>1, ImageAssumption DEF Passed
<1>4. \A v \in UserPages : wanted[v] = 0
  BY <1>2, NothingWanted
<1>5. Written'
  <2>1. \A f \in Frames, i \in 0..(Units - 1) : data[(f * Units) + i] = 0
    <3>1. \A f \in Frames : f # 0
      BY NodeFacts
    <3> QED  BY <1>4, <3>1 DEF Written
  <2> QED  BY <1>1, <1>4, <2>1 DEF Written
<1>6. Rest'
  <2>1. \A i \in 1..Len(img) : img[i] = img[0 + i]
    BY <1>3
  <2>2. ASSUME img # <<>>, NEW v \in UserPages, First(img[1]) <= v, v < First(img[1]) + 0
        PROVE  FALSE
    <3>1. img[1] \in Segment
      BY <1>3, <2>2
    <3>2. First(img[1]) \in Nat /\ v \in Nat
      BY <3>1, SegmentInts, PageBounds
    <3> QED  BY <2>2, <3>2
  <2> QED  BY <1>1, <1>2, <1>3, <2>1, <2>2 DEF Rest
<1> QED  BY <1>5, <1>6

LEMMA StackPageContents ==
  ASSUME Sound, Sound', Rest, Written, StackPage, pc' # "panic"
  PROVE  Rest' /\ Written'
<1> DEFINE v == bottom + Len(stack)
           x == MapFresh(Memory, root, v).at
<1>1. /\ pc = "stack" /\ root # 0 /\ Len(stack) < StackPages
      /\ bottom = StackTop - StackPages /\ stack \in Seq(Frames) /\ Len(stack) \in Nat
  BY DEF StackPage, MoreStack, Sound, Order, StackGrows
<1>2. /\ pc' = "stack" /\ stack' = Append(stack, x) /\ wanted' = [wanted EXCEPT ![v] = x]
      /\ UNCHANGED <<image, data, todo, mapped, bottom>>
  BY DEF StackPage, Becomes, contents
<1>3. v \in bottom_max..(StackTop - 1) /\ v \in UserPages /\ v >= bottom_max
  BY <1>1, StackFacts
<1>4. wanted[v] = 0
  <2>1. wanted[v] # 0 => v < bottom + Len(stack)
    BY <1>1, <1>3 DEF Sound, StackGrows
  <2>2. ~(v < bottom + Len(stack))
    BY <1>1, StackFacts
  <2> QED  BY <2>1, <2>2
<1> HIDE DEF x
<1>5. x \in Frames
  <2>1. stack' \in Seq(Frames)
    BY DEF Sound, StackGrows
  <2>2. Len(stack) + 1 \in 1..Len(stack') /\ stack'[Len(stack) + 1] = x
    BY <1>1, <1>2
  <2> QED  BY <2>1, <2>2
<1> HIDE DEF v
<1> QED  BY <1>1, <1>2, <1>3, <1>4, <1>5, StackContents

LEMMA PageFaultContents ==
  ASSUME Sound, Sound', Rest, Written, PageFault, pc' # "panic"
  PROVE  Rest' /\ Written'
<1> DEFINE v == bottom - 1
           x == MapFresh(Memory, root, v).at
<1>1. pc = "run" /\ root # 0
  BY DEF PageFault, Sound, Order
<1>2. /\ pc' = "run" /\ bottom' = v /\ wanted' = [wanted EXCEPT ![v] = x] /\ ~(v < bottom_max)
      /\ UNCHANGED <<image, data, todo, mapped, root>>
  BY DEF PageFault, grow_user_stack, Becomes, AtLimit, contents
<1>3. /\ bottom \in Int
      /\ v \in bottom_max..(StackTop - 1) /\ v \in UserPages /\ v >= bottom_max
  <2>1. bottom \in bottom_max..(StackTop - StackPages)
    BY DEF Sound, StackGrows
  <2> QED  BY <1>2, <2>1, StackFacts
<1>4. wanted[v] = 0
  <2>1. wanted[v] # 0 => bottom <= v
    BY <1>1, <1>3 DEF Sound, StackGrows
  <2> QED  BY <1>3, <2>1
<1>5. x \in Frames
  <2>1. wanted'[v] = x
    BY <1>2, <1>3 DEF Sound, Translates
  <2>2. wanted' \in [UserPages -> 0..FrameCount] /\ root' # 0
    BY <1>1, <1>2 DEF Sound, Translates
  <2>3. wanted'[v] # 0
    <3>1. bottom' <= v
      BY <1>2, <1>3
    <3> QED  BY <1>2, <1>3, <2>2, <3>1 DEF Sound, StackGrows
  <2> HIDE DEF v, x
  <2> QED  BY <1>3, <2>1, <2>2, <2>3, NodeFacts
<1> HIDE DEF v, x
<1> QED  BY <1>1, <1>2, <1>3, <1>4, <1>5, StackContents

LEMMA ElfMapContents ==
  ASSUME Sound, Sound', Rest, Written, ElfMap, pc' # "panic"
  PROVE  Rest' /\ Written'
<1> DEFINE s == todo[1]
           v == First(s) + mapped
           f == phys[mapped + 1]
<1>1. todo \in Seq(Segment) /\ todo # <<>> /\ Head(todo) = s /\ s \in Segment
      /\ Len(todo) \in Nat /\ 1 \in 1..Len(todo)
  <2>1. todo \in Seq(Segment) /\ todo # <<>>
    BY DEF ElfMap, Sound, SegmentsWait
  <2> QED  BY <2>1
<1>2. /\ pc = "elf" /\ phys \in Seq(Frames) /\ mapped \in Nat /\ mapped + 1 \in 1..Len(phys)
      /\ mapped < Len(phys) /\ Len(phys) = Count(s)
  <2>1. pc = "elf" /\ Len(phys) = Count(s) /\ mapped < Len(phys)
    BY <1>1 DEF ElfMap
  <2>2. phys \in Seq(Frames) /\ mapped \in 0..Len(phys)
    BY DEF Sound, Order
  <2> QED  BY <2>1, <2>2
<1>3. /\ pc' = "elf" /\ mapped' = mapped + 1 /\ wanted' = [wanted EXCEPT ![v] = f]
      /\ UNCHANGED <<image, data, todo>>
  BY <1>1 DEF ElfMap, Becomes, contents
<1>4. First(s) \in Nat /\ Count(s) \in Int
  BY <1>1, SegmentInts
<1>5. f \in Frames /\ f # 0
  BY <1>2, NodeFacts
<1>6. v \in Nat /\ First(s) <= v /\ v < First(s) + Count(s) /\ v \in UserPages
  <2>1. First(s) + Count(s) <= bottom_max
    BY <1>1 DEF Sound, SegmentsWait
  <2>2. v \in Nat /\ v < First(s) + Count(s) /\ First(s) <= v
    BY <1>2, <1>4
  <2>3. v < KernelBase /\ KernelBase \in Nat
    BY <1>4, <2>1, <2>2, StackFacts, PageBounds
  <2> QED  BY <2>2, <2>3 DEF UserPages
<1>7. wanted[v] = 0
  <2>1. \A w \in UserPages : First(s) + mapped <= w /\ w < First(s) + Count(s) => wanted[w] = 0
    BY <1>1 DEF Sound, SegmentsWait
  <2> QED  BY <1>6, <2>1
<1>8. image \in Images /\ Passed \in Nat /\ Passed + 1 \in 1..Len(image) /\ image[Passed + 1] = s
  <2>1. Len(todo) <= Len(image) /\ Len(todo) > 0 /\ Len(<<>>) = 0
    BY <1>1 DEF Rest
  <2>2. image \in Images
    BY <1>1, <2>1 DEF Rest
  <2>3. image \in Seq(Segment) /\ Len(image) \in Nat
    BY <2>2, ImageAssumption
  <2>4. image[Passed + 1] = s
    BY <1>1 DEF Rest
  <2> QED  BY <1>1, <2>1, <2>2, <2>3, <2>4 DEF Passed
<1>9. ASSUME NEW j \in 1..Passed
      PROVE  ~(First(image[j]) <= v /\ v < First(image[j]) + Count(image[j]))
  <2>1. j \in 1..Len(image) /\ j < Passed + 1
    BY <1>8
  <2>2. \/ First(image[j]) + Count(image[j]) <= First(s)
        \/ First(s) + Count(s) <= First(image[j])
    BY <1>8, <2>1, ImageAssumption
  <2>3. image \in Seq(Segment)
    BY <1>8, ImageAssumption
  <2>4. image[j] \in Segment
    BY <2>1, <2>3
  <2>5. First(image[j]) \in Nat /\ Count(image[j]) \in Int
    BY <2>4, SegmentInts
  <2> HIDE DEF v, s
  <2> QED  BY <1>4, <1>6, <2>2, <2>5
<1>10. \A w \in UserPages : wanted'[w] = IF w = v THEN f ELSE wanted[w]
  BY <1>3, <1>6 DEF Sound, Translates
<1>11. Written'
  <2> HIDE DEF v, f
  <2> QED  BY <1>3, <1>5, <1>6, <1>7, <1>9, MapContents
<1>12. Rest'
  <2>1. ASSUME NEW w \in UserPages, First(s) <= w, w < First(s) + (mapped + 1)
        PROVE  wanted'[w] # 0
    <3>1. w \in Nat
      BY PageBounds
    <3>2. w = v \/ w < First(s) + mapped
      BY <1>2, <1>4, <2>1, <3>1
    <3>3. w < First(s) + mapped => wanted[w] # 0
      BY <1>1, <2>1 DEF Rest
    <3> QED  BY <1>5, <1>10, <3>2, <3>3
  <2> HIDE DEF f, v
  <2> QED  BY <1>3, <2>1 DEF Rest, Passed
<1> QED  BY <1>11, <1>12

LEMMA InitContents == Init => Rest /\ Written
<1> SUFFICES ASSUME Init PROVE Rest /\ Written
  OBVIOUS
<1>1. image = <<>> /\ todo = <<>> /\ pc = "boot"
  BY DEF Init
<1>2. Rest
  BY <1>1 DEF Rest
<1>3. \A v \in UserPages : wanted[v] = 0
  BY DEF Init
<1>4. ASSUME NEW f \in Frames, NEW i \in 0..(Units - 1)
      PROVE  data[(f * Units) + i] = 0
  <2>1. (f * Units) + i \in PhysUnits
    BY UnitIn
  <2> QED  BY <2>1 DEF Init
<1> QED  BY <1>2, <1>3, <1>4 DEF Written

LEMMA ContentsStep == IInv /\ ContentsInv /\ [Next]_vars => ContentsInv'
<1> SUFFICES ASSUME IInv, ContentsInv, [Next]_vars
             PROVE  ContentsInv'
  OBVIOUS
<1>1. pc' \in {"boot", "space"} => image' = <<>>
  <2> SUFFICES ASSUME pc' \in {"boot", "space"} PROVE image' = <<>>
    OBVIOUS
  <2>1. pc \in {"boot", "space"} => image = <<>>
    BY DEF ContentsInv
  <2>2. KernelAllocates \/ ProcessCreate \/ UNCHANGED vars
    BY DEF Next, Becomes, ProcessRefused, CreateSpace, StackPage, StackDone, ElfAlloc, ElfMap,
           ElfFill, ElfOverruns, ElfBad, ElfDone, CreateFails, LoadInitPanics, Touch, SegmentMapped,
           PageFault, grow_user_stack
  <2>3. CASE KernelAllocates
    BY <2>1, <2>3 DEF KernelAllocates, HeapGrow, Becomes, contents
  <2>4. CASE ProcessCreate
    BY <2>1, <2>4 DEF ProcessCreate, HeapGrow, contents, memory_and_process
  <2>5. CASE UNCHANGED vars
    BY <2>1, <2>5 DEF vars, contents
  <2> QED  BY <2>2, <2>3, <2>4, <2>5
<1> SUFFICES ASSUME pc' \notin {"panic", "failed", "fail"}, WellCut(image')
             PROVE  pc' # "wild" /\ Rest' /\ Written'
  BY <1>1 DEF ContentsInv, WellCut
<1>2. pc \notin {"panic", "failed", "fail"}
  BY DEF Next, KernelAllocates, ProcessRefused, ProcessCreate, CreateSpace, StackPage, StackDone,
         ElfAlloc, ElfMap, ElfFill, ElfOverruns, SegmentMapped, ElfBad, ElfDone, CreateFails,
         LoadInitPanics, Touch, PageFault, vars
<1>3. WellCut(image)
  <2>1. CASE \E img \in Images : CreateSpace(img)
    <3>1. image = <<>>
      BY <2>1 DEF CreateSpace, ContentsInv
    <3> QED  BY <3>1 DEF WellCut
  <2>2. CASE ~\E img \in Images : CreateSpace(img)
    <3>1. image' = image
      BY <2>2 DEF Next, KernelAllocates, HeapGrow, contents, memory_and_process, ProcessRefused,
             ProcessCreate, StackPage, StackDone, ElfAlloc, ElfMap, ElfFill, ElfOverruns, ElfBad,
             ElfDone, CreateFails, LoadInitPanics, Touch, PageFault, vars
    <3> QED  BY <3>1
  <2> QED  BY <2>1, <2>2
<1>4. pc # "wild" /\ Sound /\ Rest /\ Written
  BY <1>2, <1>3 DEF IInv, ContentsInv
<1>5. ~ElfOverruns
  BY <1>4, <1>3, NeverOverruns DEF ElfOverruns
<1>6. pc' # "wild"
  BY <1>2, <1>4, <1>5 DEF Next, KernelAllocates, HeapGrow, Becomes, ProcessRefused, ProcessCreate,
         CreateSpace, StackPage, StackDone, ElfAlloc, ElfMap, ElfFill, ElfBad, ElfDone, CreateFails,
         LoadInitPanics, Touch, PageFault, grow_user_stack, vars
<1> SUFFICES Rest' /\ Written'
  BY <1>6
<1>7. Sound'
  BY <1>6, InductiveStep DEF IInv
<1>8. CASE KernelAllocates
  BY <1>2, <1>4, <1>8, SameContents DEF KernelAllocates, HeapGrow, Becomes, contents
<1>9. CASE ProcessCreate
  BY <1>2, <1>4, <1>9, SameContents DEF ProcessCreate, HeapGrow, Becomes, contents, memory_and_process
<1>10. CASE \E img \in Images : CreateSpace(img)
  BY <1>4, <1>10, CreateSpaceContents
<1>11. CASE StackPage
  BY <1>4, <1>7, <1>11, StackPageContents
<1>12. CASE ElfAlloc
  BY <1>2, <1>4, <1>12, SameContents DEF ElfAlloc, Becomes, contents
<1>13. CASE ElfMap
  BY <1>4, <1>7, <1>13, ElfMapContents
<1>14. CASE \E fills \in BOOLEAN : ElfFill(fills)
  <2>1. PICK fills \in BOOLEAN : ElfFill(fills)
    BY <1>14
  <2>2. fills = TRUE
    BY <2>1 DEF ElfFill
  <2> QED  BY <1>4, <1>3, <2>1, <2>2, FillContents
<1>15. CASE PageFault
  BY <1>4, <1>7, <1>15, PageFaultContents
<1>16. CASE StackDone \/ ElfDone \/ (\E v \in UserPages : Touch(v)) \/ UNCHANGED vars
  BY <1>4, <1>16, SameContents DEF StackDone, ElfDone, Touch, vars, memory_and_process, contents
<1>17. CASE ProcessRefused \/ ElfBad \/ CreateFails \/ LoadInitPanics
  BY <1>17 DEF ProcessRefused, ElfBad, CreateFails, LoadInitPanics
<1> QED  BY <1>8, <1>9, <1>10, <1>11, <1>12, <1>13, <1>14, <1>15, <1>16, <1>17, <1>5 DEF Next

\* A set of positions that is not empty has a lowest one.
LEMMA Lowest ==
  ASSUME NEW S \in SUBSET Nat, S # {}
  PROVE  Min(S) \in S
<1> DEFINE R == OpToRel(<, Nat)
<1>1. R = {ss \in Nat \X Nat : ss[1] < ss[2]} /\ IsWellFoundedOn(R, Nat)
  BY NatLessThanWellFounded DEF OpToRel
<1> HIDE DEF R
<1>2. PICK d \in S : \A k \in S : ~(<<k, d>> \in R)
  BY <1>1, WFMin
<1>3. ASSUME NEW k \in S
      PROVE  d <= k
  <2>1. d \in Nat /\ k \in Nat
    BY <1>2
  <2>2. <<k, d>> \in R <=> k < d
    BY <1>1, <2>1
  <2> QED  BY <1>2, <2>1, <2>2
<1> QED  BY <1>2, <1>3 DEF Min

LEMMA SoundContents ==
  ASSUME Sound, Rest, Written, pc = "run"
  PROVE  ElfExact
<1> SUFFICES ASSUME NEW v \in UserPages, wanted[v] # 0, NEW i \in 0..(Units - 1)
             PROVE  data[vmm_virt_to_phys_as(tables, root, v) * Units + i] = Loaded(v * Units + i)
  BY DEF ElfExact
<1> DEFINE a == (v * Units) + i
           x == data[(wanted[v] * Units) + i]
           W == {j \in 1..Len(image) : image[j].vaddr <= a /\ a < image[j].vaddr + image[j].filesz}
<1>1. vmm_virt_to_phys_as(tables, root, v) = wanted[v]
  BY SoundTranslation DEF TranslationExact, Alive, Sound, Order
<1>2. Len(image) \in Nat /\ Passed = Len(image)
  <2>1. CASE image \in Images
    <3>1. image \in Seq(Segment)
      BY <2>1, ImageAssumption
    <3> QED  BY <3>1 DEF Rest, Passed
  <2>2. CASE image = <<>>
    BY <2>2 DEF Rest, Passed
  <2> QED  BY <2>1, <2>2 DEF Rest
<1>3. Placing(Len(image), a, x)
  BY <1>2 DEF Written
<1>4. Loaded(a) = IF W = {} THEN 0
                  ELSE FileUnit(image[Min(W)].offset + a - image[Min(W)].vaddr)
  BY DEF Loaded
<1> HIDE DEF a, x
<1>5. \A j \in 1..Len(image) : j \in W <=> FromFile(image[j], a)
  BY DEF FromFile
<1>6. ASSUME W = {} PROVE x = Loaded(a)
  BY <1>3, <1>4, <1>5, <1>6 DEF Placing
<1>7. ASSUME W # {} PROVE x = Loaded(a)
  <2>1. W \in SUBSET Nat /\ W \subseteq 1..Len(image)
    BY <1>2
  <2> HIDE DEF W
  <2>2. Min(W) \in W
    BY <1>7, <2>1, Lowest
  <2>3. Min(W) \in 1..Len(image) /\ FromFile(image[Min(W)], a)
    BY <1>5, <2>1, <2>2
  <2> QED  BY <1>3, <1>4, <1>7, <2>3 DEF Placing
<1>8. x = Loaded(a)
  BY <1>6, <1>7
<1> QED  BY <1>1, <1>8 DEF a, x

\* elf_load_into_address_space puts each unit of each segment at its address, and
\* leaves zeros everywhere else the process can read, for every image without a
\* chunk that crosses the end of a page; for the others it does not.
THEOREM ElfLoaded == Spec => []ElfExact
<1>1. Init => ContentsInv
  <2> SUFFICES ASSUME Init PROVE ContentsInv
    OBVIOUS
  <2>1. image = <<>> /\ pc = "boot"
    BY DEF Init
  <2> QED  BY <2>1, InitContents DEF ContentsInv
<1>2. IInv /\ ContentsInv /\ [Next]_vars => ContentsInv'
  BY ContentsStep
<1>3. IInv /\ ContentsInv => ElfExact
  <2> SUFFICES ASSUME IInv, ContentsInv, WellCut(image)
               PROVE  pc # "wild" /\ (pc = "run" => ElfExact)
    BY DEF ElfExact
  <2>1. pc # "wild"
    BY DEF ContentsInv
  <2>2. ASSUME pc = "run" PROVE ElfExact
    <3>1. Sound /\ Rest /\ Written
      BY <2>2 DEF IInv, ContentsInv
    <3> QED  BY <2>2, <3>1, SoundContents
  <2> QED  BY <2>1, <2>2
<1> QED  BY <1>1, <1>2, <1>3, Inductive, PTL DEF Spec
=============================================================================
