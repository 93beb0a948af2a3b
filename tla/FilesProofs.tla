----------------------------- MODULE FilesProofs -----------------------------
(***************************************************************************)
(* Descriptors, the global file table and file objects stay in step, for   *)
(* any number of processes, sizes of tables and files, and sequence of     *)
(* opens, failed opens, closes, reads, writes and seeks; and the names of  *)
(* Namespace lead to the vnodes they mean, for every archive and path.     *)
(***************************************************************************)
EXTENDS Files, Namespace, WellFoundedInduction, FiniteSetTheorems, SequenceTheorems, TLAPS

\* The lowest of a set of naturals.
LEMMA Lowest ==
  ASSUME NEW S \in SUBSET Nat, S # {}
  PROVE  \E m \in S : \A k \in S : m <= k
<1> DEFINE R == OpToRel(<, Nat)
<1>1. R = {ss \in Nat \X Nat : ss[1] < ss[2]}
  BY DEF OpToRel
<1>2. IsWellFoundedOn(R, Nat)
  BY NatLessThanWellFounded
<1> HIDE DEF R
<1>3. PICK m \in S : \A k \in S : ~(<<k, m>> \in R)
  BY <1>2, WFMin
<1>4. \A k \in S : ~(k < m)
  BY <1>1, <1>3
<1> QED  BY <1>3, <1>4

\* The slot search: it ends at an entry that was empty, where it puts the new
\* one, and leaves every other as it was, whether the table had to grow or not.
LEMMA PlacedFacts ==
  ASSUME NEW seq \in Seq(Nat), Len(seq) > 0, NEW x \in Nat
  PROVE  /\ Slot(seq) \in Nat \ {0} /\ Entry(seq, Slot(seq)) = 0
         /\ Placed(seq, x) \in Seq(Nat) /\ Len(Placed(seq, x)) >= Len(seq)
         /\ Slot(seq) \in 1..Len(Placed(seq, x))
         /\ \A i \in Nat : Entry(Placed(seq, x), i) = IF i = Slot(seq) THEN x ELSE Entry(seq, i)
<1> DEFINE n == Len(seq)
           s == Slot(seq)
<1>0. n \in Nat \ {0} /\ DOMAIN seq = 1..n
  OBVIOUS
<1>1. CASE Free(seq) = {}
  <2>1. s = n + 1
    BY <1>1 DEF Slot
  <2> DEFINE zeros == [i \in 1..n |-> 0]
             big == seq \o zeros
  <2>2. zeros \in Seq(Nat) /\ Len(zeros) = n /\ \A i \in 1..n : zeros[i] = 0
    BY <1>0
  <2> HIDE DEF zeros
  <2>3. /\ big \in Seq(Nat) /\ Len(big) = n + n
        /\ \A i \in 1..(n + n) : big[i] = IF i <= n THEN seq[i] ELSE 0
    <3>1. \A i \in 1..(n + n) : big[i] = IF i <= n THEN seq[i] ELSE zeros[i - n]
      BY <2>2, ConcatProperties
    <3>2. \A i \in 1..(n + n) : i <= n \/ i - n \in 1..n
      BY <1>0
    <3>3. \A i \in 1..(n + n) : big[i] = IF i <= n THEN seq[i] ELSE 0
      BY <1>0, <2>2, <3>1, <3>2
    <3>4. big \in Seq(Nat)
      BY <2>2, ConcatProperties
    <3>5. Len(big) = Len(seq) + Len(zeros)
      BY <2>2, ConcatProperties
    <3> QED  BY <2>2, <3>3, <3>4, <3>5
  <2>4. Placed(seq, x) = [big EXCEPT ![s] = x]
    BY <1>1 DEF Placed, Doubled, zeros
  <2> HIDE DEF big, s
  <2>5. s \in 1..(n + n)
    BY <1>0, <2>1
  <2>6. /\ Placed(seq, x) \in Seq(Nat) /\ Len(Placed(seq, x)) = n + n
        /\ \A i \in 1..(n + n) : Placed(seq, x)[i] = IF i = s THEN x ELSE big[i]
    BY <2>3, <2>4, <2>5, ExceptSeq
  <2>7. s \in Nat \ {0} /\ Entry(seq, s) = 0
    BY <1>0, <2>1 DEF Entry
  <2>8. ASSUME NEW i \in Nat
        PROVE  Entry(Placed(seq, x), i) = IF i = s THEN x ELSE Entry(seq, i)
    <3> DEFINE l == Placed(seq, x)
    <3> HIDE DEF l
    <3>1. CASE i \in 1..(n + n)
      <4>1. Entry(l, i) = IF i = s THEN x ELSE big[i]
        BY <2>6, <3>1 DEF Entry, l
      <4>2. Entry(seq, i) = IF i <= n THEN seq[i] ELSE 0
        BY <1>0, <3>1 DEF Entry
      <4> QED  BY <2>3, <3>1, <4>1, <4>2 DEF l
    <3>2. CASE i \notin 1..(n + n)
      <4>1. i # s /\ i \notin 1..n
        BY <1>0, <2>5, <3>2
      <4> QED  BY <2>6, <3>2, <4>1 DEF Entry, l
    <3> QED  BY <3>1, <3>2
  <2> QED  BY <1>0, <2>5, <2>6, <2>7, <2>8 DEF s
<1>2. CASE Free(seq) # {}
  <2>1. PICK m \in Free(seq) : \A k \in Free(seq) : m <= k
    <3>1. Free(seq) \in SUBSET Nat
      BY <1>0 DEF Free
    <3> QED  BY <1>2, <3>1, Lowest
  <2>2. s \in Free(seq)
    BY <1>2, <2>1 DEF Slot
  <2>3. s \in 1..n /\ seq[s] = 0
    BY <2>2 DEF Free
  <2>4. Placed(seq, x) = [seq EXCEPT ![s] = x]
    BY <1>2 DEF Placed
  <2> HIDE DEF s
  <2>5. /\ Placed(seq, x) \in Seq(Nat) /\ Len(Placed(seq, x)) = n
        /\ \A i \in 1..n : Placed(seq, x)[i] = IF i = s THEN x ELSE seq[i]
    BY <2>3, <2>4, ExceptSeq
  <2>6. ASSUME NEW i \in Nat
        PROVE  Entry(Placed(seq, x), i) = IF i = s THEN x ELSE Entry(seq, i)
    BY <1>0, <2>3, <2>5 DEF Entry
  <2>7. s \in Nat \ {0} /\ Entry(seq, s) = 0
    BY <1>0, <2>3 DEF Entry
  <2> QED  BY <1>0, <2>3, <2>5, <2>6, <2>7 DEF s
<1> QED  BY <1>1, <1>2

\* kmalloc finds an object that is not in use, as long as fewer than MaxFiles + 1 are.
LEMMA FreshFacts ==
  ASSUME NEW f, IsFiniteSet(DOMAIN f), DOMAIN f \subseteq Nat \ {0},
         Cardinality(DOMAIN f) <= MaxFiles
  PROVE  FreshFile(f) \in Nat \ {0} /\ FreshFile(f) \notin DOMAIN f
<1> DEFINE S == (1..(MaxFiles + 1)) \ DOMAIN f
<1>1. MaxFiles \in Nat /\ Cardinality(DOMAIN f) \in Nat
  BY TableAssumption, FS_CardinalityType
<1>2. S # {}
  <2> SUFFICES ASSUME S = {} PROVE FALSE
    OBVIOUS
  <2> DEFINE I == 1..(MaxFiles + 1)
  <2>1. I \subseteq DOMAIN f
    OBVIOUS
  <2>2. Cardinality(I) = MaxFiles + 1
    BY <1>1, FS_Interval
  <2> HIDE DEF I
  <2>3. Cardinality(I) <= Cardinality(DOMAIN f)
    BY <2>1, FS_Subset
  <2> QED  BY <1>1, <2>2, <2>3
<1>3. PICK m \in S : \A k \in S : m <= k
  <2>1. S \in SUBSET Nat
    BY <1>1
  <2> HIDE DEF S
  <2> QED  BY <1>2, <2>1, Lowest
<1>4. m \in 1..(MaxFiles + 1) /\ m \notin DOMAIN f /\ \A j \in 1..(m - 1) : j \in DOMAIN f
  BY <1>1, <1>3
<1>5. FreshFile(f) \in 1..(MaxFiles + 1) /\ FreshFile(f) \notin DOMAIN f
  BY <1>4 DEF FreshFile
<1> QED  BY <1>1, <1>5

\* A step keeps every descriptor, the file behind it and its vnode.
Extends(f, t, d, g, u, e) ==
  /\ \A p \in Procs, i \in Nat : Entry(d[p], i) # 0 => Entry(e[p], i) = Entry(d[p], i)
  /\ \A k \in Nat : Entry(t, k) # 0 => Entry(u, k) = Entry(t, k)
  /\ \A x \in DOMAIN f : x \in DOMAIN g /\ g[x].vnode = f[x].vnode

LEMMA ExtendsTransitive ==
  ASSUME NEW f, NEW t, NEW d, NEW g, NEW u, NEW e, NEW h, NEW w, NEW b,
         Extends(f, t, d, g, u, e), Extends(g, u, e, h, w, b)
  PROVE  Extends(f, t, d, h, w, b)
BY DEF Extends

\* A file that of_open made and no descriptor leads to.
Added(f, v) == [i \in DOMAIN f \cup {FreshFile(f)} |->
                  IF i = FreshFile(f) THEN [vnode |-> v, offset |-> 0, refcount |-> 1] ELSE f[i]]

LEMMA AddedFacts ==
  ASSUME NEW f, NEW t, NEW d, Types(f, t, d), NEW v \in Vnodes,
         Cardinality(DOMAIN f) <= MaxFiles
  PROVE  /\ DOMAIN Added(f, v) = DOMAIN f \cup {FreshFile(f)}
         /\ FreshFile(f) \in Nat \ {0} /\ FreshFile(f) \notin DOMAIN f
         /\ Added(f, v) \in [DOMAIN Added(f, v) -> File]
         /\ Added(f, v)[FreshFile(f)] = [vnode |-> v, offset |-> 0, refcount |-> 1]
         /\ \A i \in DOMAIN f : Added(f, v)[i] = f[i]
         /\ IsFiniteSet(DOMAIN Added(f, v)) /\ DOMAIN Added(f, v) \subseteq Nat \ {0}
         /\ Cardinality(DOMAIN Added(f, v)) = Cardinality(DOMAIN f) + 1
<1> DEFINE id == FreshFile(f)
<1>1. id \in Nat \ {0} /\ id \notin DOMAIN f
  BY FreshFacts DEF Types
<1> HIDE DEF id
<1>2. [vnode |-> v, offset |-> 0, refcount |-> 1] \in File
  BY DEF File
<1>3. /\ DOMAIN Added(f, v) = DOMAIN f \cup {id}
      /\ Added(f, v)[id] = [vnode |-> v, offset |-> 0, refcount |-> 1]
      /\ \A i \in DOMAIN f : Added(f, v)[i] = f[i]
  BY <1>1 DEF Added, id
<1>4. Added(f, v) \in [DOMAIN Added(f, v) -> File]
  <2>1. \A i \in DOMAIN f : f[i] \in File
    BY DEF Types
  <2> QED  BY <1>2, <1>3, <2>1 DEF Added, id
<1>5. /\ IsFiniteSet(DOMAIN f \cup {id})
      /\ Cardinality(DOMAIN f \cup {id}) = Cardinality(DOMAIN f) + 1
  BY <1>1, FS_AddElement DEF Types
<1> QED  BY <1>1, <1>3, <1>4, <1>5 DEF Types, id

LEMMA EntryType ==
  ASSUME NEW seq \in Seq(Nat)
  PROVE  (\A i \in Nat : Entry(seq, i) \in Nat) /\ Entry(seq, 0) = 0
<1>1. \A i \in 1..Len(seq) : seq[i] \in Nat
  OBVIOUS
<1> QED  BY <1>1 DEF Entry

\* An open that succeeds links a new file to a new slot and a new descriptor.
LEMMA OpenedSound ==
  ASSUME NEW f, NEW t, NEW d, Sound(f, t, d), NEW p \in Procs, Len(d[p]) > 0,
         NEW v \in Vnodes, Cardinality(DOMAIN f) <= MaxFiles,
         NEW g, NEW u, NEW e, g = Added(f, v), u = Placed(t, FreshFile(f)),
         e = [d EXCEPT ![p] = Placed(d[p], Slot(t))]
  PROVE  /\ Sound(g, u, e) /\ Extends(f, t, d, g, u, e) /\ Len(e[p]) > 0
         /\ \A q \in Procs \ {p} : e[q] = d[q]
<1> DEFINE id == FreshFile(f)
           s == Slot(t)
           k == Slot(d[p])
<1>1. /\ t \in Seq(Nat) /\ Len(t) > 0 /\ d \in [Procs -> Seq(Nat)] /\ d[p] \in Seq(Nat)
      /\ DOMAIN f \subseteq Nat \ {0} /\ Types(f, t, d)
  BY DEF Sound, Types
<1>2. /\ DOMAIN g = DOMAIN f \cup {id} /\ id \in Nat \ {0} /\ id \notin DOMAIN f
      /\ g \in [DOMAIN g -> File] /\ \A i \in DOMAIN f : g[i] = f[i]
      /\ IsFiniteSet(DOMAIN g) /\ DOMAIN g \subseteq Nat \ {0}
  <2> HIDE DEF id, s, k
  <2>1. /\ DOMAIN Added(f, v) = DOMAIN f \cup {FreshFile(f)}
        /\ FreshFile(f) \in Nat \ {0} /\ FreshFile(f) \notin DOMAIN f
        /\ Added(f, v) \in [DOMAIN Added(f, v) -> File]
        /\ \A i \in DOMAIN f : Added(f, v)[i] = f[i]
        /\ IsFiniteSet(DOMAIN Added(f, v)) /\ DOMAIN Added(f, v) \subseteq Nat \ {0}
    BY <1>1, AddedFacts, Zenon
  <2> QED  BY <2>1, Zenon DEF id
<1>3. /\ s \in Nat \ {0} /\ Entry(t, s) = 0 /\ u \in Seq(Nat) /\ Len(u) >= Len(t)
      /\ \A i \in Nat : Entry(u, i) = IF i = s THEN id ELSE Entry(t, i)
  BY <1>1, <1>2, PlacedFacts
<1>4. /\ k \in Nat \ {0} /\ Entry(d[p], k) = 0 /\ e[p] \in Seq(Nat)
      /\ Len(e[p]) >= Len(d[p])
      /\ \A i \in Nat : Entry(e[p], i) = IF i = k THEN s ELSE Entry(d[p], i)
  <2>1. e[p] = Placed(d[p], s)
    BY <1>1
  <2> HIDE DEF s
  <2> QED  BY <1>1, <1>3, <2>1, PlacedFacts
<1>5. e \in [Procs -> Seq(Nat)] /\ \A q \in Procs \ {p} : e[q] = d[q]
  <2>1. Placed(d[p], s) \in Seq(Nat)
    BY <1>1, <1>4
  <2> QED  BY <1>1, <2>1
<1> HIDE DEF id, s, k
<1>6. \A q \in Procs, i \in Nat : Entry(e[q], i) = IF q = p /\ i = k THEN s ELSE Entry(d[q], i)
  BY <1>4, <1>5
<1>7. /\ \A i \in Nat : Entry(t, i) \in Nat
      /\ \A q \in Procs, i \in Nat : Entry(d[q], i) \in Nat
      /\ Entry(t, 0) = 0
  BY <1>1, EntryType
<1>8. Len(u) > 0 /\ Len(e[p]) > 0
  <2>1. Len(t) \in Nat /\ Len(u) \in Nat /\ Len(d[p]) \in Nat /\ Len(e[p]) \in Nat
    BY <1>1, <1>3, <1>4, LenProperties
  <2> QED  BY <1>1, <1>3, <1>4, <2>1
<1>9. Types(g, u, e)
  BY <1>2, <1>3, <1>5, <1>8 DEF Types
<1>10. Slots(g, u)
  <2>1. \A i \in Nat : Entry(t, i) # 0 => Entry(t, i) \in DOMAIN f
    BY DEF Sound, Slots
  <2>2. \A i, j \in Nat : Entry(u, i) # 0 /\ Entry(u, i) = Entry(u, j) => i = j
    BY <1>2, <1>3, <2>1 DEF Sound, Slots
  <2>3. \A x \in DOMAIN g : \E i \in Nat : Entry(u, i) = x
    <3>1. \A x \in DOMAIN f : \E i \in Nat : Entry(t, i) = x /\ i # s
      BY <1>1, <1>3 DEF Sound, Slots
    <3> QED  BY <1>2, <1>3, <3>1
  <2> QED  BY <1>2, <1>3, <2>1, <2>2, <2>3 DEF Slots
<1>11. Links(u, e)
  <2>1. ASSUME NEW q \in Procs, NEW i \in Nat, Entry(e[q], i) # 0
        PROVE  Entry(u, Entry(e[q], i)) # 0
    <3>1. CASE q = p /\ i = k
      BY <1>2, <1>3, <1>6, <3>1
    <3>2. CASE ~(q = p /\ i = k)
      <4>1. Entry(t, Entry(d[q], i)) # 0 /\ Entry(e[q], i) = Entry(d[q], i)
        BY <1>6, <2>1, <3>2 DEF Sound, Links
      <4> QED  BY <1>3, <1>7, <4>1
    <3> QED  BY <3>1, <3>2
  <2>2. \A q \in Procs, i \in Nat : Entry(d[q], i) # s
    <3>1. \A q \in Procs, i \in Nat : Entry(d[q], i) # 0 => Entry(t, Entry(d[q], i)) # 0
      BY DEF Sound, Links
    <3> QED  BY <1>3, <3>1
  <2>3. ASSUME NEW q \in Procs, NEW r \in Procs, NEW i \in Nat, NEW j \in Nat,
               Entry(e[q], i) # 0, Entry(e[q], i) = Entry(e[r], j)
        PROVE  q = r /\ i = j
    <3>1. \/ q = p /\ i = k /\ r = p /\ j = k
          \/ Entry(d[q], i) # 0 /\ Entry(d[q], i) = Entry(d[r], j)
      BY <1>6, <2>2, <2>3
    <3> QED  BY <3>1 DEF Sound, Links
  <2>4. ASSUME NEW n \in Nat, Entry(u, n) # 0
        PROVE  \E q \in Procs, i \in Nat : Entry(e[q], i) = n
    <3>1. CASE n = s
      BY <1>4, <1>6, <3>1
    <3>2. CASE n # s
      <4>1. Entry(t, n) # 0 /\ n # 0
        BY <1>3, <1>7, <2>4, <3>2
      <4>2. PICK q \in Procs, i \in Nat : Entry(d[q], i) = n
        BY <4>1 DEF Sound, Links
      <4>3. Entry(e[q], i) = n
        BY <1>4, <1>6, <4>1, <4>2
      <4> QED  BY <4>3
    <3> QED  BY <3>1, <3>2
  <2> QED  BY <2>1, <2>3, <2>4 DEF Links
<1>12. Extends(f, t, d, g, u, e)
  BY <1>2, <1>3, <1>4, <1>6 DEF Extends
<1> QED  BY <1>5, <1>8, <1>9, <1>10, <1>11, <1>12 DEF Sound

\* Tables that only grew.
LEMMA GrownSound ==
  ASSUME NEW f, NEW t, NEW d, Sound(f, t, d), NEW u \in Seq(Nat), Len(u) > 0,
         NEW e \in [Procs -> Seq(Nat)], \A i \in Nat : Entry(u, i) = Entry(t, i),
         \A q \in Procs, i \in Nat : Entry(e[q], i) = Entry(d[q], i)
  PROVE  Sound(f, u, e) /\ Extends(f, t, d, f, u, e)
<1>1. Types(f, u, e)
  BY DEF Sound, Types
<1>2. Slots(f, u)
  BY DEF Sound, Slots
<1>3. \A q \in Procs, i \in Nat : Entry(d[q], i) \in Nat
  BY EntryType DEF Sound, Types
<1>4. Links(u, e)
  <2>1. \A p \in Procs, i \in Nat : Entry(e[p], i) # 0 => Entry(u, Entry(e[p], i)) # 0
    BY <1>3 DEF Sound, Links
  <2>2. \A p, q \in Procs, i, j \in Nat :
          Entry(e[p], i) # 0 /\ Entry(e[p], i) = Entry(e[q], j) => p = q /\ i = j
    BY DEF Sound, Links
  <2>3. \A n \in Nat : Entry(u, n) # 0 => \E p \in Procs, i \in Nat : Entry(e[p], i) = n
    BY DEF Sound, Links
  <2> QED  BY <2>1, <2>2, <2>3, Zenon DEF Links
<1> QED  BY <1>1, <1>2, <1>4 DEF Sound, Extends

\* A close unlinks a descriptor, its slot and its file.
LEMMA ClosedSound ==
  ASSUME NEW f, NEW t, NEW d, Sound(f, t, d), NEW p \in Procs, NEW fd \in 1..Len(d[p]),
         d[p][fd] # 0, NEW g, NEW u, NEW e,
         g = Released(f, t[d[p][fd]]), u = [t EXCEPT ![d[p][fd]] = 0],
         e = [d EXCEPT ![p] = [d[p] EXCEPT ![fd] = 0]]
  PROVE  /\ Sound(g, u, e) /\ d[p][fd] \in 1..Len(t) /\ t[d[p][fd]] \in DOMAIN f
         /\ Len(e[p]) = Len(d[p]) /\ fd \in Nat
         /\ \A q \in Procs \ {p} : e[q] = d[q]
         /\ \A q \in Procs, i \in Nat : Entry(e[q], i) = IF q = p /\ i = fd THEN 0 ELSE Entry(d[q], i)
         /\ \A i \in Nat : Entry(u, i) = IF i = d[p][fd] THEN 0 ELSE Entry(t, i)
<1> DEFINE k == d[p][fd]
           id == t[k]
<1>1. /\ t \in Seq(Nat) /\ Len(t) > 0 /\ d \in [Procs -> Seq(Nat)] /\ d[p] \in Seq(Nat)
      /\ DOMAIN f \subseteq Nat \ {0} /\ Types(f, t, d)
  BY DEF Sound, Types
<1>2. fd \in Nat /\ k \in Nat \ {0} /\ Entry(d[p], fd) = k
  <2>1. Len(d[p]) \in Nat /\ k \in Nat
    BY <1>1
  <2> QED  BY <2>1 DEF Entry
<1>3. Entry(t, k) # 0
  BY <1>2 DEF Sound, Links
<1>4. k \in 1..Len(t) /\ Entry(t, k) = id /\ id # 0
  BY <1>3 DEF Entry
<1>5. id \in DOMAIN f
  BY <1>2, <1>4 DEF Sound, Slots
<1>6. DOMAIN g = DOMAIN f \ {id} /\ \A i \in DOMAIN g : g[i] = f[i]
  BY DEF Released
<1>7. /\ u \in Seq(Nat) /\ Len(u) = Len(t)
      /\ \A i \in 1..Len(t) : u[i] = IF i = k THEN 0 ELSE t[i]
  BY <1>1, <1>4, ExceptSeq
<1> DEFINE l == [d[p] EXCEPT ![fd] = 0]
<1>8. /\ l \in Seq(Nat) /\ Len(l) = Len(d[p])
      /\ \A i \in 1..Len(d[p]) : l[i] = IF i = fd THEN 0 ELSE d[p][i]
  BY <1>1, ExceptSeq
<1> HIDE DEF k, id, l
<1>9. e \in [Procs -> Seq(Nat)] /\ e[p] = l /\ \A q \in Procs \ {p} : e[q] = d[q]
  BY <1>1, <1>8 DEF l
<1>10. \A i \in Nat : Entry(u, i) = IF i = k THEN 0 ELSE Entry(t, i)
  BY <1>4, <1>7 DEF Entry
<1>11. \A q \in Procs, i \in Nat : Entry(e[q], i) = IF q = p /\ i = fd THEN 0 ELSE Entry(d[q], i)
  <2>1. \A i \in Nat : Entry(l, i) = IF i = fd THEN 0 ELSE Entry(d[p], i)
    BY <1>8 DEF Entry
  <2> QED  BY <1>9, <2>1
<1>12. Types(g, u, e)
  <2>1. IsFiniteSet(DOMAIN g)
    BY <1>6, FS_Subset DEF Sound, Types
  <2>2. g \in [DOMAIN g -> File]
    BY <1>6 DEF Sound, Types, Released
  <2> QED  BY <1>1, <1>6, <1>7, <1>9, <2>1, <2>2 DEF Types
<1>13. Slots(g, u)
  <2>1. \A i \in Nat : Entry(t, i) = id => i = k
    BY <1>2, <1>4 DEF Sound, Slots
  <2>2. \A i \in Nat : Entry(u, i) # 0 => Entry(u, i) \in DOMAIN g
    BY <1>6, <1>10, <2>1 DEF Sound, Slots
  <2>3. \A i, j \in Nat : Entry(u, i) # 0 /\ Entry(u, i) = Entry(u, j) => i = j
    BY <1>10 DEF Sound, Slots
  <2>4. \A x \in DOMAIN g : \E i \in Nat : Entry(u, i) = x
    <3>1. \A x \in DOMAIN f : \E i \in Nat : Entry(t, i) = x
      BY DEF Sound, Slots
    <3> QED  BY <1>4, <1>6, <1>10, <3>1
  <2> QED  BY <2>2, <2>3, <2>4 DEF Slots
<1>14. Links(u, e)
  <2>1. ASSUME NEW q \in Procs, NEW i \in Nat, Entry(e[q], i) # 0
        PROVE  Entry(u, Entry(e[q], i)) # 0
    <3>1. ~(q = p /\ i = fd) /\ Entry(e[q], i) = Entry(d[q], i) /\ Entry(d[q], i) \in Nat
      BY <1>1, <1>11, <2>1, EntryType
    <3>2. Entry(d[q], i) # k
      BY <1>2, <2>1, <3>1 DEF Sound, Links
    <3>3. Entry(t, Entry(d[q], i)) # 0
      BY <2>1, <3>1 DEF Sound, Links
    <3> QED  BY <1>10, <3>1, <3>2, <3>3
  <2>2. ASSUME NEW q \in Procs, NEW r \in Procs, NEW i \in Nat, NEW j \in Nat,
               Entry(e[q], i) # 0, Entry(e[q], i) = Entry(e[r], j)
        PROVE  q = r /\ i = j
    <3>1. Entry(d[q], i) # 0 /\ Entry(d[q], i) = Entry(d[r], j)
      BY <1>11, <2>2
    <3> QED  BY <3>1 DEF Sound, Links
  <2>3. ASSUME NEW n \in Nat, Entry(u, n) # 0
        PROVE  \E q \in Procs, i \in Nat : Entry(e[q], i) = n
    <3>1. n # k /\ Entry(t, n) # 0
      BY <1>10, <2>3
    <3>2. PICK q \in Procs, i \in Nat : Entry(d[q], i) = n
      BY <3>1 DEF Sound, Links
    <3>3. Entry(e[q], i) = n
      BY <1>2, <1>11, <3>1, <3>2
    <3> QED  BY <3>3
  <2>4. \A q \in Procs, i \in Nat : Entry(e[q], i) # 0 => Entry(u, Entry(e[q], i)) # 0
    BY <2>1
  <2>5. \A q, r \in Procs, i, j \in Nat :
          Entry(e[q], i) # 0 /\ Entry(e[q], i) = Entry(e[r], j) => q = r /\ i = j
    BY <2>2
  <2> QED  BY <2>3, <2>4, <2>5, Zenon DEF Links
<1> QED  BY <1>2, <1>4, <1>5, <1>8, <1>9, <1>10, <1>11, <1>12, <1>13, <1>14 DEF Sound, k, id, l

Tables(f, t, d) == [files |-> f, table |-> t, fds |-> d]

Ranged(f) == \A i \in DOMAIN f : f[i].offset <= Extent[f[i].vnode]

LEMMA of_open_Tables ==
  ASSUME NEW f, NEW t, NEW d, NEW v
  PROVE  of_open(Tables(f, t, d), v) = Tables(Added(f, v), Placed(t, FreshFile(f)), d)
<1> DEFINE st == Tables(f, t, d)
<1>1. st.files = f /\ st.table = t /\ st.fds = d
  BY DEF Tables
<1>2. of_open(st, v) = [st EXCEPT !.files = Added(f, v), !.table = Placed(t, FreshFile(f))]
  BY <1>1 DEF of_open, Added
<1> QED  BY <1>2 DEF Tables

\* process_fd_open changes nothing, or takes back what it did and only leaves
\* tables that grew, or opens the file.
LEMMA process_fd_open_Sound ==
  ASSUME NEW f, NEW t, NEW d, Sound(f, t, d), Ranged(f), NEW p \in Procs, Len(d[p]) > 0,
         NEW v \in Vnodes, Cardinality(DOMAIN f) <= MaxFiles, NEW failure,
         NEW r, r = process_fd_open(Tables(f, t, d), p, v, failure)
  PROVE  /\ r = Tables(r.files, r.table, r.fds)
         /\ Sound(r.files, r.table, r.fds) /\ Ranged(r.files)
         /\ Extends(f, t, d, r.files, r.table, r.fds)
         /\ Len(r.fds[p]) > 0 /\ \A q \in Procs \ {p} : r.fds[q] = d[q]
         /\ Cardinality(DOMAIN r.files) <= Cardinality(DOMAIN f) + 1
<1> DEFINE st == Tables(f, t, d)
           id == FreshFile(f)
           s == Slot(t)
           g == Added(f, v)
           u == Placed(t, id)
           opened == Tables(g, u, d)
<1>1. /\ t \in Seq(Nat) /\ Len(t) > 0 /\ d \in [Procs -> Seq(Nat)] /\ d[p] \in Seq(Nat)
      /\ Types(f, t, d)
  BY DEF Sound, Types
<1>2. Cardinality(DOMAIN f) \in Nat
  BY FS_CardinalityType DEF Sound, Types
<1>3. /\ DOMAIN g = DOMAIN f \cup {id} /\ id \in Nat \ {0} /\ id \notin DOMAIN f
      /\ g[id] = [vnode |-> v, offset |-> 0, refcount |-> 1]
      /\ \A i \in DOMAIN f : g[i] = f[i]
      /\ Cardinality(DOMAIN g) = Cardinality(DOMAIN f) + 1
  BY <1>1, AddedFacts, Zenon
<1>4. /\ s \in Nat \ {0} /\ Entry(t, s) = 0 /\ u \in Seq(Nat) /\ Len(u) >= Len(t)
      /\ s \in 1..Len(u)
      /\ \A i \in Nat : Entry(u, i) = IF i = s THEN id ELSE Entry(t, i)
  BY <1>1, <1>3, PlacedFacts
<1>5. st.files = f /\ st.table = t /\ st.fds = d
  BY DEF Tables
<1>6. of_open(st, v) = opened
  BY of_open_Tables
<1>7. \/ r = st
      \/ r = of_close(opened, s)
      \/ r = [opened EXCEPT !.fds[p] = Placed(@, s)]
  BY <1>5, <1>6 DEF process_fd_open
<1>8. CASE r = st
  <2>1. Extends(f, t, d, f, t, d)
    BY DEF Extends
  <2> QED  BY <1>2, <1>5, <1>8, <2>1
<1>9. CASE r = of_close(opened, s)
  <2>1. opened.files = g /\ opened.table = u /\ opened.fds = d
    BY DEF Tables
  <2>2. u[s] = id
    BY <1>4 DEF Entry
  <2>3. g[id].refcount = 1
    BY <1>3
  <2> DEFINE w == [u EXCEPT ![s] = 0]
  <2>4. r = [opened EXCEPT !.files = Released(g, id), !.table = w]
    <3> HIDE DEF g, u, s, id, opened
    <3>1. ~(1 > 1)
      OBVIOUS
    <3> QED  BY <1>9, <2>1, <2>2, <2>3, <3>1 DEF of_close
  <2>5. Released(g, id) = f
    <3>1. Released(g, id) = [i \in DOMAIN f |-> f[i]]
      BY <1>3 DEF Released
    <3>2. f = [i \in DOMAIN f |-> f[i]]
      BY DEF Sound, Types
    <3> QED  BY <3>1, <3>2
  <2>6. r.files = f /\ r.table = w /\ r.fds = d /\ r = Tables(f, w, d)
    <3> HIDE DEF w
    <3> QED  BY <2>4, <2>5 DEF Tables
  <2> HIDE DEF u, s, id, g
  <2>7. /\ w \in Seq(Nat) /\ Len(w) = Len(u)
        /\ \A i \in 1..Len(u) : w[i] = IF i = s THEN 0 ELSE u[i]
    BY <1>4, ExceptSeq
  <2>8. Len(t) \in Nat /\ Len(u) \in Nat /\ Len(w) > 0
    BY <1>1, <1>4, <2>7, LenProperties
  <2>9. \A i \in Nat : Entry(w, i) = Entry(t, i)
    <3> SUFFICES ASSUME NEW i \in Nat PROVE Entry(w, i) = Entry(t, i)
      OBVIOUS
    <3>1. Entry(w, i) = IF i = s THEN 0 ELSE Entry(u, i)
      BY <2>7, <2>8 DEF Entry
    <3> QED  BY <1>4, <3>1
  <2> HIDE DEF w
  <2>10. Sound(f, w, d) /\ Extends(f, t, d, f, w, d)
    BY <1>1, <2>7, <2>8, <2>9, GrownSound
  <2> QED  BY <1>2, <2>6, <2>10
<1>10. CASE r = [opened EXCEPT !.fds[p] = Placed(@, s)]
  <2> DEFINE e == [d EXCEPT ![p] = Placed(d[p], Slot(t))]
  <2>1. r = Tables(g, u, e)
    <3> HIDE DEF g, u
    <3> QED  BY <1>1, <1>10 DEF Tables
  <2>2. r.files = g /\ r.table = u /\ r.fds = e
    <3> HIDE DEF g, u, e
    <3> QED  BY <2>1 DEF Tables
  <2>3. /\ Sound(g, u, e) /\ Extends(f, t, d, g, u, e) /\ Len(e[p]) > 0
        /\ \A q \in Procs \ {p} : e[q] = d[q]
    BY OpenedSound
  <2> HIDE DEF g, u, e, id
  <2>4. Ranged(g)
    <3>1. \A i \in DOMAIN f : g[i].offset <= Extent[g[i].vnode]
      BY <1>3 DEF Ranged
    <3>2. g[id].offset = 0 /\ g[id].vnode = v /\ Extent[v] \in Nat
      BY <1>3, SizeAssumption
    <3> QED  BY <1>3, <3>1, <3>2 DEF Ranged
  <2> QED  BY <1>2, <1>3, <2>1, <2>2, <2>3, <2>4
<1> QED  BY <1>7, <1>8, <1>9, <1>10

\* What a step may do to the tables: keep every descriptor, or close one.
Kept == Extends(files, table, fds, files', table', fds')

Closing(p, fd) == /\ fds[p][fd] # 0 /\ closing' = {<<p, fd>>}
                  /\ files' = Released(files, table[fds[p][fd]])
                  /\ table' = [table EXCEPT ![fds[p][fd]] = 0]
                  /\ fds' = [fds EXCEPT ![p] = [fds[p] EXCEPT ![fd] = 0]]

LEMMA InitIInv == Init => IInv
<1> SUFFICES ASSUME Init PROVE IInv
  OBVIOUS
<1>1. /\ size = Extent /\ files = <<>> /\ table = [i \in 1..BASE_FILE_LIST_SIZE |-> 0]
      /\ fds = [p \in Procs |-> <<>>] /\ started = {}
  BY DEF Init
<1>2. DOMAIN files = {}
  BY <1>1
<1>3. /\ table \in Seq(Nat) /\ Len(table) > 0 /\ \A i \in Nat : Entry(table, i) = 0
  BY <1>1, TableAssumption DEF Entry
<1>4. /\ fds \in [Procs -> Seq(Nat)] /\ \A p \in Procs : fds[p] = <<>>
      /\ \A p \in Procs, i \in Nat : Entry(fds[p], i) = 0
  <2>1. <<>> \in Seq(Nat) /\ Len(<<>>) = 0
    BY EmptySeq
  <2>2. \A i \in Nat : Entry(<<>>, i) = 0
    BY <2>1 DEF Entry
  <2> QED  BY <1>1, <2>1, <2>2
<1>5. Types(files, table, fds)
  <2>1. files \in [{} -> File]
    BY <1>1, <1>2
  <2>2. IsFiniteSet({})
    BY FS_EmptySet
  <2> QED  BY <1>2, <1>3, <1>4, <2>1, <2>2 DEF Types
<1>6. Slots(files, table) /\ Links(table, fds)
  BY <1>2, <1>3, <1>4 DEF Slots, Links
<1>7. SizesSound
  BY <1>1, SizeAssumption DEF SizesSound
<1> QED  BY <1>1, <1>2, <1>4, <1>5, <1>6, <1>7 DEF IInv, Sound, OffsetInRange, StartedSound

LEMMA OpenIInv ==
  ASSUME IInv, NEW p \in Procs, NEW v \in Openable, NEW trunc \in BOOLEAN, NEW failure,
         do_sys_open(p, v, trunc, failure)
  PROVE  IInv' /\ Kept
<1> DEFINE r == process_fd_open(Tables(files, table, fds), p, v, failure)
<1>1. /\ p \in started /\ Cardinality(DOMAIN files) < MaxFiles /\ UNCHANGED started
      /\ files' = r.files /\ table' = r.table /\ fds' = r.fds
      /\ size' = IF trunc /\ failure # "file" THEN [size EXCEPT ![v] = 0] ELSE size
  BY DEF do_sys_open, Become, State, Tables
<1>2. /\ Sound(files, table, fds) /\ Ranged(files) /\ Len(fds[p]) > 0 /\ v \in Vnodes
      /\ Cardinality(DOMAIN files) <= MaxFiles
  <2>1. Cardinality(DOMAIN files) \in Nat /\ MaxFiles \in Nat
    BY FS_CardinalityType, TableAssumption DEF IInv, Sound, Types
  <2> QED  BY <1>1, <2>1, SizeAssumption DEF IInv, Ranged, OffsetInRange, StartedSound
<1> HIDE DEF r
<1>3. /\ Sound(r.files, r.table, r.fds) /\ Ranged(r.files)
      /\ Extends(files, table, fds, r.files, r.table, r.fds)
      /\ Len(r.fds[p]) > 0 /\ \A q \in Procs \ {p} : r.fds[q] = fds[q]
  BY <1>2, process_fd_open_Sound DEF r
<1>4. Sound(files', table', fds') /\ Kept
  BY <1>1, <1>3 DEF Kept
<1>5. OffsetInRange'
  BY <1>1, <1>3 DEF Ranged, OffsetInRange
<1>6. SizesSound'
  <2>1. Extent \in [Vnodes -> Nat] /\ size \in [Vnodes -> Nat] /\ \A x \in Vnodes : size[x] <= Extent[x]
    BY SizeAssumption DEF IInv, SizesSound
  <2>2. size' \in [Vnodes -> Nat] /\ \A x \in Vnodes : size'[x] <= Extent[x]
    BY <1>1, <1>2, <2>1
  <2> QED  BY <2>2 DEF SizesSound
<1>7. StartedSound'
  BY <1>1, <1>3 DEF IInv, StartedSound
<1>8. Sound(files, table, fds)'
  BY <1>4
<1> QED  BY <1>4, <1>5, <1>6, <1>7, <1>8 DEF IInv

LEMMA CreateIInv ==
  ASSUME IInv, NEW p \in Procs, ProcessFds(p)
  PROVE  IInv' /\ Kept
<1> DEFINE zeros == [i \in 1..BASE_FD_LIST_SIZE |-> 0]
           e == [fds EXCEPT ![p] = zeros]
           st == Tables(files, table, e)
           a == process_fd_open(st, p, Stdin, "none")
           b == process_fd_open(a, p, Stdout, "none")
           c == process_fd_open(b, p, Stderr, "none")
<1>1. /\ p \notin started /\ Cardinality(DOMAIN files) + 3 <= MaxFiles
      /\ UNCHANGED size /\ started' = started \cup {p}
  BY DEF ProcessFds
<1>2. [State EXCEPT !.fds[p] = zeros] = st
  <2> HIDE DEF zeros
  <2> QED  BY DEF State, Tables
<1>3. files' = c.files /\ table' = c.table /\ fds' = c.fds
  BY <1>2 DEF ProcessFds, Become
<1>4. /\ Sound(files, table, fds) /\ Ranged(files) /\ fds[p] = <<>>
      /\ fds \in [Procs -> Seq(Nat)] /\ table \in Seq(Nat) /\ Len(table) > 0
  BY <1>1 DEF IInv, Sound, Types, Ranged, OffsetInRange, StartedSound
<1>5. zeros \in Seq(Nat) /\ Len(zeros) > 0 /\ \A i \in Nat : Entry(zeros, i) = 0
  BY TableAssumption DEF Entry
<1> HIDE DEF zeros
<1>6. /\ e \in [Procs -> Seq(Nat)] /\ e[p] = zeros /\ \A q \in Procs \ {p} : e[q] = fds[q]
  BY <1>4, <1>5
<1> HIDE DEF e
<1>7. \A q \in Procs, i \in Nat : Entry(e[q], i) = Entry(fds[q], i)
  <2>1. Len(<<>>) = 0
    BY EmptySeq
  <2>2. \A i \in Nat : Entry(<<>>, i) = 0
    BY <2>1 DEF Entry
  <2> QED  BY <1>4, <1>5, <1>6, <2>2
<1>8. Sound(files, table, e) /\ Extends(files, table, fds, files, table, e)
  BY <1>4, <1>6, <1>7, GrownSound
<1>9. Cardinality(DOMAIN files) \in Nat /\ MaxFiles \in Nat /\ {Stdin, Stdout, Stderr} \subseteq Vnodes
  BY <1>4, FS_CardinalityType, TableAssumption DEF Sound, Types, Vnodes, Std
<1>10. Cardinality(DOMAIN files) <= MaxFiles /\ Len(e[p]) > 0
  BY <1>1, <1>5, <1>6, <1>9
<1> HIDE DEF a, b, c, st
<1>11. /\ a = Tables(a.files, a.table, a.fds) /\ Sound(a.files, a.table, a.fds)
       /\ Ranged(a.files) /\ Extends(files, table, e, a.files, a.table, a.fds)
       /\ Len(a.fds[p]) > 0 /\ \A q \in Procs \ {p} : a.fds[q] = e[q]
       /\ Cardinality(DOMAIN a.files) <= Cardinality(DOMAIN files) + 1
  BY <1>4, <1>8, <1>9, <1>10, process_fd_open_Sound DEF a, st
<1>12. Cardinality(DOMAIN a.files) \in Nat
  BY <1>11, FS_CardinalityType DEF Sound, Types
<1>13. Cardinality(DOMAIN a.files) <= MaxFiles
  BY <1>1, <1>9, <1>11, <1>12
<1>14. /\ b = Tables(b.files, b.table, b.fds) /\ Sound(b.files, b.table, b.fds)
       /\ Ranged(b.files) /\ Extends(a.files, a.table, a.fds, b.files, b.table, b.fds)
       /\ Len(b.fds[p]) > 0 /\ \A q \in Procs \ {p} : b.fds[q] = a.fds[q]
       /\ Cardinality(DOMAIN b.files) <= Cardinality(DOMAIN a.files) + 1
  <2>1. b = process_fd_open(Tables(a.files, a.table, a.fds), p, Stdout, "none")
    BY <1>11 DEF b
  <2> QED  BY <1>9, <1>11, <1>13, <2>1, process_fd_open_Sound
<1>15. Cardinality(DOMAIN b.files) \in Nat
  BY <1>14, FS_CardinalityType DEF Sound, Types
<1>16. Cardinality(DOMAIN b.files) <= MaxFiles
  BY <1>1, <1>9, <1>11, <1>12, <1>14, <1>15
<1>17. /\ Sound(c.files, c.table, c.fds)
       /\ Ranged(c.files) /\ Extends(b.files, b.table, b.fds, c.files, c.table, c.fds)
       /\ Len(c.fds[p]) > 0 /\ \A q \in Procs \ {p} : c.fds[q] = b.fds[q]
  <2>1. c = process_fd_open(Tables(b.files, b.table, b.fds), p, Stderr, "none")
    BY <1>14 DEF c
  <2> QED  BY <1>9, <1>14, <1>16, <2>1, process_fd_open_Sound
<1>18. Kept
  <2>1. Extends(files, table, fds, a.files, a.table, a.fds)
    BY <1>8, <1>11, ExtendsTransitive
  <2>2. Extends(files, table, fds, b.files, b.table, b.fds)
    BY <1>14, <2>1, ExtendsTransitive
  <2>3. Extends(files, table, fds, c.files, c.table, c.fds)
    BY <1>17, <2>2, ExtendsTransitive
  <2> QED  BY <1>3, <2>3 DEF Kept
<1>19. Sound(files, table, fds)'
  BY <1>3, <1>17
<1>20. OffsetInRange'
  BY <1>3, <1>17 DEF Ranged, OffsetInRange
<1>21. SizesSound'
  BY <1>1 DEF IInv, SizesSound
<1>22. StartedSound'
  <2>1. \A q \in Procs \ {p} : fds'[q] = fds[q]
    BY <1>3, <1>6, <1>11, <1>14, <1>17
  <2>2. Len(fds'[p]) > 0
    BY <1>3, <1>17
  <2> QED  BY <1>1, <2>1, <2>2 DEF IInv, StartedSound
<1> QED  BY <1>18, <1>19, <1>20, <1>21, <1>22 DEF IInv

LEMMA CloseIInv ==
  ASSUME IInv, NEW p \in Procs, NEW fd \in 1..Len(fds[p]), do_sys_close(p, fd)
  PROVE  IInv' /\ Closing(p, fd)
<1> DEFINE k == fds[p][fd]
           id == table[k]
<1>1. /\ p \in started /\ k # 0 /\ UNCHANGED <<size, started>> /\ closing' = {<<p, fd>>}
      /\ Become([of_close(State, k) EXCEPT !.fds[p][fd] = 0])
  BY DEF do_sys_close
<1>2. Sound(files, table, fds)
  BY DEF IInv
<1> DEFINE g == Released(files, id)
           u == [table EXCEPT ![k] = 0]
           e == [fds EXCEPT ![p] = [fds[p] EXCEPT ![fd] = 0]]
<1>3. /\ Sound(g, u, e) /\ k \in 1..Len(table) /\ id \in DOMAIN files
      /\ Len(e[p]) = Len(fds[p]) /\ \A q \in Procs \ {p} : e[q] = fds[q]
  BY <1>1, <1>2, ClosedSound
<1>4. files[id].refcount = 1
  <2>1. files[id] \in File
    BY <1>2, <1>3 DEF Sound, Types
  <2> QED  BY <2>1 DEF File
<1>5. State.files = files /\ State.table = table /\ State.fds = fds
  BY DEF State
<1>6. of_close(State, k) = [State EXCEPT !.files = g, !.table = u]
  <2> HIDE DEF k
  <2>1. ~(files[table[k]].refcount > 1)
    BY <1>4
  <2> QED  BY <1>5, <2>1 DEF of_close
<1>7. of_close(State, k) = Tables(g, u, fds)
  <2> HIDE DEF g, u
  <2> QED  BY <1>6 DEF State, Tables
<1>8. files' = g /\ table' = u /\ fds' = e
  <2> HIDE DEF g, u, k
  <2>1. [Tables(g, u, fds) EXCEPT !.fds[p][fd] = 0] = Tables(g, u, e)
    BY DEF Tables
  <2>2. Become(Tables(g, u, e))
    BY <1>1, <1>7, <2>1
  <2> HIDE DEF e
  <2> QED  BY <2>2 DEF Become, Tables
<1>9. Sound(files, table, fds)'
  BY <1>3, <1>8
<1>10. OffsetInRange'
  BY <1>8 DEF IInv, OffsetInRange, Released
<1>11. SizesSound'
  BY <1>1 DEF IInv, SizesSound
<1>12. StartedSound'
  <2> HIDE DEF g, u, e
  <2> QED  BY <1>1, <1>3, <1>8 DEF IInv, StartedSound
<1> QED  BY <1>1, <1>8, <1>9, <1>10, <1>11, <1>12 DEF IInv, Closing

\* A descriptor leads to a file object.
LEMMA OpenObject ==
  ASSUME IInv, NEW p \in Procs, NEW fd, NEW id \in process_unpack_fd(p, fd)
  PROVE  id \in DOMAIN files /\ files[id] \in File
<1>1. PICK j \in 1..Len(fds[p]) : fds[p][j] # 0 /\ id = table[fds[p][j]]
  BY DEF process_unpack_fd
<1>2. fds[p] \in Seq(Nat) /\ table \in Seq(Nat) /\ files \in [DOMAIN files -> File]
  BY DEF IInv, Sound, Types
<1>3. j \in Nat /\ fds[p][j] \in Nat /\ Entry(fds[p], j) = fds[p][j]
  <2>1. Len(fds[p]) \in Nat
    BY <1>2
  <2> QED  BY <1>2, <2>1 DEF Entry
<1>4. Entry(table, fds[p][j]) # 0
  BY <1>1, <1>3 DEF IInv, Sound, Links
<1>5. Entry(table, fds[p][j]) = id
  BY <1>1, <1>4 DEF Entry
<1>6. id \in DOMAIN files
  BY <1>3, <1>4, <1>5 DEF IInv, Sound, Slots
<1> QED  BY <1>2, <1>6

\* Moving an offset within the data of the file keeps everything.
LEMMA SetOffsetIInv ==
  ASSUME IInv, NEW id \in DOMAIN files, NEW o \in Nat, o <= Extent[files[id].vnode],
         SetOffset(id, o)
  PROVE  IInv' /\ Kept
<1>1. files' = [files EXCEPT ![id].offset = o] /\ UNCHANGED <<size, table, fds, started>>
  BY DEF SetOffset
<1>2. files \in [DOMAIN files -> File] /\ files[id] \in File
  BY DEF IInv, Sound, Types
<1> DEFINE file == [files[id] EXCEPT !.offset = o]
<1>3. file \in File /\ file.vnode = files[id].vnode /\ file.offset = o
  BY <1>2 DEF File
<1>4. files' = [files EXCEPT ![id] = file]
  BY <1>1
<1> HIDE DEF file
<1>5. /\ DOMAIN files' = DOMAIN files /\ files' \in [DOMAIN files' -> File]
      /\ files'[id] = file /\ \A i \in DOMAIN files \ {id} : files'[i] = files[i]
  BY <1>2, <1>3, <1>4
<1>6. Types(files', table', fds')
  BY <1>1, <1>5 DEF IInv, Sound, Types
<1>7. Slots(files', table')
  BY <1>1, <1>5 DEF IInv, Sound, Slots
<1>8. Links(table', fds')
  BY <1>1 DEF IInv, Sound
<1>9. Sound(files, table, fds)'
  BY <1>6, <1>7, <1>8 DEF Sound
<1>10. OffsetInRange'
  BY <1>3, <1>5 DEF IInv, OffsetInRange
<1>11. SizesSound' /\ StartedSound'
  BY <1>1 DEF IInv, SizesSound, StartedSound
<1>12. Kept
  BY <1>1, <1>3, <1>5 DEF Kept, Extends
<1> QED  BY <1>9, <1>10, <1>11, <1>12 DEF IInv

LEMMA CallNullIInv ==
  ASSUME IInv, UNCHANGED <<size, files, table, fds, started>>
  PROVE  IInv' /\ Kept
<1>1. Kept
  BY DEF Kept, Extends
<1>2. Sound(files, table, fds)'
  BY DEF IInv
<1>3. OffsetInRange' /\ SizesSound' /\ StartedSound'
  BY DEF IInv, OffsetInRange, SizesSound, StartedSound
<1> QED  BY <1>1, <1>2, <1>3 DEF IInv

\* Reads, writes and seeks stay within the data.
LEMMA TransferIInv ==
  ASSUME IInv, NEW p \in Procs, NEW fd, NEW n \in Sizes,
         do_sys_read(p, fd, n) \/ do_sys_write(p, fd, n)
  PROVE  IInv' /\ Kept
<1>0. \E id \in process_unpack_fd(p, fd) : \E end :
        LET f == files[id] IN
        \/ /\ end = Extent[f.vnode] \/ end = size[f.vnode]
           /\ \/ SetOffset(id, f.offset + Transferred(f.offset, n, end))
              \/ SetOffset(id, f.offset + 0)
        \/ CallNull
  BY DEF do_sys_read, do_sys_write
<1>1. PICK id \in process_unpack_fd(p, fd) : \E end :
        LET f == files[id] IN
        \/ /\ end = Extent[f.vnode] \/ end = size[f.vnode]
           /\ \/ SetOffset(id, f.offset + Transferred(f.offset, n, end))
              \/ SetOffset(id, f.offset + 0)
        \/ CallNull
  BY <1>0
<1>2. PICK end :
        LET f == files[id] IN
        \/ /\ end = Extent[f.vnode] \/ end = size[f.vnode]
           /\ \/ SetOffset(id, f.offset + Transferred(f.offset, n, end))
              \/ SetOffset(id, f.offset + 0)
        \/ CallNull
  BY <1>1
<1>3. id \in DOMAIN files /\ files[id] \in File
  BY OpenObject
<1> DEFINE f == files[id]
<1>4. /\ f.vnode \in Vnodes /\ f.offset \in Nat /\ f.offset <= Extent[f.vnode] /\ n \in Nat \ {0}
      /\ Extent[f.vnode] \in Nat /\ size[f.vnode] \in Nat /\ size[f.vnode] <= Extent[f.vnode]
  BY <1>3, SizeAssumption DEF File, IInv, OffsetInRange, SizesSound
<1>5. CASE CallNull
  BY <1>5, CallNullIInv DEF CallNull
<1>6. CASE /\ end = Extent[f.vnode] \/ end = size[f.vnode]
           /\ SetOffset(id, f.offset + Transferred(f.offset, n, end))
  <2>1. /\ f.offset + Transferred(f.offset, n, end) \in Nat
        /\ f.offset + Transferred(f.offset, n, end) <= Extent[f.vnode]
    BY <1>4, <1>6 DEF Transferred
  <2> QED  BY <1>3, <1>6, <2>1, SetOffsetIInv
<1>7. CASE SetOffset(id, f.offset + 0)
  <2>1. f.offset + 0 \in Nat /\ f.offset + 0 <= Extent[f.vnode]
    BY <1>4
  <2> QED  BY <1>3, <1>7, <2>1, SetOffsetIInv
<1> QED  BY <1>2, <1>5, <1>6, <1>7

LEMMA SeekIInv ==
  ASSUME IInv, NEW p \in Procs, NEW fd, NEW o \in Seeks, NEW whence,
         do_sys_lseek(p, fd, o, whence)
  PROVE  IInv' /\ Kept
<1>1. PICK id \in process_unpack_fd(p, fd) :
        LET f == files[id] IN
        \/ /\ whence \in {"SET", "CUR", "END"}
           /\ \E from \in {0, f.offset, size[f.vnode]} :
                SetOffset(id, Clamped(from + o, size[f.vnode]))
        \/ CallNull
  <2>1. PICK id \in process_unpack_fd(p, fd) :
          LET f == files[id]
              from == CASE whence = "SET" -> 0 [] whence = "CUR" -> f.offset
                        [] whence = "END" -> size[f.vnode] [] OTHER -> 0
          IN IF whence \in {"SET", "CUR", "END"}
             THEN SetOffset(id, Clamped(from + o, size[f.vnode]))
             ELSE CallNull
    BY DEF do_sys_lseek
  <2> DEFINE f == files[id]
             from == CASE whence = "SET" -> 0 [] whence = "CUR" -> f.offset
                       [] whence = "END" -> size[f.vnode] [] OTHER -> 0
  <2>2. from \in {0, f.offset, size[f.vnode]}
    OBVIOUS
  <2>3. IF whence \in {"SET", "CUR", "END"}
        THEN SetOffset(id, Clamped(from + o, size[f.vnode])) ELSE CallNull
    BY <2>1
  <2> HIDE DEF from
  <2> QED  BY <2>2, <2>3
<1>2. id \in DOMAIN files /\ files[id] \in File
  BY OpenObject
<1> DEFINE f == files[id]
<1>3. /\ f.vnode \in Vnodes /\ f.offset \in Nat /\ o \in Int
      /\ Extent[f.vnode] \in Nat /\ size[f.vnode] \in Nat /\ size[f.vnode] <= Extent[f.vnode]
  BY <1>2, SizeAssumption DEF File, IInv, SizesSound
<1>4. CASE CallNull
  BY <1>4, CallNullIInv DEF CallNull
<1>5. ASSUME NEW from \in {0, f.offset, size[f.vnode]},
             SetOffset(id, Clamped(from + o, size[f.vnode]))
      PROVE  IInv' /\ Kept
  <2>1. /\ Clamped(from + o, size[f.vnode]) \in Nat
        /\ Clamped(from + o, size[f.vnode]) <= Extent[f.vnode]
    BY <1>3 DEF Clamped
  <2> QED  BY <1>2, <1>5, <2>1, SetOffsetIInv
<1> QED  BY <1>1, <1>4, <1>5

LEMMA NextIInv ==
  ASSUME IInv, Next
  PROVE  /\ IInv'
         /\ \/ Kept /\ closing' = {}
            \/ \E p \in Procs : \E fd \in 1..Len(fds[p]) : Closing(p, fd)
<1>1. PICK p \in Procs :
        \/ ProcessFds(p)
        \/ \E v \in Openable, trunc \in BOOLEAN, failure \in Failures :
             do_sys_open(p, v, trunc, failure)
        \/ \E fd \in 1..Len(fds[p]) :
             \/ fd \in Closable /\ do_sys_close(p, fd)
             \/ \E n \in Sizes : do_sys_read(p, fd, n) \/ do_sys_write(p, fd, n)
             \/ \E o \in Seeks, w \in {"SET", "CUR", "END", "other"} : do_sys_lseek(p, fd, o, w)
  BY DEF Next
<1>2. CASE ProcessFds(p)
  <2>1. closing' = {}
    BY <1>2 DEF ProcessFds
  <2> QED  BY <1>2, <2>1, CreateIInv
<1>3. ASSUME NEW v \in Openable, NEW trunc \in BOOLEAN, NEW failure \in Failures,
             do_sys_open(p, v, trunc, failure)
      PROVE  IInv' /\ Kept /\ closing' = {}
  <2>1. closing' = {}
    BY <1>3 DEF do_sys_open
  <2> QED  BY <1>3, <2>1, OpenIInv
<1>4. ASSUME NEW fd \in 1..Len(fds[p]), NEW n \in Sizes,
             do_sys_read(p, fd, n) \/ do_sys_write(p, fd, n)
      PROVE  IInv' /\ Kept /\ closing' = {}
  <2>1. closing' = {}
    BY <1>4 DEF do_sys_read, do_sys_write, SetOffset, CallNull
  <2> QED  BY <1>4, <2>1, TransferIInv
<1>5. ASSUME NEW fd \in 1..Len(fds[p]), NEW o \in Seeks, NEW w, do_sys_lseek(p, fd, o, w)
      PROVE  IInv' /\ Kept /\ closing' = {}
  <2>1. closing' = {}
    BY <1>5 DEF do_sys_lseek, SetOffset, CallNull
  <2> QED  BY <1>5, <2>1, SeekIInv
<1> QED  BY <1>1, <1>2, <1>3, <1>4, <1>5, CloseIInv

LEMMA StepIInv ==
  ASSUME IInv, [Next]_vars
  PROVE  IInv'
<1>1. CASE UNCHANGED vars
  BY <1>1, CallNullIInv DEF vars
<1> QED  BY <1>1, NextIInv

LEMMA Invariance == Spec => []IInv
<1>1. IInv /\ [Next]_vars => IInv'
  BY StepIInv
<1> QED  BY <1>1, InitIInv, PTL DEF Spec

\* No descriptor, slot or file object dangles or is shared.
THEOREM DescriptorsLive == Spec => []NoDangling
<1>1. IInv => NoDangling
  <2> SUFFICES ASSUME IInv PROVE NoDangling
    OBVIOUS
  <2>1. /\ table \in Seq(Nat) /\ fds \in [Procs -> Seq(Nat)]
    BY DEF IInv, Sound, Types
  <2>2. ASSUME NEW p \in Procs, NEW i \in 1..Len(fds[p]), fds[p][i] # 0
        PROVE  table[fds[p][i]] # 0
    <3>1. fds[p] \in Seq(Nat) /\ i \in Nat
      BY <2>1
    <3>2. Entry(fds[p], i) = fds[p][i]
      BY DEF Entry
    <3>3. Entry(table, fds[p][i]) # 0
      BY <2>2, <3>1, <3>2 DEF IInv, Sound, Links
    <3> QED  BY <3>3 DEF Entry
  <2>3. ASSUME NEW i \in 1..Len(table), NEW j \in 1..Len(table), table[i] # 0
        PROVE  table[i] \in DOMAIN files /\ (i # j => table[i] # table[j])
    <3>1. i \in Nat /\ j \in Nat /\ Entry(table, i) = table[i] /\ Entry(table, j) = table[j]
      BY <2>1 DEF Entry
    <3> QED  BY <2>3, <3>1 DEF IInv, Sound, Slots
  <2> QED  BY <2>2, <2>3 DEF NoDangling
<1> QED  BY <1>1, Invariance, PTL

\* The refcount of a file object is the number of its descriptors.
THEOREM CountsExact == Spec => []RefcountsExact
<1>1. IInv => RefcountsExact
  <2> SUFFICES ASSUME IInv PROVE RefcountsExact
    OBVIOUS
  <2>1. /\ table \in Seq(Nat) /\ fds \in [Procs -> Seq(Nat)] /\ files \in [DOMAIN files -> File]
        /\ DOMAIN files \subseteq Nat \ {0}
    BY DEF IInv, Sound, Types
  <2>2. ASSUME NEW k \in 1..Len(table), table[k] # 0
        PROVE  files[table[k]].refcount = Cardinality(Refs(k))
    <3>1. k \in Nat \ {0} /\ Entry(table, k) = table[k]
      BY <2>1 DEF Entry
    <3>2. PICK p \in Procs, i \in Nat : Entry(fds[p], i) = k
      BY <2>2, <3>1 DEF IInv, Sound, Links
    <3>3. i \in 1..Len(fds[p]) /\ fds[p][i] = k
      BY <3>1, <3>2 DEF Entry
    <3>4. \A q \in Procs : \A j \in 1..Len(fds[q]) : fds[q][j] = k => q = p /\ j = i
      <4> SUFFICES ASSUME NEW q \in Procs, NEW j \in 1..Len(fds[q]), fds[q][j] = k
                   PROVE  q = p /\ j = i
        OBVIOUS
      <4>1. fds[q] \in Seq(Nat) /\ j \in Nat
        BY <2>1
      <4>2. Entry(fds[q], j) = k
        BY DEF Entry
      <4> QED  BY <3>1, <3>2, <4>1, <4>2 DEF IInv, Sound, Links
    <3>5. Refs(k) = {<<p, i>>}
      <4>1. <<p, i>> \in Refs(k)
        BY <3>3 DEF Refs, Descriptors
      <4>2. ASSUME NEW x \in Refs(k) PROVE x = <<p, i>>
        <5>1. PICK q \in Procs : x \in {q} \X (1..Len(fds[q])) /\ fds[x[1]][x[2]] = k
          BY DEF Refs, Descriptors
        <5>2. x = <<x[1], x[2]>> /\ x[1] = q /\ x[2] \in 1..Len(fds[q])
          BY <5>1
        <5> QED  BY <3>4, <5>1, <5>2
      <4> QED  BY <4>1, <4>2
    <3>6. Cardinality(Refs(k)) = 1
      BY <3>5, FS_Singleton, Zenon
    <3>7. files[table[k]] \in File
      BY <2>1, <2>2, <3>1 DEF IInv, Sound, Slots
    <3> QED  BY <3>6, <3>7 DEF File
  <2>3. DOMAIN files = {table[i] : i \in {j \in 1..Len(table) : table[j] # 0}}
    <3>1. ASSUME NEW x \in DOMAIN files
          PROVE  \E i \in 1..Len(table) : table[i] # 0 /\ table[i] = x
      <4>1. PICK i \in Nat : Entry(table, i) = x
        BY DEF IInv, Sound, Slots
      <4>2. x # 0
        BY <2>1
      <4> QED  BY <4>1, <4>2 DEF Entry
    <3>2. ASSUME NEW i \in 1..Len(table), table[i] # 0 PROVE table[i] \in DOMAIN files
      <4>1. i \in Nat /\ Entry(table, i) = table[i]
        BY <2>1 DEF Entry
      <4> QED  BY <3>2, <4>1 DEF IInv, Sound, Slots
    <3> QED  BY <3>1, <3>2
  <2> QED  BY <2>2, <2>3 DEF RefcountsExact
<1> QED  BY <1>1, Invariance, PTL

\* Offsets stay within the data of their files.
THEOREM OffsetsInRange == Spec => []OffsetInRange
<1>1. IInv => OffsetInRange
  BY DEF IInv
<1> QED  BY <1>1, Invariance, PTL

\* The open descriptors, and the file behind one.
LEMMA OpenEntries ==
  ASSUME IInv
  PROVE  /\ \A x : x \in Open <=> /\ x = <<x[1], x[2]>> /\ x[1] \in Procs /\ x[2] \in Nat
                                  /\ Entry(fds[x[1]], x[2]) # 0
         /\ \A x \in Open : /\ FileOf(x) = Entry(table, Entry(fds[x[1]], x[2]))
                            /\ Entry(fds[x[1]], x[2]) \in Nat /\ FileOf(x) # 0
                            /\ FileOf(x) \in DOMAIN files
<1>1. /\ table \in Seq(Nat) /\ fds \in [Procs -> Seq(Nat)]
  BY DEF IInv, Sound, Types
<1>2. \A q \in Procs : fds[q] \in Seq(Nat) /\ Len(fds[q]) \in Nat
  BY <1>1
<1>3. ASSUME NEW x \in Open
      PROVE  /\ x = <<x[1], x[2]>> /\ x[1] \in Procs /\ x[2] \in Nat /\ x[2] \in 1..Len(fds[x[1]])
             /\ Entry(fds[x[1]], x[2]) # 0 /\ Entry(fds[x[1]], x[2]) = fds[x[1]][x[2]]
  <2>1. PICK q \in Procs : x \in {q} \X (1..Len(fds[q])) /\ fds[x[1]][x[2]] # 0
    BY DEF Open, Descriptors
  <2>2. x = <<x[1], x[2]>> /\ x[1] = q /\ x[2] \in 1..Len(fds[q])
    BY <2>1
  <2> QED  BY <1>2, <2>1, <2>2 DEF Entry
<1>4. ASSUME NEW x, x = <<x[1], x[2]>>, x[1] \in Procs, x[2] \in Nat, Entry(fds[x[1]], x[2]) # 0
      PROVE  x \in Open
  <2>1. x[2] \in 1..Len(fds[x[1]]) /\ fds[x[1]][x[2]] # 0
    BY <1>4 DEF Entry
  <2>2. x \in {x[1]} \X (1..Len(fds[x[1]]))
    BY <1>4, <2>1
  <2> QED  BY <1>4, <2>1, <2>2 DEF Open, Descriptors
<1>5. ASSUME NEW x \in Open
      PROVE  /\ FileOf(x) = Entry(table, Entry(fds[x[1]], x[2]))
             /\ Entry(fds[x[1]], x[2]) \in Nat /\ FileOf(x) # 0 /\ FileOf(x) \in DOMAIN files
  <2> DEFINE k == Entry(fds[x[1]], x[2])
  <2>1. k \in Nat /\ k = fds[x[1]][x[2]] /\ Entry(table, k) # 0
    BY <1>2, <1>3, EntryType DEF IInv, Sound, Links
  <2> HIDE DEF k
  <2>2. FileOf(x) = Entry(table, k)
    BY <2>1 DEF FileOf, Entry
  <2> QED  BY <2>1, <2>2 DEF IInv, Sound, Slots, k
<1> QED  BY <1>3, <1>4, <1>5

\* What a close leaves in the two tables.
LEMMA ClosedEntries ==
  ASSUME IInv, NEW p \in Procs, NEW fd \in 1..Len(fds[p]), Closing(p, fd)
  PROVE  /\ fds[p][fd] # 0 /\ fds[p][fd] \in 1..Len(table) /\ fd \in Nat
         /\ \A q \in Procs, i \in Nat :
              Entry(fds'[q], i) = IF q = p /\ i = fd THEN 0 ELSE Entry(fds[q], i)
         /\ \A i \in Nat : Entry(table', i) = IF i = fds[p][fd] THEN 0 ELSE Entry(table, i)
<1> DEFINE g == Released(files, table[fds[p][fd]])
           u == [table EXCEPT ![fds[p][fd]] = 0]
           e == [fds EXCEPT ![p] = [fds[p] EXCEPT ![fd] = 0]]
<1>1. fds[p][fd] # 0
  BY DEF Closing
<1>2. Sound(files, table, fds)
  BY DEF IInv
<1>3. /\ Sound(g, u, e) /\ fds[p][fd] \in 1..Len(table) /\ table[fds[p][fd]] \in DOMAIN files
      /\ Len(e[p]) = Len(fds[p]) /\ fd \in Nat
  BY <1>1, <1>2, ClosedSound
<1>4. \A q \in Procs, i \in Nat : Entry(e[q], i) = IF q = p /\ i = fd THEN 0 ELSE Entry(fds[q], i)
  <2>1. fds \in [Procs -> Seq(Nat)] /\ fds[p] \in Seq(Nat) /\ Len(fds[p]) \in Nat
    BY <1>2 DEF Sound, Types
  <2>2. /\ e[p] = [fds[p] EXCEPT ![fd] = 0] /\ Len(e[p]) = Len(fds[p])
        /\ \A q \in Procs \ {p} : e[q] = fds[q]
    BY <2>1
  <2>3. \A i \in Nat : Entry(e[p], i) = IF i = fd THEN 0 ELSE Entry(fds[p], i)
    BY <2>1, <2>2 DEF Entry
  <2> HIDE DEF e
  <2> QED  BY <2>2, <2>3
<1>5. \A i \in Nat : Entry(u, i) = IF i = fds[p][fd] THEN 0 ELSE Entry(table, i)
  <2>1. table \in Seq(Nat) /\ Len(u) = Len(table)
    BY <1>2 DEF Sound, Types
  <2> QED  BY <1>3, <2>1 DEF Entry
<1>6. table' = u /\ fds' = e
  BY DEF Closing
<1> HIDE DEF g, u, e
<1> QED  BY <1>1, <1>3, <1>4, <1>5, <1>6

\* A step keeps the file behind every descriptor that it does not close.
LEMMA StepKeepsFiles ==
  ASSUME IInv, IInv',
         \/ Kept /\ closing' = {}
         \/ \E p \in Procs : \E fd \in 1..Len(fds[p]) : Closing(p, fd)
  PROVE  KeepsFiles
<1>1. /\ \A x : x \in Open <=> /\ x = <<x[1], x[2]>> /\ x[1] \in Procs /\ x[2] \in Nat
                               /\ Entry(fds[x[1]], x[2]) # 0
      /\ \A x \in Open : /\ FileOf(x) = Entry(table, Entry(fds[x[1]], x[2]))
                         /\ Entry(fds[x[1]], x[2]) \in Nat /\ FileOf(x) # 0
                         /\ FileOf(x) \in DOMAIN files
  BY OpenEntries
<1>2. /\ \A x : x \in Open' <=> /\ x = <<x[1], x[2]>> /\ x[1] \in Procs /\ x[2] \in Nat
                                /\ Entry(fds'[x[1]], x[2]) # 0
      /\ \A x \in Open' : FileOf(x)' = Entry(table', Entry(fds'[x[1]], x[2]))
  <2>1. (/\ \A x : x \in Open <=> /\ x = <<x[1], x[2]>> /\ x[1] \in Procs /\ x[2] \in Nat
                                  /\ Entry(fds[x[1]], x[2]) # 0
         /\ \A x \in Open : /\ FileOf(x) = Entry(table, Entry(fds[x[1]], x[2]))
                            /\ Entry(fds[x[1]], x[2]) \in Nat /\ FileOf(x) # 0
                            /\ FileOf(x) \in DOMAIN files)'
    BY OpenEntries, PTL
  <2> QED  BY <2>1
<1>3. CASE Kept /\ closing' = {}
  <2>1. Open \subseteq Open'
    BY <1>1, <1>2, <1>3 DEF Kept, Extends
  <2>2. Open \ Open' = closing'
    BY <1>3, <2>1
  <2>3. ASSUME NEW x \in Open \cap Open'
        PROVE  /\ FileOf(x)' = FileOf(x) /\ FileOf(x) \in DOMAIN files'
               /\ files'[FileOf(x)].vnode = files[FileOf(x)].vnode
    <3>1. Entry(fds'[x[1]], x[2]) = Entry(fds[x[1]], x[2])
      BY <1>1, <1>3 DEF Kept, Extends
    <3>2. FileOf(x)' = FileOf(x)
      BY <1>1, <1>2, <1>3, <3>1 DEF Kept, Extends
    <3> QED  BY <1>1, <1>3, <3>2 DEF Kept, Extends
  <2> QED  BY <2>2, <2>3 DEF KeepsFiles
<1>4. ASSUME NEW p \in Procs, NEW fd \in 1..Len(fds[p]), Closing(p, fd)
      PROVE  KeepsFiles
  <2> DEFINE k == fds[p][fd]
             id == table[k]
             y == <<p, fd>>
  <2>1. /\ k # 0 /\ k \in 1..Len(table) /\ fd \in Nat
        /\ \A q \in Procs, i \in Nat :
             Entry(fds'[q], i) = IF q = p /\ i = fd THEN 0 ELSE Entry(fds[q], i)
        /\ \A i \in Nat : Entry(table', i) = IF i = k THEN 0 ELSE Entry(table, i)
    BY <1>4, ClosedEntries
  <2>2. files' = Released(files, id)
    BY <1>4 DEF Closing
  <2>3. Entry(fds[p], fd) = k /\ Entry(table, k) = id /\ k \in Nat
    <3>1. table \in Seq(Nat)
      BY DEF IInv, Sound, Types
    <3> QED  BY <2>1, <3>1 DEF Entry
  <2> HIDE DEF k, id
  <2>4. y = <<y[1], y[2]>> /\ y[1] = p /\ y[2] = fd
    OBVIOUS
  <2>5. \A x : x = <<x[1], x[2]>> /\ x[1] = p /\ x[2] = fd => x = y
    OBVIOUS
  <2> HIDE DEF y
  <2>6. y \in Open
    BY <1>1, <2>1, <2>3, <2>4
  <2>7. Open' = Open \ {y}
    <3>1. \A x \in Open' : x \in Open /\ x # y
      BY <1>1, <1>2, <2>1, <2>4
    <3>2. \A x \in Open : x # y => x \in Open'
      BY <1>1, <1>2, <2>1, <2>5
    <3> QED  BY <3>1, <3>2
  <2>8. Open \ Open' = {y}
    BY <2>6, <2>7
  <2>9. closing' = {y}
    BY <1>4 DEF Closing, y
  <2>10. ASSUME NEW x \in Open \cap Open'
         PROVE  /\ FileOf(x)' = FileOf(x) /\ FileOf(x) \in DOMAIN files'
                /\ files'[FileOf(x)].vnode = files[FileOf(x)].vnode
    <3> DEFINE n == Entry(fds[x[1]], x[2])
    <3>1. ~(x[1] = p /\ x[2] = fd) /\ x[1] \in Procs /\ x[2] \in Nat /\ n \in Nat /\ n # 0
      BY <1>1, <2>5, <2>7
    <3>2. Entry(fds'[x[1]], x[2]) = n
      BY <2>1, <3>1
    <3>3. n # k
      BY <2>1, <2>3, <3>1 DEF IInv, Sound, Links
    <3>4. FileOf(x) = Entry(table, n) /\ FileOf(x) # 0 /\ FileOf(x) \in DOMAIN files
      BY <1>1
    <3> HIDE DEF n
    <3>5. FileOf(x)' = FileOf(x)
      BY <1>2, <2>1, <3>1, <3>2, <3>3, <3>4
    <3>6. FileOf(x) # id
      BY <2>3, <3>1, <3>3, <3>4 DEF IInv, Sound, Slots
    <3> QED  BY <2>2, <3>4, <3>5, <3>6 DEF Released
  <2> QED  BY <2>8, <2>9, <2>10 DEF KeepsFiles
<1> QED  BY <1>3, <1>4

\* A call takes away exactly the descriptors it was asked to close, and no open,
\* failed open, close or growth of a table takes the file of another one away.
THEOREM DescriptorsStable == Spec => FdStable
<1>1. IInv /\ IInv' /\ [Next]_vars => [KeepsFiles]_vars
  BY NextIInv, StepKeepsFiles
<1> QED  BY <1>1, Invariance, PTL DEF Spec, FdStable

-----------------------------------------------------------------------------
\* Namespace: what stands in the directories.

\* What can stand between two slashes.
Words == STRING \cup {"", ".", "dev"} \cup Devices
Operations == {"none", "tar", "fb", "std"}
Internals == {"children", "dev_children", "nothing", "wild", "data", "framebuffer"}
Node == {Vnode(a, b, c, d) : a \in Seq(Words), b \in Nat, c \in Operations, d \in Internals}

\* The node of the i-th header.
TarNode(i) == Vnode(Unpacked(booted[i].name), booted[i].size, "tar", "data")

\* n is m, or m truncated.
Sized(n, m) == \E z \in {m.size, 0} : n = Vnode(m.name, z, m.ops, m.internal)

\* Where mount_fs puts the device directory.
Covered == {i \in 1..Len(booted) : Unpacked(booted[i].name) = Dev}
MountPoint == IF Covered = {} THEN Len(booted) + 1 ELSE Min(Covered)

\* The archive is read in order.
Reading ==
  /\ children \in Seq(Node) /\ dev_children = <<>> /\ found = Nothing
  /\ archive \in Seq(Header)
  /\ Len(children) + Len(archive) = Len(booted)
  /\ pc = "mount" => archive = <<>>
  /\ \A i \in 1..Len(archive) : archive[i] = booted[Len(children) + i]
  /\ \A i \in 1..Len(children) : children[i] = TarNode(i)

\* After the mount, the root has the archive with the device directory in the
\* place of the first entry of that name, or at the end.
RootHas ==
  /\ children \in Seq(Node)
  /\ Len(children) = IF Covered = {} THEN Len(booted) + 1 ELSE Len(booted)
  /\ \A i \in 1..Len(children) :
       IF i = MountPoint THEN children[i] = DevRoot ELSE Sized(children[i], TarNode(i))

DevHas ==
  /\ dev_children \in Seq(Node) /\ Len(dev_children) <= Len(Order)
  /\ \A i \in 1..Len(dev_children) : Sized(dev_children[i], DeviceNode(Order[i]))
  /\ pc = "run" => Len(dev_children) = Len(Order)

NamesInv ==
  /\ booted \in Archives
  /\ \/ pc \in {"tarfs", "mount"} /\ Reading
     \/ pc = "devices" /\ RootHas /\ DevHas /\ found = Nothing
     \/ pc = "run" /\ RootHas /\ DevHas
  /\ LookupExact /\ StatExact

LEMMA LowestIs ==
  ASSUME NEW S \in SUBSET Nat, S # {}
  PROVE  Min(S) \in S /\ \A k \in S : Min(S) <= k
<1>1. PICK m \in S : \A k \in S : m <= k
  BY Lowest
<1> QED  BY <1>1 DEF Min

LEMMA LowestUnique ==
  ASSUME NEW S \in SUBSET Nat, NEW m \in S, \A k \in S : m <= k
  PROVE  Min(S) = m
<1>1. Min(S) \in S /\ Min(S) <= m /\ m <= Min(S)
  BY LowestIs
<1>2. Min(S) \in Nat /\ m \in Nat
  BY <1>1
<1> HIDE DEF Min
<1> QED  BY <1>1, <1>2

LEMMA Fields ==
  ASSUME NEW a, NEW b, NEW c, NEW d
  PROVE  /\ Vnode(a, b, c, d).name = a /\ Vnode(a, b, c, d).size = b
         /\ Vnode(a, b, c, d).ops = c /\ Vnode(a, b, c, d).internal = d
         /\ [Vnode(a, b, c, d) EXCEPT !.size = 0] = Vnode(a, 0, c, d)
BY DEF Vnode

LEMMA Order4 ==
  /\ Len(Order) = 4 /\ Devices = {"fb0", "stdin", "stdout", "stderr"}
  /\ \A i \in 1..4 : Order[i] \in Devices
  /\ \A d \in Devices : \E i \in 1..4 : Order[i] = d
  /\ \A i, j \in 1..4 : Order[i] = Order[j] => i = j
<1>1. Order = <<"fb0", "stdin", "stdout", "stderr">>
  BY DEF Order
<1>2. Len(Order) = 4 /\ DOMAIN Order = 1..4
  BY <1>1
<1>3. Order[1] = "fb0" /\ Order[2] = "stdin" /\ Order[3] = "stdout" /\ Order[4] = "stderr"
  BY <1>1
<1>4. \A i \in 1..4 : i = 1 \/ i = 2 \/ i = 3 \/ i = 4
  OBVIOUS
<1>5. 1 \in 1..4 /\ 2 \in 1..4 /\ 3 \in 1..4 /\ 4 \in 1..4
  OBVIOUS
<1>6. Devices = {Order[i] : i \in 1..4}
  BY <1>2 DEF Devices, Range
<1> HIDE <1>1
<1>7. Devices = {"fb0", "stdin", "stdout", "stderr"}
  BY <1>3, <1>4, <1>5, <1>6
<1> QED  BY <1>2, <1>3, <1>4, <1>5, <1>6, <1>7

LEMMA OneWord ==
  ASSUME NEW w \in Words
  PROVE  <<w>> \in Seq(Words) /\ Len(<<w>>) = 1 /\ <<w>>[1] = w
OBVIOUS

LEMMA DevIs ==
  /\ "dev" \in Words /\ Dev \in Seq(Words) /\ Len(Dev) = 1 /\ Dev[1] = "dev"
  /\ "." \in Words /\ Devices \subseteq Words /\ STRING \subseteq Words
<1>1. "dev" \in Words /\ "." \in Words /\ Devices \subseteq Words /\ STRING \subseteq Words
  BY Zenon DEF Words
<1> QED  BY <1>1, OneWord DEF Dev

LEMMA TextFacts ==
  ASSUME NEW s \in Text
  PROVE  s \in Seq(Words) /\ s # <<>> /\ Len(s) \in Nat /\ Len(s) > 0
<1>1. s \in Seq(STRING) /\ s # <<>>
  BY DEF Text
<1>2. s \in Seq(Words)
  BY <1>1, DevIs, SeqMonotonic
<1> QED  BY <1>1, <1>2

LEMMA UnpackedType ==
  ASSUME NEW s \in Seq(Words), s # <<>>
  PROVE  Unpacked(s) \in Seq(Words)
BY HeadTailProperties DEF Unpacked

LEMMA HeaderFacts ==
  ASSUME NEW h \in Header
  PROVE  /\ h.name \in Seq(Words) /\ h.name # <<>> /\ h.size \in Nat
         /\ Unpacked(h.name) \in Seq(Words)
         /\ Vnode(Unpacked(h.name), h.size, "tar", "data") \in Node
<1>1. h.name \in Text /\ h.size \in Nat
  BY Zenon DEF Header
<1>2. h.name \in Seq(Words) /\ h.name # <<>>
  BY <1>1, TextFacts
<1>3. Unpacked(h.name) \in Seq(Words)
  BY <1>2, UnpackedType
<1>4. "tar" \in Operations /\ "data" \in Internals
  BY DEF Operations, Internals
<1> QED  BY <1>1, <1>2, <1>3, <1>4 DEF Node

LEMMA ArchiveFacts ==
  ASSUME booted \in Archives
  PROVE  /\ booted \in Seq(Header) /\ Len(booted) \in Nat /\ Len(booted) + 2 <= ChildSlots
         /\ \A i \in 1..Len(booted) :
              /\ booted[i] \in Header
              /\ booted[i].name \in Seq(Words) /\ booted[i].name # <<>> /\ booted[i].size \in Nat
              /\ Unpacked(booted[i].name) \in Seq(Words) /\ TarNode(i) \in Node
<1>1. booted \in Seq(Header) /\ Len(booted) \in Nat /\ Len(booted) + 2 <= ChildSlots
  BY ArchiveAssumption
<1>2. \A i \in 1..Len(booted) : booted[i] \in Header
  BY <1>1
<1> QED  BY <1>1, <1>2, HeaderFacts DEF TarNode

LEMMA IsNode ==
  ASSUME NEW a \in Seq(Words), NEW b \in Nat, NEW c \in Operations, NEW d \in Internals
  PROVE  Vnode(a, b, c, d) \in Node
BY DEF Node

LEMMA NodeTypes ==
  /\ DevRoot \in Node /\ \A d \in Devices : DeviceNode(d) \in Node
  /\ \A m \in Node : \A n : Sized(n, m) => n \in Node
<1>1. 0 \in Nat /\ FbSize \in Nat
  BY SlotAssumption
<1>2. /\ "none" \in Operations /\ "fb" \in Operations /\ "std" \in Operations
      /\ "dev_children" \in Internals /\ "framebuffer" \in Internals /\ "nothing" \in Internals
  BY DEF Operations, Internals
<1>3. DevRoot \in Node
  BY <1>1, <1>2, DevIs, IsNode DEF DevRoot
<1>4. ASSUME NEW d \in Devices
      PROVE  DeviceNode(d) \in Node
  <2>1. <<d>> \in Seq(Words) /\ SizeOf(d) \in Nat /\ OpsOf(d) \in Operations /\ InternalOf(d) \in Internals
    BY <1>1, <1>2, DevIs, OneWord DEF SizeOf, OpsOf, InternalOf
  <2> QED  BY <2>1, IsNode DEF DeviceNode
<1>5. ASSUME NEW m \in Node, NEW n, Sized(n, m)
      PROVE  n \in Node
  <2>1. PICK a \in Seq(Words), b \in Nat, c \in Operations, d \in Internals : m = Vnode(a, b, c, d)
    BY DEF Node
  <2>2. m.name = a /\ m.size = b /\ m.ops = c /\ m.internal = d
    BY <2>1, Fields
  <2>3. PICK z \in {m.size, 0} : n = Vnode(a, z, c, d)
    BY <1>5, <2>2 DEF Sized
  <2>4. z \in Nat
    BY <1>1, <2>2
  <2> QED  BY <2>3, <2>4 DEF Node
<1> QED  BY <1>3, <1>4, <1>5

\* Dropping a leading "./" leaves q from q and from "./" and q.
LEMMA UnpackedIs ==
  ASSUME NEW name \in Seq(Words), name # <<>>, NEW q \in Seq(Words), q # <<>>, q[1] # "."
  PROVE  Unpacked(name) = q <=> (name = q \/ name = <<".">> \o q)
<1> DEFINE o == <<".">>
           r == o \o q
<1>1. Len(name) \in Nat /\ Len(name) > 0 /\ Len(q) \in Nat /\ Len(q) > 0
  BY EmptySeq
<1>2. o \in Seq(Words) /\ Len(o) = 1 /\ o[1] = "."
  BY DevIs, OneWord
<1> HIDE DEF o
<1>3. /\ r \in Seq(Words) /\ Len(r) = 1 + Len(q)
      /\ \A i \in 1..(1 + Len(q)) : r[i] = IF i <= 1 THEN o[i] ELSE q[i - 1]
  <2>1. /\ r \in Seq(Words) /\ Len(r) = Len(o) + Len(q)
        /\ \A i \in 1..(Len(o) + Len(q)) : r[i] = IF i <= Len(o) THEN o[i] ELSE q[i - Len(o)]
    BY <1>2, ConcatProperties
  <2> HIDE DEF r
  <2> QED  BY <1>2, <2>1
<1> HIDE DEF r
<1>4. r[1] = "." /\ \A i \in 1..Len(q) : r[i + 1] = q[i]
  <2>1. 1 \in 1..(1 + Len(q)) /\ \A i \in 1..Len(q) : i + 1 \in 1..(1 + Len(q)) /\ (i + 1) - 1 = i /\ ~(i + 1 <= 1)
    BY <1>1
  <2> QED  BY <1>2, <1>3, <2>1
<1>5. /\ Tail(name) \in Seq(Words) /\ Len(Tail(name)) = Len(name) - 1
      /\ \A i \in 1..Len(Tail(name)) : Tail(name)[i] = name[i + 1]
  BY HeadTailProperties
<1>6. ASSUME name = r
      PROVE  name[1] = "." /\ Len(name) > 1 /\ Tail(name) = q
  <2>1. Len(name) > 1 /\ Len(Tail(name)) = Len(q)
    BY <1>1, <1>3, <1>5, <1>6
  <2>2. \A i \in 1..Len(Tail(name)) : Tail(name)[i] = q[i]
    BY <1>4, <1>5, <1>6, <2>1
  <2>3. Tail(name) = q
    BY <1>5, <2>1, <2>2, SeqEqual
  <2> QED  BY <1>4, <1>6, <2>1, <2>3
<1>7. ASSUME name[1] = ".", Len(name) > 1, Tail(name) = q
      PROVE  name = r
  <2>1. Len(q) = Len(name) - 1 /\ \A i \in 1..Len(q) : q[i] = name[i + 1]
    BY <1>5, <1>7
  <2>2. Len(name) = Len(r)
    BY <1>1, <1>3, <2>1
  <2>3. ASSUME NEW i \in 1..Len(name)
        PROVE  name[i] = r[i]
    <3>1. CASE i = 1
      BY <1>4, <1>7, <3>1
    <3>2. CASE i # 1
      <4>1. i - 1 \in 1..Len(q) /\ (i - 1) + 1 = i
        BY <1>1, <2>1, <3>2
      <4> QED  BY <1>4, <2>1, <4>1
    <3> QED  BY <3>1, <3>2
  <2> QED  BY <1>3, <2>2, <2>3, SeqEqual
<1>8. CASE name[1] = "." /\ Len(name) > 1
  <2>1. Unpacked(name) = Tail(name) /\ name # q
    BY <1>8 DEF Unpacked
  <2>2. Unpacked(name) = q <=> name = r
    BY <1>6, <1>7, <1>8, <2>1
  <2> QED  BY <2>1, <2>2 DEF r, o
<1>9. CASE ~(name[1] = "." /\ Len(name) > 1)
  <2>1. Unpacked(name) = name /\ name # r
    BY <1>6, <1>9 DEF Unpacked
  <2> QED  BY <2>1 DEF r, o
<1> QED  BY <1>8, <1>9

LEMMA InArchiveIs ==
  ASSUME booted \in Archives, NEW q \in Seq(Words), q # <<>>, q[1] # "."
  PROVE  InArchive(q) = {i \in 1..Len(booted) : Unpacked(booted[i].name) = q}
<1>1. ASSUME NEW i \in 1..Len(booted)
      PROVE  booted[i].name \in {q, <<".">> \o q} <=> Unpacked(booted[i].name) = q
  <2>1. booted[i].name \in Seq(Words) /\ booted[i].name # <<>>
    BY ArchiveFacts
  <2>2. Unpacked(booted[i].name) = q <=> (booted[i].name = q \/ booted[i].name = <<".">> \o q)
    BY <2>1, UnpackedIs
  <2> QED  BY <2>2, Zenon
<1> QED  BY <1>1, Zenon DEF InArchive

LEMMA ChildIs ==
  ASSUME NEW dir \in Seq(Node), NEW name
  PROVE  /\ (\A i \in 1..Len(dir) : dir[i].name # name) => Child(dir, name) = NULL
         /\ \A i \in 1..Len(dir) :
              dir[i].name = name /\ (\A k \in 1..Len(dir) : dir[k].name = name => i <= k)
                => Child(dir, name) = dir[i]
         /\ Child(dir, name) = NULL \/ \E i \in 1..Len(dir) : Child(dir, name) = dir[i]
<1> DEFINE same == {i \in 1..Len(dir) : dir[i].name = name}
<1>1. Child(dir, name) = IF same = {} THEN NULL ELSE dir[Min(same)]
  BY DEF Child
<1>2. same \in SUBSET Nat /\ same \subseteq 1..Len(dir)
  OBVIOUS
<1>3. ASSUME NEW i \in 1..Len(dir), dir[i].name = name,
             \A k \in 1..Len(dir) : dir[k].name = name => i <= k
      PROVE  Child(dir, name) = dir[i]
  <2>1. i \in same /\ \A k \in same : i <= k
    BY <1>3
  <2> HIDE DEF same
  <2>2. Min(same) = i
    BY <1>2, <2>1, LowestUnique
  <2> QED  BY <1>1, <2>1, <2>2
<1>4. (\A i \in 1..Len(dir) : dir[i].name # name) => same = {}
  OBVIOUS
<1>5. same # {} => Min(same) \in 1..Len(dir)
  <2> HIDE DEF same
  <2> QED  BY <1>2, LowestIs
<1> HIDE DEF same
<1> QED  BY <1>1, <1>3, <1>4, <1>5

\* The fields of the nodes of the root and of the device directory.
LEMMA SizedIs ==
  ASSUME NEW n, NEW a, NEW b, NEW c, NEW d, Sized(n, Vnode(a, b, c, d))
  PROVE  /\ n.name = a /\ n.ops = c /\ n.internal = d
         /\ n \in {Vnode(a, b, c, d), [Vnode(a, b, c, d) EXCEPT !.size = 0]}
<1>1. PICK z \in {b, 0} : n = Vnode(a, z, c, d)
  BY Fields DEF Sized
<1> QED  BY <1>1, Fields

LEMMA NodesApart ==
  /\ DevRoot.name = Dev /\ DevRoot.ops = "none" /\ DevRoot.internal = "dev_children"
  /\ Root.ops = "none" /\ Root.internal = "children"
  /\ NULL.ops = "none" /\ NULL.internal = "nothing"
  /\ Wild.ops = "none" /\ Wild.internal = "wild"
  /\ NULL.size = 0 /\ DevRoot.size = 0
  /\ [NULL EXCEPT !.size = 0] = NULL /\ [DevRoot EXCEPT !.size = 0] = DevRoot
<1>1. /\ DevRoot.name = Dev /\ DevRoot.ops = "none" /\ DevRoot.internal = "dev_children"
      /\ DevRoot.size = 0 /\ [DevRoot EXCEPT !.size = 0] = DevRoot
  BY DEF DevRoot, Vnode
<1>2. Root.ops = "none" /\ Root.internal = "children"
  BY DEF Root, Vnode
<1>3. NULL.ops = "none" /\ NULL.internal = "nothing" /\ NULL.size = 0 /\ [NULL EXCEPT !.size = 0] = NULL
  BY DEF NULL, Vnode
<1>4. Wild.ops = "none" /\ Wild.internal = "wild"
  BY DEF Wild, Vnode
<1> QED  BY <1>1, <1>2, <1>3, <1>4

-----------------------------------------------------------------------------
\* The way down.

\* The nodes after up to m components.
Way(p, m, f) == f[0] = Root /\ \A n \in 1..m : f[n] = Step(f[n - 1], p[n])

LEMMA WayExists ==
  ASSUME NEW p, NEW m \in Nat
  PROVE  \E f : Way(p, m, f)
<1> DEFINE S == {k \in Nat : ~\E f : Way(p, k, f)}
<1>1. SUFFICES ASSUME S # {} PROVE FALSE
  OBVIOUS
<1>2. PICK k \in S : \A j \in S : k <= j
  <2>1. S \in SUBSET Nat
    OBVIOUS
  <2> HIDE DEF S
  <2> QED  BY <1>1, <2>1, Lowest
<1>3. k \in Nat /\ ~\E f : Way(p, k, f)
  BY <1>2
<1>4. k # 0
  <2> DEFINE f == [n \in {0} |-> Root]
  <2>1. f[0] = Root
    OBVIOUS
  <2> HIDE DEF f
  <2>2. Way(p, 0, f)
    BY <2>1 DEF Way
  <2> QED  BY <1>3, <2>2
<1>5. k - 1 \in Nat /\ k - 1 \notin S
  BY <1>2, <1>3, <1>4
<1>6. PICK f : Way(p, k - 1, f)
  BY <1>5
<1> DEFINE h == [n \in 0..k |-> IF n = k THEN Step(f[k - 1], p[k]) ELSE f[n]]
<1>7. h[0] = Root
  BY <1>3, <1>4, <1>6 DEF Way
<1>8. ASSUME NEW n \in 1..k
      PROVE  h[n] = Step(h[n - 1], p[n])
  <2>1. n \in 0..k /\ n - 1 \in 0..k /\ n - 1 # k
    BY <1>3
  <2>2. h[n - 1] = f[n - 1]
    BY <2>1
  <2>3. CASE n = k
    <3>1. h[n] = Step(f[k - 1], p[k])
      BY <2>1, <2>3
    <3> QED  BY <2>2, <2>3, <3>1
  <2>4. CASE n # k
    <3>1. n \in 1..(k - 1) /\ h[n] = f[n]
      BY <1>3, <2>1, <2>4
    <3>2. f[n] = Step(f[n - 1], p[n])
      BY <1>6, <3>1 DEF Way
    <3> QED  BY <2>2, <3>1, <3>2
  <2> QED  BY <2>3, <2>4
<1> HIDE DEF h
<1>9. Way(p, k, h)
  BY <1>7, <1>8 DEF Way
<1> QED  BY <1>3, <1>9

LEMMA WaysAgree ==
  ASSUME NEW p, NEW m \in Nat, NEW k \in Nat, m <= k, NEW f, NEW h, Way(p, m, f), Way(p, k, h)
  PROVE  f[m] = h[m]
<1> DEFINE S == {n \in 0..m : f[n] # h[n]}
<1>1. SUFFICES ASSUME S # {} PROVE FALSE
  <2>1. m \in 0..m
    OBVIOUS
  <2> QED  BY <2>1
<1>2. PICK n \in S : \A j \in S : n <= j
  <2>1. S \in SUBSET Nat
    OBVIOUS
  <2> HIDE DEF S
  <2> QED  BY <1>1, <2>1, Lowest
<1>3. n \in 0..m /\ f[n] # h[n]
  BY <1>2
<1>4. n # 0
  BY <1>3 DEF Way
<1>5. n \in 1..m /\ n \in 1..k /\ n - 1 \in 0..m /\ ~(n <= n - 1)
  BY <1>3, <1>4
<1>6. f[n - 1] = h[n - 1]
  BY <1>2, <1>5
<1>7. f[n] = Step(f[n - 1], p[n]) /\ h[n] = Step(h[n - 1], p[n])
  BY <1>5 DEF Way
<1> QED  BY <1>3, <1>6, <1>7

\* The definition of Walked has a solution, so it holds of Walked.
LEMMA WalkedSteps ==
  ASSUME NEW p
  PROVE  /\ Walked(p)[0] = Root
         /\ \A n \in Nat \ {0} : Walked(p)[n] = Step(Walked(p)[n - 1], p[n])
<1> DEFINE F(m) == CHOOSE f : Way(p, m, f)
           s == [n \in Nat |-> F(n)[n]]
<1>1. \A m \in Nat : Way(p, m, F(m))
  BY WayExists
<1>2. ASSUME NEW n \in Nat \ {0}
      PROVE  s[n] = Step(s[n - 1], p[n])
  <2>1. n \in Nat /\ n - 1 \in Nat /\ n - 1 <= n /\ n \in 1..n
    OBVIOUS
  <2>2. Way(p, n, F(n)) /\ Way(p, n - 1, F(n - 1))
    BY <1>1, <2>1
  <2> HIDE DEF F
  <2>3. F(n)[n] = Step(F(n)[n - 1], p[n])
    BY <2>1, <2>2 DEF Way
  <2>4. F(n - 1)[n - 1] = F(n)[n - 1]
    BY <2>1, <2>2, WaysAgree
  <2>5. s[n] = F(n)[n] /\ s[n - 1] = F(n - 1)[n - 1]
    BY <2>1
  <2> QED  BY <2>3, <2>4, <2>5
<1>3. s[0] = Root
  <2>1. Way(p, 0, F(0))
    BY <1>1
  <2> HIDE DEF F
  <2> QED  BY <2>1 DEF Way
<1>4. s = [n \in Nat |-> IF n = 0 THEN Root ELSE Step(s[n - 1], p[n])]
  <2>1. \A n \in Nat : s[n] = IF n = 0 THEN Root ELSE Step(s[n - 1], p[n])
    <3> HIDE DEF s
    <3> QED  BY <1>2, <1>3
  <2>2. s = [n \in Nat |-> s[n]]
    OBVIOUS
  <2> HIDE DEF s
  <2> QED  BY <2>1, <2>2
<1> DEFINE t == CHOOSE f : f = [n \in Nat |-> IF n = 0 THEN Root ELSE Step(f[n - 1], p[n])]
<1>5. Walked(p) = t
  BY DEF Walked
<1>6. t = [n \in Nat |-> IF n = 0 THEN Root ELSE Step(t[n - 1], p[n])]
  <2> HIDE DEF s
  <2> QED  BY <1>4
<1> HIDE DEF t
<1>7. t[0] = Root /\ \A n \in Nat \ {0} : t[n] = Step(t[n - 1], p[n])
  BY <1>6
<1> QED  BY <1>5, <1>7

LEMMA NoStep ==
  ASSUME NEW name
  PROVE  Step(NULL, name) = NULL /\ Step(Wild, name) = Wild
BY DEF Step

LEMMA StepIs ==
  ASSUME NEW name, name # ""
  PROVE  /\ Step(Root, name) = Child(children, <<name>>)
         /\ Step(DevRoot, name) = Child(dev_children, <<name>>)
<1>1. /\ Root # NULL /\ Root # Wild /\ DevRoot # NULL /\ DevRoot # Wild
      /\ IsDir(Root) /\ IsDir(DevRoot)
  BY NodesApart DEF IsDir
<1>2. /\ ChildrenOf(Root) = children /\ ChildrenOf(DevRoot) = dev_children
      /\ Root.internal # "nothing" /\ DevRoot.internal # "nothing"
  BY NodesApart DEF ChildrenOf
<1> QED  BY <1>1, <1>2 DEF Step

LEMMA StepFile ==
  ASSUME NEW node, NEW name, node.ops # "none"
  PROVE  Step(node, name) = NULL \/ Step(node, name) = Wild
<1>1. node # NULL /\ node # Wild /\ ~IsDir(node)
  BY NodesApart DEF IsDir
<1> QED  BY <1>1 DEF Step

\* A walk that found nothing, or was led astray, stays there.
LEMMA WalkEnds ==
  ASSUME NEW p, NEW k \in Nat, Walked(p)[k] = NULL \/ Walked(p)[k] = Wild, NEW j \in Nat, k <= j
  PROVE  Walked(p)[j] = Walked(p)[k]
<1> DEFINE w == Walked(p)
           S == {i \in Nat : k <= i /\ w[i] # w[k]}
<1>1. SUFFICES ASSUME S # {} PROVE FALSE
  OBVIOUS
<1>2. PICK i \in S : \A l \in S : i <= l
  <2>1. S \in SUBSET Nat
    OBVIOUS
  <2> HIDE DEF S
  <2> QED  BY <1>1, <2>1, Lowest
<1> HIDE DEF w
<1>3. i \in Nat /\ k <= i /\ w[i] # w[k] /\ i # k
  BY <1>2
<1>4. i \in Nat \ {0} /\ i - 1 \in Nat /\ k <= i - 1 /\ ~(i <= i - 1)
  BY <1>3
<1>5. w[i - 1] = w[k]
  BY <1>2, <1>4
<1>6. w[i] = Step(w[i - 1], p[i])
  BY <1>4, WalkedSteps DEF w
<1>7. w[k] = NULL \/ w[k] = Wild
  BY DEF w
<1> QED  BY <1>3, <1>5, <1>6, <1>7, NoStep

\* What the root directory has under a name.
LEMMA RootChild ==
  ASSUME booted \in Archives, RootHas, NEW q \in Seq(Words), q # <<>>, q[1] # "."
  PROVE  /\ q = Dev => Child(children, q) = DevRoot
         /\ q # Dev /\ InArchive(q) = {} => Child(children, q) = NULL
         /\ q # Dev /\ InArchive(q) # {} =>
              LET node == Vnode(q, booted[Min(InArchive(q))].size, "tar", "data")
              IN  Child(children, q) \in {node, [node EXCEPT !.size = 0]}
<1> DEFINE L == Len(booted)
           C == Len(children)
           U(i) == Unpacked(booted[i].name)
<1>1. L \in Nat /\ children \in Seq(Node) /\ C \in Nat /\ C = (IF Covered = {} THEN L + 1 ELSE L)
  BY ArchiveFacts DEF RootHas
<1>2. MountPoint \in 1..C /\ \A i \in 1..C : i # MountPoint => i \in 1..L
  <2>1. CASE Covered = {}
    BY <1>1, <2>1 DEF MountPoint
  <2>2. CASE Covered # {}
    <3>1. Covered \in SUBSET Nat /\ Covered \subseteq 1..L
      BY <1>1 DEF Covered
    <3>2. Min(Covered) \in 1..L
      BY <2>2, <3>1, LowestIs
    <3> QED  BY <1>1, <2>2, <3>2 DEF MountPoint
  <2> QED  BY <2>1, <2>2
<1>3. children[MountPoint] = DevRoot /\ children[MountPoint].name = Dev
  BY <1>1, <1>2, NodesApart DEF RootHas
<1>4. \A i \in 1..C : i # MountPoint => Sized(children[i], TarNode(i))
  BY DEF RootHas
<1>5. \A i \in 1..C : i # MountPoint => children[i].name = U(i)
  <2> SUFFICES ASSUME NEW i \in 1..C, i # MountPoint PROVE children[i].name = U(i)
    OBVIOUS
  <2>1. Sized(children[i], Vnode(U(i), booted[i].size, "tar", "data"))
    BY <1>4 DEF TarNode
  <2> QED  BY <2>1, SizedIs
<1>6. ASSUME q = Dev
      PROVE  Child(children, q) = DevRoot
  <2>1. ASSUME NEW k \in 1..C, children[k].name = Dev
        PROVE  MountPoint <= k
    <3>1. CASE k = MountPoint
      BY <1>1, <3>1
    <3>2. CASE k # MountPoint
      <4>1. k \in Covered
        BY <1>2, <1>5, <2>1, <3>2 DEF Covered
      <4>2. Covered \in SUBSET Nat
        BY DEF Covered
      <4>3. Min(Covered) <= k
        BY <4>1, <4>2, LowestIs
      <4> QED  BY <4>1, <4>3 DEF MountPoint
    <3> QED  BY <3>1, <3>2
  <2> QED  BY <1>1, <1>2, <1>3, <1>6, <2>1, ChildIs
<1>7. ASSUME q # Dev
      PROVE  /\ \A i \in 1..C : children[i].name = q => i \in InArchive(q) /\ i # MountPoint
             /\ \A i \in InArchive(q) : i \in 1..C /\ i # MountPoint /\ children[i].name = q
  <2>1. InArchive(q) = {i \in 1..L : U(i) = q}
    BY InArchiveIs
  <2>2. ASSUME NEW i \in 1..C, children[i].name = q
        PROVE  i \in InArchive(q) /\ i # MountPoint
    <3>1. i # MountPoint
      BY <1>3, <1>7, <2>2
    <3> QED  BY <1>2, <1>5, <2>1, <2>2, <3>1
  <2>3. ASSUME NEW i \in InArchive(q)
        PROVE  i \in 1..C /\ i # MountPoint /\ children[i].name = q
    <3>1. i \in 1..L /\ U(i) = q
      BY <2>1
    <3>2. i \in 1..C
      BY <1>1, <3>1
    <3>3. i # MountPoint
      <4>1. CASE Covered = {}
        BY <1>1, <3>1, <4>1 DEF MountPoint
      <4>2. CASE Covered # {}
        <5>1. Covered \in SUBSET Nat
          BY DEF Covered
        <5>2. Min(Covered) \in Covered
          BY <4>2, <5>1, LowestIs
        <5>3. U(Min(Covered)) = Dev
          BY <5>2 DEF Covered
        <5> QED  BY <1>7, <3>1, <4>2, <5>3 DEF MountPoint
      <4> QED  BY <4>1, <4>2
    <3> QED  BY <1>5, <3>1, <3>2, <3>3
  <2> QED  BY <2>2, <2>3
<1>8. ASSUME q # Dev, InArchive(q) = {}
      PROVE  Child(children, q) = NULL
  BY <1>1, <1>7, <1>8, ChildIs
<1>9. ASSUME q # Dev, InArchive(q) # {}
      PROVE  LET node == Vnode(q, booted[Min(InArchive(q))].size, "tar", "data")
             IN  Child(children, q) \in {node, [node EXCEPT !.size = 0]}
  <2> DEFINE m == Min(InArchive(q))
  <2>1. InArchive(q) \in SUBSET Nat
    BY <1>1 DEF InArchive
  <2>2. m \in InArchive(q) /\ \A k \in InArchive(q) : m <= k
    BY <1>9, <2>1, LowestIs
  <2> HIDE DEF m
  <2>3. m \in 1..C /\ m # MountPoint /\ children[m].name = q
    BY <1>7, <1>9, <2>2
  <2>4. Child(children, q) = children[m]
    BY <1>1, <1>7, <1>9, <2>2, <2>3, ChildIs
  <2>5. U(m) = q
    BY <1>5, <2>3
  <2>6. Sized(children[m], Vnode(q, booted[m].size, "tar", "data"))
    BY <1>4, <2>3, <2>5 DEF TarNode
  <2>7. children[m] \in {Vnode(q, booted[m].size, "tar", "data"),
                         [Vnode(q, booted[m].size, "tar", "data") EXCEPT !.size = 0]}
    BY <2>6, SizedIs
  <2> QED  BY <2>4, <2>7 DEF m
<1> QED  BY <1>6, <1>8, <1>9

LEMMA DevNode ==
  ASSUME DevHas, NEW i \in 1..Len(dev_children)
  PROVE  /\ i \in 1..4 /\ dev_children[i].name = <<Order[i]>>
         /\ dev_children[i].ops = OpsOf(Order[i]) /\ dev_children[i].internal = InternalOf(Order[i])
         /\ dev_children[i] \in {DeviceNode(Order[i]), [DeviceNode(Order[i]) EXCEPT !.size = 0]}
<1>1. i \in 1..4
  BY Order4 DEF DevHas
<1>2. Sized(dev_children[i], Vnode(<<Order[i]>>, SizeOf(Order[i]), OpsOf(Order[i]), InternalOf(Order[i])))
  BY DEF DevHas, DeviceNode
<1> QED  BY <1>1, <1>2, SizedIs DEF DeviceNode

\* What the device directory has under a name.
LEMMA DevChild ==
  ASSUME DevHas, pc = "run", NEW name
  PROVE  /\ name \in Devices =>
              /\ Child(dev_children, <<name>>) \in {DeviceNode(name), [DeviceNode(name) EXCEPT !.size = 0]}
              /\ Child(dev_children, <<name>>).ops # "none"
         /\ name \notin Devices => Child(dev_children, <<name>>) = NULL
<1>1. dev_children \in Seq(Node) /\ Len(dev_children) = 4
  BY Order4 DEF DevHas
<1>2. \A i \in 1..4 : dev_children[i].name = <<name>> <=> Order[i] = name
  <2> SUFFICES ASSUME NEW i \in 1..4
               PROVE  dev_children[i].name = <<name>> <=> Order[i] = name
    OBVIOUS
  <2>1. dev_children[i].name = <<Order[i]>>
    BY <1>1, DevNode
  <2> QED  BY <2>1
<1>3. ASSUME name \in Devices
      PROVE  /\ Child(dev_children, <<name>>) \in {DeviceNode(name), [DeviceNode(name) EXCEPT !.size = 0]}
             /\ Child(dev_children, <<name>>).ops # "none"
  <2>1. PICK i \in 1..4 : Order[i] = name
    BY <1>3, Order4
  <2>2. \A k \in 1..4 : dev_children[k].name = <<name>> => i <= k
    BY <1>2, <2>1, Order4
  <2>3. Child(dev_children, <<name>>) = dev_children[i]
    BY <1>1, <1>2, <2>1, <2>2, ChildIs
  <2>4. dev_children[i].ops = OpsOf(name) /\ OpsOf(name) # "none"
    BY <1>1, <2>1, DevNode DEF OpsOf
  <2> QED  BY <1>1, <2>1, <2>3, <2>4, DevNode
<1>4. ASSUME name \notin Devices
      PROVE  Child(dev_children, <<name>>) = NULL
  <2>1. \A i \in 1..4 : dev_children[i].name # <<name>>
    BY <1>2, <1>4, Order4
  <2> QED  BY <1>1, <2>1, ChildIs
<1> QED  BY <1>3, <1>4

\* No empty name and no ".".
Proper(q) == \A i \in 1..Len(q) : q[i] # "" /\ q[i] # "."

LEMMA ProperAt ==
  ASSUME NEW q, Proper(q), NEW i \in 1..Len(q)
  PROVE  q[i] # "" /\ q[i] # "."
BY DEF Proper

\* The walk below the root, for a name that the root does not have as a whole.
LEMMA WalkFinds ==
  ASSUME booted \in Archives, RootHas, DevHas, pc = "run",
         NEW q \in Seq(Words), q # <<>>, Proper(q),
         q # Dev, InArchive(q) = {}, Walk(q) # Wild
  PROVE  /\ Len(q) = 2 /\ q[1] = "dev" /\ q[2] \in Devices =>
              Walk(q) \in {DeviceNode(q[2]), [DeviceNode(q[2]) EXCEPT !.size = 0]}
         /\ ~(Len(q) = 2 /\ q[1] = "dev" /\ q[2] \in Devices) => Walk(q) = NULL
<1> DEFINE L == Len(q)
           w == Walked(q)
           one == <<q[1]>>
<1>1. L \in Nat /\ L > 0 /\ 1 \in 1..L /\ L \in 1..L
  BY EmptySeq
<1>2. Walk(q) = w[L]
  <2>1. q[L] # ""
    BY <1>1, ProperAt
  <2> QED  BY <2>1 DEF Walk
<1>3. q[1] \in Words /\ q[1] # "" /\ q[1] # "."
  <2>1. q[1] \in Words
    BY <1>1, ElementOfSeq
  <2>2. q[1] # "" /\ q[1] # "."
    BY <1>1, ProperAt
  <2> QED  BY <2>1, <2>2
<1>4. one \in Seq(Words) /\ one # <<>> /\ one[1] = q[1] /\ Len(one) = 1
  BY <1>3, OneWord
<1>5. w[1] = Child(children, one)
  <2>1. w[0] = Root /\ w[1] = Step(w[0], q[1])
    <3>1. 1 \in Nat \ {0} /\ 1 - 1 = 0
      OBVIOUS
    <3> QED  BY <3>1, WalkedSteps
  <2> QED  BY <1>3, <2>1, StepIs
<1>6. L >= 2 => 2 \in 1..L /\ q[2] # "" /\ w[2] = Step(w[1], q[2])
  <2>1. 2 \in Nat \ {0} /\ 2 - 1 = 1
    OBVIOUS
  <2>2. w[2] = Step(w[1], q[2])
    BY <2>1, WalkedSteps
  <2>3. L >= 2 => 2 \in 1..L
    BY <1>1
  <2> QED  BY <2>2, <2>3, ProperAt
<1> HIDE DEF w, one
<1>7. CASE L = 1
  <2>1. one = q
    BY <1>4, <1>7, SeqEqual
  <2>2. w[1] = NULL
    BY <1>3, <1>5, <2>1, RootChild
  <2> QED  BY <1>2, <1>7, <2>2
<1>8. CASE L >= 2 /\ q[1] # "dev"
  <2>1. one # Dev
    BY <1>4, <1>8, DevIs
  <2>2. w[1] = NULL \/ w[1].ops # "none"
    <3>1. CASE InArchive(one) = {}
      BY <1>3, <1>4, <1>5, <2>1, <3>1, RootChild
    <3>2. CASE InArchive(one) # {}
      <4> DEFINE z == booted[Min(InArchive(one))].size
      <4>1. w[1] \in {Vnode(one, z, "tar", "data"), [Vnode(one, z, "tar", "data") EXCEPT !.size = 0]}
        BY <1>3, <1>4, <1>5, <2>1, <3>2, RootChild
      <4> HIDE DEF z
      <4> QED  BY <4>1, Fields
    <3> QED  BY <3>1, <3>2
  <2>3. w[2] = NULL \/ w[2] = Wild
    BY <1>6, <1>8, <2>2, NoStep, StepFile
  <2>4. w[L] = w[2]
    BY <1>1, <1>8, <2>3, WalkEnds DEF w
  <2> QED  BY <1>2, <1>8, <2>3, <2>4
<1>9. CASE L >= 2 /\ q[1] = "dev"
  <2>1. one = Dev
    BY <1>4, <1>9, DevIs, SeqEqual
  <2>2. w[1] = DevRoot
    BY <1>3, <1>4, <1>5, <2>1, RootChild
  <2>3. w[2] = Child(dev_children, <<q[2]>>)
    BY <1>6, <1>9, <2>2, StepIs
  <2>4. CASE q[2] \notin Devices
    <3>1. w[2] = NULL
      BY <2>3, <2>4, DevChild
    <3>2. w[L] = w[2]
      BY <1>1, <1>9, <3>1, WalkEnds DEF w
    <3> QED  BY <1>2, <2>4, <3>1, <3>2
  <2>5. CASE q[2] \in Devices /\ L = 2
    BY <1>2, <1>9, <2>3, <2>5, DevChild
  <2>6. CASE q[2] \in Devices /\ L # 2
    <3>1. w[2].ops # "none"
      BY <2>3, <2>6, DevChild
    <3>2. w[3] = Step(w[2], q[3])
      <4>1. 3 \in Nat \ {0} /\ 3 - 1 = 2
        OBVIOUS
      <4> QED  BY <4>1, WalkedSteps DEF w
    <3>3. w[3] = NULL \/ w[3] = Wild
      BY <3>1, <3>2, StepFile
    <3>4. w[L] = w[3]
      BY <1>1, <1>9, <2>6, <3>3, WalkEnds DEF w
    <3>5. Walk(q) = NULL
      BY <1>2, <3>3, <3>4
    <3>6. ~(Len(q) = 2)
      BY <2>6
    <3> QED  BY <3>5, <3>6, Zenon
  <2> QED  BY <2>4, <2>5, <2>6
<1>10. L = 1 \/ L >= 2
  <2> HIDE DEF L
  <2> QED  BY <1>1
<1> QED  BY <1>7, <1>8, <1>9, <1>10, Zenon

\* The string "/", without its leading slash.
Slash == <<"">>

LEMMA SlashIs == "" \in Words /\ <<"">> \in Seq(Words) /\ Len(<<"">>) = 1 /\ <<"">>[1] = ""
<1>1. "" \in Words
  BY Zenon DEF Words
<1> QED  BY <1>1, OneWord

LEMMA SlashOnly ==
  ASSUME NEW s \in Seq(Words)
  PROVE  Len(s) = 1 /\ s[1] = "" => s = Slash
<1> DEFINE w == ""
           e == <<w>>
<1>1. e \in Seq(Words) /\ Len(e) = 1 /\ e[1] = w
  BY SlashIs
<1> HIDE DEF e, w
<1>2. ASSUME Len(s) = 1, s[1] = w
      PROVE  s = e
  <2>1. \A i \in 1..Len(s) : s[i] = e[i]
    BY <1>1, <1>2
  <2> QED  BY <1>1, <1>2, <2>1, SeqEqual
<1> QED  BY <1>2 DEF e, w, Slash

\* One string without a slash at its start.
LEMMA LeadingFacts ==
  ASSUME NEW path \in Text
  PROVE  LET p == WithoutLeading(path)
             a == IF path[1] = "" THEN 2 ELSE 1
         IN  /\ p \in Seq(Words) /\ Len(p) \in Nat /\ Len(p) > 0
             /\ p # Slash => /\ Len(p) = Len(path) - a + 1
                              /\ \A i \in 1..Len(p) : p[i] = path[a + i - 1]
                              /\ ~(Len(p) = 1 /\ p[1] = "")
             /\ p = Slash => path[1] = "" /\ (Len(path) = 1 \/ (Len(path) = 2 /\ path[2] = ""))
<1> DEFINE p == WithoutLeading(path)
           n == Len(path)
           w == ""
           a == IF path[1] = w THEN 2 ELSE 1
           e == <<w>>
<1>1. path \in Seq(Words) /\ path # <<>> /\ n \in Nat /\ n > 0
  BY TextFacts
<1>2. e \in Seq(Words) /\ Len(e) = 1 /\ e[1] = w
  BY SlashIs
<1> HIDE DEF e, w
<1>3. ASSUME NEW s \in Seq(Words), Len(s) = 1, s[1] = w
      PROVE  s = e
  <2>1. \A i \in 1..Len(s) : s[i] = e[i]
    BY <1>2, <1>3
  <2> QED  BY <1>2, <1>3, <2>1, SeqEqual
<1>4. CASE path[1] = w /\ n > 1
  <2>1. p = Tail(path) /\ a = 2
    BY <1>4 DEF WithoutLeading, w
  <2>2. /\ Tail(path) \in Seq(Words) /\ Len(Tail(path)) = n - 1
        /\ \A i \in 1..Len(Tail(path)) : Tail(path)[i] = path[i + 1]
    BY <1>1, HeadTailProperties
  <2> HIDE DEF p, n, a
  <2>3. p \in Seq(Words) /\ Len(p) = n - 1 /\ \A i \in 1..Len(p) : p[i] = path[i + 1]
    BY <2>1, <2>2
  <2>4. Len(p) \in Nat /\ Len(p) > 0 /\ Len(p) = n - a + 1
    BY <1>1, <1>4, <2>1, <2>3
  <2>5. \A i \in 1..Len(p) : p[i] = path[a + i - 1]
    <3>1. \A i \in 1..Len(p) : i + 1 = a + i - 1
      BY <2>1, <2>4
    <3> QED  BY <2>3, <3>1
  <2>6. p # e => ~(Len(p) = 1 /\ p[1] = w)
    BY <1>3, <2>3
  <2>7. p = e => n = 2 /\ path[2] = w
    <3>1. ASSUME p = e PROVE n = 2 /\ path[2] = w
      <4>1. Len(p) = 1 /\ p[1] = w
        BY <1>2, <3>1
      <4>2. n = 2 /\ 1 \in 1..Len(p) /\ 1 + 1 = 2
        <5>1. Len(p) = n - 1 /\ Len(p) = 1
          BY <2>3, <4>1
        <5>2. n = 2
          <6>1. n \in Nat
            BY <1>1
          <6>2. n - 1 = 1
            BY <5>1, Zenon
          <6>3. \A k \in Nat : k - 1 = 1 => k = 2
            OBVIOUS
          <6> QED  BY <6>1, <6>2, <6>3, Zenon
        <5>3. 1 \in 1..1 /\ 1 + 1 = 2
          OBVIOUS
        <5> QED  BY <5>1, <5>2, <5>3, Zenon
      <4> QED  BY <2>3, <4>1, <4>2
    <3> QED  BY <3>1
  <2> QED  BY <1>4, <2>3, <2>4, <2>5, <2>6, <2>7 DEF p, n, a, e, w, Slash
<1>5. CASE ~(path[1] = w /\ n > 1)
  <2>1. p = path
    BY <1>5 DEF WithoutLeading, w
  <2>2. ASSUME p # e
        PROVE  a = 1 /\ ~(n = 1 /\ path[1] = w)
    <3>1. ~(n = 1 /\ path[1] = w)
      BY <1>1, <1>3, <2>1, <2>2
    <3>2. n = 1 \/ n > 1
      <4> HIDE DEF n
      <4> QED  BY <1>1
    <3>3. path[1] # w
      BY <1>5, <3>1, <3>2, Zenon
    <3> QED  BY <3>1, <3>3, Zenon
  <2>3. p = e => n = 1 /\ path[1] = w
    BY <1>2, <2>1
  <2> HIDE DEF p, n, a
  <2>4. p \in Seq(Words) /\ Len(p) = n
    BY <1>1, <2>1 DEF n
  <2>5. ASSUME p # e
        PROVE  /\ Len(p) = n - a + 1 /\ \A i \in 1..Len(p) : p[i] = path[a + i - 1]
               /\ ~(Len(p) = 1 /\ p[1] = w)
    <3>1. a = 1 /\ n - a + 1 = n /\ \A i \in 1..n : a + i - 1 = i
      BY <1>1, <2>2, <2>5
    <3> QED  BY <2>1, <2>2, <2>4, <2>5, <3>1
  <2> QED  BY <1>1, <2>3, <2>4, <2>5 DEF p, n, a, e, w, Slash
<1> QED  BY <1>4, <1>5

\* Of a path that is not the root's, the lookup takes just its names.
LEMMA PathNames ==
  ASSUME NEW path \in Text, Plain(path), WithoutLeading(path) # Slash
  PROVE  LET q == WithoutTrailing(WithoutLeading(path))
         IN  q = Names(path) /\ q \in Seq(Words) /\ q # <<>> /\ Proper(q)
<1> DEFINE w == ""
           p == WithoutLeading(path)
           n == Len(path)
           a == IF path[1] = w THEN 2 ELSE 1
           b == IF path[n] = w THEN n - 1 ELSE n
           q == WithoutTrailing(p)
           m == Len(p)
<1>1. path \in Seq(Words) /\ n \in Nat /\ n > 0 /\ \A i \in 1..n : path[i] \in Words
  BY TextFacts, ElementOfSeq
<1>2. /\ p \in Seq(Words) /\ m \in Nat /\ m > 0 /\ m = n - a + 1
      /\ \A i \in 1..m : p[i] = path[a + i - 1]
      /\ ~(m = 1 /\ p[1] = w)
  <2>1. p \in Seq(Words) /\ m \in Nat /\ m > 0
    BY LeadingFacts
  <2>2. m = n - a + 1
    BY LeadingFacts
  <2>3. \A i \in 1..m : p[i] = path[a + i - 1]
    BY LeadingFacts
  <2>4. ~(m = 1 /\ p[1] = w)
    BY <2>1, SlashOnly, Zenon
  <2> QED  BY <2>1, <2>2, <2>3, <2>4, Zenon
<1>3. q = IF m > 1 /\ p[m] = w THEN SubSeq(p, 1, m - 1) ELSE p
  BY DEF WithoutTrailing, Front
<1>4. /\ \A i \in 2..(n - 1) : path[i] # w
      /\ \A i \in 1..n : path[i] # "."
  BY DEF Plain
<1>5. Names(path) = SubSeq(path, a, b)
  BY DEF Names
<1>6. a \in {1, 2} /\ (a = 1 => path[1] # w) /\ b \in {n - 1, n} /\ (b = n => path[n] # w)
      /\ (b # n => path[n] = w)
  <2>1. n # n - 1
    BY <1>1
  <2> HIDE DEF w, n
  <2> QED  BY <2>1
<1> HIDE DEF w, p, n, a, b, q, m
<1>7. m \in 1..m /\ 1 \in 1..m /\ a + m - 1 = n /\ p[m] = path[n]
  <2>1. m \in 1..m /\ 1 \in 1..m
    BY <1>2
  <2>2. a + m - 1 = n
    BY <1>1, <1>2, <1>6
  <2> QED  BY <1>2, <2>1, <2>2
<1>8. /\ q \in Seq(Words) /\ Len(q) \in Nat /\ Len(q) > 0 /\ Len(q) = b - a + 1
      /\ \A i \in 1..Len(q) : q[i] = path[a + i - 1]
  <2>1. CASE path[n] = w
    <3>1. b = n - 1
      BY <1>6, <2>1
    <3>2. m > 1
      <4>1. m # 1
        BY <1>2, <1>7, <2>1
      <4> QED  BY <1>2, <4>1
    <3>3. q = SubSeq(p, 1, m - 1)
      BY <1>3, <1>7, <2>1, <3>2
    <3>4. \A i \in 1..(m - 1) : i \in 1..m /\ p[i] \in Words
      <4>1. \A i \in 1..(m - 1) : i \in 1..m
        BY <1>2
      <4> QED  BY <1>2, <4>1, ElementOfSeq DEF m
    <3>5. m - 1 \in Int /\ 1 \in Int /\ (m - 1) - 1 + 1 = m - 1 /\ 1 <= m - 1
      BY <1>2, <3>2
    <3>6. /\ q \in Seq(Words) /\ Len(q) = (IF 1 <= m - 1 THEN (m - 1) - 1 + 1 ELSE 0)
          /\ \A i \in 1..((m - 1) - 1 + 1) : q[i] = p[1 + i - 1]
      BY <3>3, <3>4, <3>5, SubSeqProperties
    <3>7. Len(q) = m - 1 /\ \A i \in 1..(m - 1) : q[i] = p[1 + i - 1]
      BY <3>5, <3>6
    <3>8. \A i \in 1..(m - 1) : 1 + i - 1 = i
      BY <1>2
    <3>9. \A i \in 1..(m - 1) : q[i] = path[a + i - 1]
      BY <1>2, <3>4, <3>7, <3>8
    <3>10. m - 1 \in Nat /\ m - 1 > 0 /\ m - 1 = b - a + 1
      BY <1>1, <1>2, <1>6, <3>1, <3>2
    <3> QED  BY <3>6, <3>7, <3>9, <3>10
  <2>2. CASE path[n] # w
    <3>1. b = n /\ q = p
      BY <1>3, <1>6, <1>7, <2>2
    <3> QED  BY <1>2, <3>1 DEF m
  <2> QED  BY <2>1, <2>2
<1>9. \A i \in 1..Len(q) : a + i - 1 \in 1..n /\ a + i - 1 \in a..b
  BY <1>1, <1>6, <1>8
<1>10. q = SubSeq(path, a, b)
  <2>1. a \in Int /\ b \in Int /\ a <= b /\ \A i \in a..b : i \in 1..n
    BY <1>1, <1>6, <1>8
  <2>2. \A i \in a..b : path[i] \in Words
    BY <1>1, <2>1
  <2>3. /\ SubSeq(path, a, b) \in Seq(Words) /\ Len(SubSeq(path, a, b)) = (IF a <= b THEN b - a + 1 ELSE 0)
        /\ \A i \in 1..(b - a + 1) : SubSeq(path, a, b)[i] = path[a + i - 1]
    BY <2>1, <2>2, SubSeqProperties
  <2> DEFINE s == SubSeq(path, a, b)
  <2>4. s \in Seq(Words) /\ Len(s) = Len(q) /\ \A i \in 1..Len(q) : s[i] = q[i]
    BY <1>8, <2>1, <2>3
  <2> HIDE DEF s
  <2>5. q = s
    BY <1>8, <2>4, SeqEqual
  <2> QED  BY <2>5 DEF s
<1>11. ASSUME NEW i \in 1..Len(q)
       PROVE  q[i] # w /\ q[i] # "."
  <2> DEFINE j == a + i - 1
  <2>1. q[i] = path[j] /\ j \in 1..n /\ j \in a..b
    BY <1>8, <1>9
  <2> HIDE DEF j
  <2>2. j = 1 => a = 1
    BY <1>6, <2>1
  <2>3. j = n => b = n
    BY <1>1, <1>6, <2>1
  <2>4. j = 1 \/ j = n \/ j \in 2..(n - 1)
    BY <1>1, <2>1
  <2>5. path[j] # w
    BY <1>4, <1>6, <2>2, <2>3, <2>4, Zenon
  <2> QED  BY <1>4, <2>1, <2>5, Zenon
<1>12. Proper(q)
  BY <1>11 DEF Proper, w
<1>13. q # <<>>
  BY <1>8, EmptySeq
<1> QED  BY <1>5, <1>8, <1>10, <1>12, <1>13 DEF q, p

LEMMA RootNames ==
  ASSUME NEW path \in Text, WithoutLeading(path) = Slash
  PROVE  Names(path) = <<>>
<1>1. path[1] = "" /\ (Len(path) = 1 \/ (Len(path) = 2 /\ path[2] = ""))
  BY LeadingFacts
<1>2. Names(path) = SubSeq(path, 2, IF path[Len(path)] = "" THEN Len(path) - 1 ELSE Len(path))
  BY <1>1, Zenon DEF Names
<1>3. path[Len(path)] = ""
  BY <1>1, Zenon
<1>4. Len(path) \in Nat
  BY TextFacts
<1>5. Names(path) = SubSeq(path, 2, Len(path) - 1)
  BY <1>2, <1>3, Zenon
<1>6. Len(path) - 1 \in Int /\ 2 \in Int /\ Len(path) - 1 < 2
  <2>1. Len(path) = 1 \/ Len(path) = 2
    BY <1>1, Zenon
  <2>2. \A k \in Nat : k = 1 \/ k = 2 => k - 1 \in Int /\ 2 \in Int /\ k - 1 < 2
    OBVIOUS
  <2> QED  BY <1>4, <2>1, <2>2, Zenon
<1> QED  BY <1>5, <1>6, SubSeqEmpty

LEMMA MeantIs ==
  ASSUME NEW q \in Seq(Words)
  PROVE  /\ q = <<>> => Meant(q) = Root
         /\ q # <<>> /\ q = Dev => Meant(q) = DevRoot
         /\ q # <<>> /\ q # Dev /\ InArchive(q) # {} =>
              Meant(q) = Vnode(q, booted[Min(InArchive(q))].size, "tar", "data")
         /\ q # <<>> /\ q # Dev /\ InArchive(q) = {} =>
              Meant(q) = IF Len(q) = 2 /\ q[1] = "dev" /\ q[2] \in Devices THEN DeviceNode(q[2]) ELSE NULL
<1> DEFINE A == q = <<>>
           B == q = Dev
           C == q \notin {<<>>, Dev} /\ InArchive(q) # {}
           D == Len(q) = 2 /\ q[1] = "dev" /\ q[2] \in Devices /\ InArchive(q) = {}
           x == Vnode(q, booted[Min(InArchive(q))].size, "tar", "data")
           y == DeviceNode(q[2])
<1>1. Meant(q) = CASE A -> Root [] B -> DevRoot [] C -> x [] D -> y [] OTHER -> NULL
  BY DEF Meant
<1>2. ~(A /\ B) /\ ~(B /\ D) /\ ~(A /\ D)
  <2>1. Len(Dev) = 1
    BY DevIs
  <2>2. Len(<<>>) = 0 /\ 0 # 2 /\ 1 # 2 /\ 0 # 1
    BY EmptySeq
  <2> QED  BY <2>1, <2>2, Zenon
<1>3. (C <=> ~A /\ ~B /\ InArchive(q) # {}) /\ ~(C /\ D) /\ ~(A /\ C) /\ ~(B /\ C)
  BY Zenon
<1> HIDE DEF x, y, C, D
<1>4. (A => Meant(q) = Root) /\ (B => Meant(q) = DevRoot) /\ (C => Meant(q) = x)
      /\ (D => Meant(q) = y) /\ (~A /\ ~B /\ ~C /\ ~D => Meant(q) = NULL)
  <2> HIDE DEF A, B
  <2> QED  BY <1>1, <1>2, <1>3
<1>5. ASSUME ~A, ~B, InArchive(q) = {}
      PROVE  Meant(q) = IF Len(q) = 2 /\ q[1] = "dev" /\ q[2] \in Devices THEN DeviceNode(q[2]) ELSE NULL
  <2>1. ~C
    BY <1>5 DEF C
  <2>2. D <=> Len(q) = 2 /\ q[1] = "dev" /\ q[2] \in Devices
    BY <1>5, Zenon DEF D
  <2>3. CASE D
    BY <1>4, <2>2, <2>3, Zenon DEF y
  <2>4. CASE ~D
    BY <1>4, <1>5, <2>1, <2>2, <2>4, Zenon
  <2> QED  BY <2>3, <2>4
<1>6. ~A /\ ~B /\ InArchive(q) # {} => Meant(q) = x
  BY <1>3, <1>4
<1> QED  BY <1>4, <1>5, <1>6, Zenon DEF x

LEMMA LookupFinds ==
  ASSUME booted \in Archives, RootHas, DevHas, pc = "run",
         NEW path \in Text, Plain(path), vfs_find_vnode(path) # Wild
  PROVE  LET meant == Meant(Names(path))
         IN  vfs_find_vnode(path) \in {meant, [meant EXCEPT !.size = 0]}
<1> DEFINE p == WithoutLeading(path)
           q == WithoutTrailing(p)
           direct == Child(children, q)
           meant == Meant(Names(path))
           node == vfs_find_vnode(path)
<1>1. node = IF p = Slash THEN Root ELSE IF direct # NULL THEN direct ELSE Walk(q)
  BY Zenon DEF vfs_find_vnode, Slash
<1> SUFFICES node = meant \/ node = [meant EXCEPT !.size = 0]
  BY Zenon
<1>2. CASE p = Slash
  <2>1. Names(path) = <<>>
    BY <1>2, RootNames
  <2>2. meant = Root
    <3>1. <<>> \in Seq(Words)
      BY EmptySeq
    <3> QED  BY <2>1, <3>1, MeantIs
  <2> QED  BY <1>1, <1>2, <2>2, Zenon
<1>3. CASE p # Slash
  <2>1. q = Names(path) /\ q \in Seq(Words) /\ q # <<>> /\ Proper(q)
    BY <1>3, PathNames
  <2>2. meant = Meant(q)
    BY <2>1, Zenon
  <2>3. node = IF direct # NULL THEN direct ELSE Walk(q)
    BY <1>1, <1>3, Zenon
  <2>4. node # Wild
    BY Zenon
  <2> HIDE DEF node, meant, q, p
  <2>5. q[1] # "."
    <3>1. 1 \in 1..Len(q)
      BY <2>1, EmptySeq
    <3> QED  BY <2>1, <3>1, ProperAt
  <2>6. CASE q = Dev
    <3>1. direct = DevRoot /\ DevRoot # NULL
      BY <2>1, <2>5, <2>6, RootChild, NodesApart
    <3> QED  BY <2>1, <2>2, <2>3, <2>6, <3>1, MeantIs, Zenon
  <2>7. CASE q # Dev /\ InArchive(q) # {}
    <3> DEFINE x == Vnode(q, booted[Min(InArchive(q))].size, "tar", "data")
    <3>1. direct \in {x, [x EXCEPT !.size = 0]}
      BY <2>1, <2>5, <2>7, RootChild
    <3>2. meant = x
      BY <2>1, <2>2, <2>7, MeantIs
    <3>3. x.ops = "tar" /\ [x EXCEPT !.size = 0].ops = "tar"
      BY Fields
    <3> HIDE DEF x
    <3>4. direct # NULL
      BY <3>1, <3>3, NodesApart
    <3> QED  BY <2>3, <3>1, <3>2, <3>4, Zenon
  <2>8. CASE q # Dev /\ InArchive(q) = {}
    <3>1. direct = NULL
      BY <2>1, <2>5, <2>8, RootChild
    <3>2. node = Walk(q)
      BY <2>3, <3>1, Zenon
    <3>3. Walk(q) # Wild
      BY <2>4, <3>2, Zenon
    <3> DEFINE dev == Len(q) = 2 /\ q[1] = "dev" /\ q[2] \in Devices
    <3>4. /\ dev => Walk(q) \in {DeviceNode(q[2]), [DeviceNode(q[2]) EXCEPT !.size = 0]}
          /\ ~dev => Walk(q) = NULL
      BY <2>1, <2>8, <3>3, WalkFinds, Zenon
    <3>5. (dev => meant = DeviceNode(q[2])) /\ (~dev => meant = NULL)
      BY <2>1, <2>2, <2>8, MeantIs, Zenon
    <3> HIDE DEF dev
    <3> QED  BY <3>2, <3>4, <3>5, Zenon
  <2> QED  BY <2>6, <2>7, <2>8, Zenon
<1> QED  BY <1>2, <1>3, Zenon

-----------------------------------------------------------------------------
\* The status.

\* A node of the framebuffer has its operations and no other has.
Settled(n) == n.ops = "fb" <=> n.internal = "framebuffer"

LEMMA SettledChild ==
  ASSUME RootHas, DevHas, NEW name
  PROVE  /\ Settled(NULL) /\ Settled(Wild) /\ Settled(Root)
         /\ Settled(Child(children, name)) /\ Settled(Child(dev_children, name))
<1>1. Settled(NULL) /\ Settled(Wild) /\ Settled(Root) /\ Settled(DevRoot)
  BY NodesApart DEF Settled
<1>2. ASSUME NEW i \in 1..Len(children)
      PROVE  Settled(children[i])
  <2>1. CASE i = MountPoint
    BY <1>1, <2>1 DEF RootHas
  <2>2. CASE i # MountPoint
    <3>1. Sized(children[i], Vnode(Unpacked(booted[i].name), booted[i].size, "tar", "data"))
      BY <2>2 DEF RootHas, TarNode
    <3>2. children[i].ops = "tar" /\ children[i].internal = "data"
      BY <3>1, SizedIs
    <3> QED  BY <3>2 DEF Settled
  <2> QED  BY <2>1, <2>2
<1>3. ASSUME NEW i \in 1..Len(dev_children)
      PROVE  Settled(dev_children[i])
  BY DevNode DEF Settled, OpsOf, InternalOf
<1>4. children \in Seq(Node) /\ dev_children \in Seq(Node)
  BY DEF RootHas, DevHas
<1>5. Settled(Child(children, name))
  BY <1>1, <1>2, <1>4, ChildIs
<1>6. Settled(Child(dev_children, name))
  BY <1>1, <1>3, <1>4, ChildIs
<1> QED  BY <1>1, <1>5, <1>6

LEMMA SettledWalk ==
  ASSUME RootHas, DevHas, NEW p, NEW j \in Nat
  PROVE  Settled(Walked(p)[j])
<1> DEFINE w == Walked(p)
           S == {i \in Nat : ~Settled(w[i])}
<1>1. SUFFICES ASSUME S # {} PROVE FALSE
  OBVIOUS
<1>2. PICK i \in S : \A l \in S : i <= l
  <2>1. S \in SUBSET Nat
    OBVIOUS
  <2> HIDE DEF S
  <2> QED  BY <1>1, <2>1, Lowest
<1> HIDE DEF w
<1>3. i \in Nat /\ ~Settled(w[i])
  BY <1>2
<1>4. w[0] = Root /\ \A n \in Nat \ {0} : w[n] = Step(w[n - 1], p[n])
  BY WalkedSteps DEF w
<1>5. i # 0
  BY <1>3, <1>4, SettledChild
<1>6. i \in Nat \ {0} /\ i - 1 \in Nat /\ ~(i <= i - 1)
  BY <1>3, <1>5
<1>7. Settled(w[i - 1])
  BY <1>2, <1>6
<1>8. w[i] = Step(w[i - 1], p[i])
  BY <1>4, <1>6
<1>9. \/ Step(w[i - 1], p[i]) = w[i - 1] \/ Step(w[i - 1], p[i]) = NULL \/ Step(w[i - 1], p[i]) = Wild
      \/ \E dir \in {children, dev_children} : Step(w[i - 1], p[i]) = Child(dir, <<p[i]>>)
  <2> DEFINE v == w[i - 1]
  <2> HIDE DEF v
  <2>1. \/ Step(v, p[i]) = v \/ Step(v, p[i]) = NULL \/ Step(v, p[i]) = Wild
        \/ \E dir \in {children, dev_children} : Step(v, p[i]) = Child(dir, <<p[i]>>)
    BY Zenon DEF Step, ChildrenOf
  <2> QED  BY <2>1 DEF v
<1> QED  BY <1>3, <1>7, <1>8, <1>9, SettledChild, Zenon

LEMMA SettledFound ==
  ASSUME RootHas, DevHas, NEW path \in Text
  PROVE  Settled(vfs_find_vnode(path))
<1> DEFINE p == WithoutLeading(path)
           q == WithoutTrailing(p)
           direct == Child(children, q)
           node == vfs_find_vnode(path)
<1>1. node = Root \/ node = direct \/ node = Walk(q)
  BY Zenon DEF vfs_find_vnode
<1>2. p \in Seq(Words) /\ Len(p) \in Nat /\ Len(p) > 0
  BY LeadingFacts
<1> HIDE DEF p
<1>3. q = (IF Len(p) > 1 /\ p[Len(p)] = "" THEN SubSeq(p, 1, Len(p) - 1) ELSE p)
  BY Zenon DEF WithoutTrailing, Front
<1> HIDE DEF q, node, direct
<1>4. Len(q) \in Nat /\ Len(q) > 0
  <2>1. CASE Len(p) > 1 /\ p[Len(p)] = ""
    <3>1. q = SubSeq(p, 1, Len(p) - 1) /\ Len(p) > 1
      BY <1>3, <2>1, Zenon
    <3> HIDE <2>1
    <3>2. Len(p) - 1 \in Nat /\ Len(p) - 1 > 0 /\ \A i \in 1..(Len(p) - 1) : p[i] \in Words
      BY <1>2, <3>1
    <3>3. Len(q) = Len(p) - 1
      BY <3>1, <3>2, SubSeqProperties
    <3> QED  BY <3>2, <3>3
  <2>2. CASE ~(Len(p) > 1 /\ p[Len(p)] = "")
    BY <1>2, <1>3, <2>2, Zenon
  <2> QED  BY <2>1, <2>2, Zenon
<1>5. \E j \in Nat : Walk(q) = Walked(q)[j]
  <2>1. Len(q) - 1 \in Nat
    BY <1>4
  <2> QED  BY <1>4, <2>1, Zenon DEF Walk
<1>6. Settled(Walk(q))
  BY <1>5, SettledWalk
<1> QED  BY <1>1, <1>6, SettledChild, Zenon DEF node, direct

LEMMA FourDevices == Cardinality(Devices) = 4
<1> DEFINE A == {"fb0"}
           B == A \cup {"stdin"}
           C == B \cup {"stdout"}
           D == C \cup {"stderr"}
<1>1. IsFiniteSet(A) /\ Cardinality(A) = 1
  BY FS_Singleton
<1>2. IsFiniteSet(B) /\ Cardinality(B) = 2
  BY <1>1, FS_AddElement
<1>3. IsFiniteSet(C) /\ Cardinality(C) = 3
  BY <1>2, FS_AddElement
<1>4. Cardinality(D) = 4
  BY <1>3, FS_AddElement
<1>5. Devices = D
  BY Order4
<1> QED  BY <1>4, <1>5

LEMMA StatIs ==
  ASSUME booted \in Archives, RootHas, DevHas, pc = "run", NEW n, Settled(n)
  PROVE  /\ vfs_stat(n).mode = "chr" <=> n.internal = "framebuffer"
         /\ n = DevRoot => vfs_stat(n) = [mode |-> "dir", size |-> Cardinality(Devices)]
         /\ n = Root => vfs_stat(n) = [mode |-> "dir",
                                       size |-> Len(booted) + IF InArchive(Dev) = {} THEN 1 ELSE 0]
<1>1. /\ IsDir(n) => vfs_stat(n) = [mode |-> "dir", size |-> Len(ChildrenOf(n))]
      /\ ~IsDir(n) /\ n.ops = "fb" => vfs_stat(n) = [mode |-> "chr", size |-> n.size]
      /\ ~IsDir(n) /\ n.ops # "fb" => vfs_stat(n) = [mode |-> "reg", size |-> n.size]
  BY DEF vfs_stat
<1>2. IsDir(n) => n.ops # "fb"
  BY DEF IsDir
<1>3. vfs_stat(n).mode = "chr" <=> n.internal = "framebuffer"
  BY <1>1, <1>2 DEF Settled
<1>4. /\ IsDir(Root) /\ IsDir(DevRoot)
      /\ ChildrenOf(Root) = children /\ ChildrenOf(DevRoot) = dev_children
  BY NodesApart DEF IsDir, ChildrenOf
<1>5. Len(dev_children) = Cardinality(Devices)
  BY FourDevices, Order4 DEF DevHas
<1>6. Len(children) = Len(booted) + IF InArchive(Dev) = {} THEN 1 ELSE 0
  <2>1. Dev # <<>> /\ Dev[1] # "."
    BY DevIs, EmptySeq
  <2>2. InArchive(Dev) = Covered
    BY <2>1, DevIs, InArchiveIs DEF Covered
  <2>3. Len(booted) \in Nat
    BY ArchiveFacts
  <2> QED  BY <2>2, <2>3 DEF RootHas
<1> QED  BY <1>1, <1>3, <1>4, <1>5, <1>6, Zenon

-----------------------------------------------------------------------------
\* The steps.

LEMMA Silent ==
  /\ found = Nothing => LookupExact /\ StatExact
  /\ found' = Nothing => LookupExact' /\ StatExact'
<1>1. Nothing.path = <<>> /\ Nothing.stat = <<>>
  BY DEF Nothing
<1> QED  BY <1>1, Zenon DEF LookupExact, StatExact

LEMMA EmptiedIs ==
  ASSUME NEW dir \in Seq(Node), NEW node
  PROVE  /\ Emptied(dir, node) \in Seq(Node) /\ Len(Emptied(dir, node)) = Len(dir)
         /\ \A i \in 1..Len(dir) :
              Emptied(dir, node)[i] = dir[i] \/ Emptied(dir, node)[i] = [dir[i] EXCEPT !.size = 0]
<1> DEFINE m == Min({k \in DOMAIN dir : dir[k].name = node.name})
           e == Emptied(dir, node)
<1>1. e = [i \in DOMAIN dir |-> IF i = m THEN [dir[i] EXCEPT !.size = 0] ELSE dir[i]]
  BY DEF Emptied
<1> HIDE DEF m, e
<1>2. DOMAIN dir = 1..Len(dir) /\ Len(dir) \in Nat
  BY LenProperties
<1>3. \A i \in 1..Len(dir) : e[i] = dir[i] \/ e[i] = [dir[i] EXCEPT !.size = 0]
  BY <1>1, <1>2
<1>4. \A i \in 1..Len(dir) : e[i] \in Node
  <2> SUFFICES ASSUME NEW i \in 1..Len(dir) PROVE e[i] \in Node
    OBVIOUS
  <2>1. dir[i] \in Node
    BY ElementOfSeq
  <2>2. PICK a \in Seq(Words), b \in Nat, c \in Operations, d \in Internals : dir[i] = Vnode(a, b, c, d)
    BY <2>1 DEF Node
  <2>3. [dir[i] EXCEPT !.size = 0] = Vnode(a, 0, c, d)
    BY <2>2, Fields
  <2>4. [dir[i] EXCEPT !.size = 0] \in Node
    <3>1. 0 \in Nat
      OBVIOUS
    <3>2. Vnode(a, 0, c, d) \in Node
      BY <3>1, IsNode
    <3> QED  BY <2>3, <3>2
  <2> QED  BY <1>3, <2>1, <2>4
<1>5. e \in Seq(Node) /\ Len(e) = Len(dir)
  <2>1. DOMAIN e = 1..Len(dir) /\ e = [i \in 1..Len(dir) |-> e[i]]
    BY <1>1, <1>2
  <2> QED  BY <1>2, <1>4, <2>1
<1> QED  BY <1>3, <1>5 DEF e

LEMMA SizedAgain ==
  ASSUME NEW n, NEW a, NEW b, NEW c, NEW d, Sized(n, Vnode(a, b, c, d))
  PROVE  Sized([n EXCEPT !.size = 0], Vnode(a, b, c, d))
<1>1. PICK z \in {b, 0} : n = Vnode(a, z, c, d)
  BY Fields DEF Sized
<1>2. [n EXCEPT !.size = 0] = Vnode(a, 0, c, d)
  BY <1>1, Fields
<1> QED  BY <1>2, Fields DEF Sized

LEMMA SizedSame ==
  ASSUME NEW a, NEW b, NEW c, NEW d
  PROVE  Sized(Vnode(a, b, c, d), Vnode(a, b, c, d))
BY Fields DEF Sized

LEMMA NamesInit == NamespaceInit => NamesInv
<1> SUFFICES ASSUME NamespaceInit PROVE NamesInv
  OBVIOUS
<1>1. booted \in Archives /\ archive = booted /\ children = <<>> /\ dev_children = <<>>
      /\ pc = "tarfs" /\ found = Nothing
  BY DEF NamespaceInit
<1>2. booted \in Seq(Header) /\ Len(booted) \in Nat
  BY <1>1, ArchiveFacts
<1>3. children \in Seq(Node) /\ Len(children) = 0
  BY <1>1, EmptySeq
<1>4. /\ Len(children) + Len(archive) = Len(booted)
      /\ \A i \in 1..Len(archive) : archive[i] = booted[Len(children) + i]
      /\ \A i \in 1..Len(children) : children[i] = TarNode(i)
  BY <1>1, <1>2, <1>3
<1>5. Reading
  BY <1>1, <1>2, <1>3, <1>4 DEF Reading
<1> QED  BY <1>1, <1>5, Silent DEF NamesInv

LEMMA NamesTarEntry ==
  ASSUME NamesInv, TarEntry
  PROVE  NamesInv'
<1> DEFINE h == Head(archive)
           v == Vnode(Unpacked(h.name), h.size, "tar", "data")
           C == Len(children)
<1>1. /\ pc = "tarfs" /\ archive # <<>> /\ children' = Append(children, v) /\ archive' = Tail(archive)
      /\ booted' = booted /\ dev_children' = dev_children /\ pc' = pc /\ found' = found
  BY DEF TarEntry
<1>2. booted \in Archives /\ Reading
  BY <1>1 DEF NamesInv
<1>3. /\ children \in Seq(Node) /\ archive \in Seq(Header) /\ C \in Nat
      /\ C + Len(archive) = Len(booted) /\ Len(archive) \in Nat \ {0}
      /\ dev_children = <<>> /\ found = Nothing
  BY <1>1, <1>2, EmptySeq DEF Reading
<1>4. \A i \in 1..Len(archive) : archive[i] = booted[C + i]
  BY <1>2 DEF Reading
<1>5. h = archive[1] /\ h = booted[C + 1] /\ h \in Header
  BY <1>1, <1>3, <1>4
<1>6. v \in Node /\ v = TarNode(C + 1)
  BY <1>5, HeaderFacts DEF TarNode
<1>7. /\ archive' \in Seq(Header) /\ Len(archive') = Len(archive) - 1
      /\ \A i \in 1..Len(archive') : archive'[i] = archive[i + 1]
  BY <1>1, <1>3, HeadTailProperties
<1> HIDE DEF v, h
<1>8. /\ children' \in Seq(Node) /\ Len(children') = C + 1
      /\ children'[C + 1] = v /\ \A i \in 1..C : children'[i] = children[i]
  BY <1>1, <1>3, <1>6, AppendProperties
<1>9. Len(children') + Len(archive') = Len(booted)
  <2>1. C + Len(archive) = Len(booted) /\ C \in Nat /\ Len(archive) \in Nat
    BY <1>3
  <2>2. Len(archive') = Len(archive) - 1 /\ Len(children') = C + 1
    BY <1>7, <1>8
  <2> HIDE DEF C
  <2> QED  BY <2>1, <2>2
<1>10. \A i \in 1..Len(archive') : archive'[i] = booted[Len(children') + i]
  <2> SUFFICES ASSUME NEW i \in 1..Len(archive') PROVE archive'[i] = booted[Len(children') + i]
    OBVIOUS
  <2>1. i + 1 \in 1..Len(archive) /\ Len(children') + i = C + (i + 1)
    BY <1>3, <1>7, <1>8
  <2> QED  BY <1>4, <1>7, <2>1
<1>11. \A i \in 1..Len(children') : children'[i] = TarNode(i)
  <2> SUFFICES ASSUME NEW i \in 1..Len(children') PROVE children'[i] = TarNode(i)
    OBVIOUS
  <2>1. i = C + 1 \/ i \in 1..C
    BY <1>3, <1>8
  <2>2. \A k \in 1..C : children[k] = TarNode(k)
    BY <1>2 DEF Reading
  <2> QED  BY <1>6, <1>8, <2>1, <2>2
<1>12. \A i : TarNode(i)' = TarNode(i)
  BY <1>1 DEF TarNode
<1>13. Reading'
  BY <1>1, <1>3, <1>7, <1>8, <1>9, <1>10, <1>11, <1>12 DEF Reading
<1> QED  BY <1>1, <1>2, <1>3, <1>13, Silent DEF NamesInv

LEMMA NamesTarDone ==
  ASSUME NamesInv, TarDone
  PROVE  NamesInv'
<1>1. /\ pc = "tarfs" /\ archive = <<>> /\ children' = children /\ archive' = archive
      /\ booted' = booted /\ dev_children' = <<>> /\ pc' = "mount" /\ found' = found
  BY DEF TarDone
<1>2. booted \in Archives /\ Reading
  BY <1>1 DEF NamesInv
<1>3. \A i : TarNode(i)' = TarNode(i)
  BY <1>1 DEF TarNode
<1>4. Reading'
  BY <1>1, <1>2, <1>3 DEF Reading
<1>5. found' = Nothing
  BY <1>1, <1>2 DEF Reading
<1> QED  BY <1>1, <1>2, <1>4, <1>5, Silent DEF NamesInv

LEMMA NamesMountDev ==
  ASSUME NamesInv, MountDev
  PROVE  NamesInv'
<1> DEFINE C == Len(children)
           same == {i \in 1..C : children[i].name = Dev}
<1>1. /\ pc = "mount" /\ children' = Mounted(children, Dev, DevRoot) /\ pc' = "devices"
      /\ booted' = booted /\ dev_children' = dev_children /\ found' = found
  BY DEF MountDev
<1>2. booted \in Archives /\ Reading
  BY <1>1 DEF NamesInv
<1>3. /\ children \in Seq(Node) /\ dev_children = <<>> /\ found = Nothing /\ archive = <<>>
      /\ C + Len(archive) = Len(booted)
  BY <1>1, <1>2 DEF Reading
<1>4. C \in Nat /\ Len(booted) \in Nat /\ C = Len(booted) /\ C < ChildSlots
  <2>1. Len(archive) = 0
    BY <1>3, EmptySeq
  <2>2. C \in Nat
    BY <1>3, LenProperties
  <2>3. Len(booted) \in Nat /\ Len(booted) + 2 <= ChildSlots /\ ChildSlots \in Nat
    BY <1>2, ArchiveFacts, SlotAssumption
  <2>4. C + 0 = Len(booted)
    BY <1>3, <2>1
  <2> HIDE DEF C
  <2> QED  BY <2>2, <2>3, <2>4
<1>5. \A i \in 1..C : children[i] = TarNode(i)
  BY <1>2 DEF Reading
<1>6. \A i \in 1..C : children[i].name = Unpacked(booted[i].name)
  BY <1>5, Fields DEF TarNode
<1>7. same = Covered /\ Covered \in SUBSET Nat /\ Covered \subseteq 1..C
  BY <1>4, <1>6 DEF Covered
<1>8. /\ same # {} => children' = [children EXCEPT ![Min(same)] = DevRoot]
      /\ same = {} => children' = Append(children, DevRoot)
  BY <1>1, <1>4 DEF Mounted
<1>9. DevRoot \in Node
  BY NodeTypes
<1>10. \A i \in 1..C : Sized(TarNode(i), TarNode(i))
  BY SizedSame DEF TarNode
<1> HIDE DEF same
<1>11. RootHas'
  <2>1. /\ Covered' = Covered /\ MountPoint' = MountPoint /\ Len(booted)' = Len(booted)
        /\ \A i : TarNode(i)' = TarNode(i)
    BY <1>1 DEF Covered, MountPoint, TarNode
  <2>2. CASE Covered # {}
    <3> DEFINE m == Min(Covered)
    <3>1. m \in 1..C /\ MountPoint = m
      BY <1>7, <2>2, LowestIs DEF MountPoint
    <3> HIDE DEF m
    <3>2. children' = [children EXCEPT ![m] = DevRoot]
      BY <1>7, <1>8, <2>2 DEF m
    <3>3. /\ children' \in Seq(Node) /\ Len(children') = C
          /\ \A i \in 1..C : children'[i] = IF i = m THEN DevRoot ELSE children[i]
      BY <1>3, <1>9, <3>1, <3>2, ExceptSeq
    <3>4. \A i \in 1..C : IF i = m THEN children'[i] = DevRoot ELSE Sized(children'[i], TarNode(i))
      BY <1>5, <1>10, <3>3
    <3> QED  BY <1>4, <2>1, <2>2, <3>1, <3>3, <3>4 DEF RootHas, Sized
  <2>3. CASE Covered = {}
    <3>1. MountPoint = C + 1
      BY <1>4, <2>3 DEF MountPoint
    <3>2. children' = Append(children, DevRoot)
      BY <1>7, <1>8, <2>3
    <3>3. /\ children' \in Seq(Node) /\ Len(children') = C + 1
          /\ children'[C + 1] = DevRoot /\ \A i \in 1..C : children'[i] = children[i]
      BY <1>3, <1>9, <3>2, AppendProperties
    <3>4. ASSUME NEW i \in 1..(C + 1)
          PROVE  IF i = C + 1 THEN children'[i] = DevRoot ELSE Sized(children'[i], TarNode(i))
      <4>1. i = C + 1 \/ i \in 1..C
        BY <1>4
      <4> QED  BY <1>5, <1>10, <3>3, <4>1
    <3> QED  BY <1>4, <2>1, <2>3, <3>1, <3>3, <3>4 DEF RootHas, Sized
  <2> QED  BY <2>2, <2>3
<1>12. DevHas'
  <2>1. dev_children' = <<>> /\ dev_children' \in Seq(Node) /\ Len(dev_children') = 0 /\ Len(Order) = 4
    BY <1>1, <1>3, EmptySeq, Order4
  <2>2. pc' # "run"
    BY <1>1
  <2>3. Len(dev_children') <= Len(Order) /\ \A i \in 1..Len(dev_children') : FALSE
    BY <2>1
  <2> QED  BY <2>1, <2>2, <2>3 DEF DevHas
<1> QED  BY <1>1, <1>2, <1>3, <1>11, <1>12, Silent DEF NamesInv

\* The directories do not depend on anything else.
LEMMA SameRoot ==
  ASSUME RootHas, booted' = booted, children' = children
  PROVE  RootHas'
<1>1. Covered' = Covered /\ MountPoint' = MountPoint /\ \A i : TarNode(i)' = TarNode(i)
  BY DEF Covered, MountPoint, TarNode
<1> QED  BY <1>1 DEF RootHas, Sized

LEMMA NamesRegister ==
  ASSUME NamesInv, devfs_register
  PROVE  NamesInv'
<1> DEFINE D == Len(dev_children)
           v == DeviceNode(Order[D + 1])
<1>1. /\ pc = "devices" /\ D < Len(Order) /\ dev_children' = Append(dev_children, v)
      /\ booted' = booted /\ children' = children /\ pc' = pc /\ found' = found
  BY DEF devfs_register
<1>2. booted \in Archives /\ RootHas /\ DevHas /\ found = Nothing
  BY <1>1 DEF NamesInv
<1>3. dev_children \in Seq(Node) /\ D \in Nat /\ D + 1 \in 1..4 /\ Len(Order) = 4
  <2>1. dev_children \in Seq(Node) /\ D \in Nat
    BY <1>2, LenProperties DEF DevHas
  <2> HIDE DEF D
  <2> QED  BY <1>1, <2>1, Order4
<1>4. v \in Node /\ Sized(v, DeviceNode(Order[D + 1]))
  BY <1>3, NodeTypes, Order4, SizedSame DEF DeviceNode
<1> HIDE DEF v
<1>5. /\ dev_children' \in Seq(Node) /\ Len(dev_children') = D + 1
      /\ dev_children'[D + 1] = v /\ \A i \in 1..D : dev_children'[i] = dev_children[i]
  BY <1>1, <1>3, <1>4, AppendProperties
<1>6. ASSUME NEW i \in 1..(D + 1)
      PROVE  Sized(dev_children'[i], DeviceNode(Order[i]))
  <2>1. i = D + 1 \/ i \in 1..D
    BY <1>3
  <2> QED  BY <1>2, <1>4, <1>5, <2>1 DEF DevHas
<1>7. Len(dev_children') <= Len(Order) /\ pc' # "run"
  <2>1. Len(dev_children') = D + 1 /\ D + 1 \in 1..4
    BY <1>3, <1>5
  <2> QED  BY <1>1, <2>1, Order4
<1>8. DevHas'
  BY <1>5, <1>6, <1>7 DEF DevHas, Sized
<1>9. RootHas'
  BY <1>1, <1>2, SameRoot
<1> QED  BY <1>1, <1>2, <1>8, <1>9, Silent DEF NamesInv

LEMMA NamesDevicesDone ==
  ASSUME NamesInv, DevicesDone
  PROVE  NamesInv'
<1>1. /\ pc = "devices" /\ Len(dev_children) = Len(Order) /\ dev_children' = dev_children
      /\ booted' = booted /\ children' = children /\ pc' = "run" /\ found' = found
  BY DEF DevicesDone
<1>2. booted \in Archives /\ RootHas /\ DevHas /\ found = Nothing
  BY <1>1 DEF NamesInv
<1>3. RootHas' /\ DevHas'
  BY <1>1, <1>2, SameRoot DEF DevHas, Sized
<1> QED  BY <1>1, <1>2, <1>3, Silent DEF NamesInv

\* What a call finds is as LookupExact says in the state after it.
LEMMA CallLooksUp ==
  ASSUME booted \in Archives, RootHas, DevHas, pc = "run", NEW path \in Paths, booted' = booted,
         found'.path = path, found'.node = vfs_find_vnode(path)
  PROVE  LookupExact'
<1>1. path \in Text
  BY PathAssumption
<1>2. \A p : InArchive(p)' = InArchive(p)
  BY DEF InArchive
<1>3. Meant(Names(path))' = Meant(Names(path))
  <2> DEFINE s == Names(path)
  <2> HIDE DEF s
  <2>1. Meant(s)' = Meant(s)
    BY <1>2 DEF Meant
  <2>2. s' = s
    BY DEF s, Names
  <2> QED  BY <2>1, <2>2 DEF s
<1>4. ASSUME Plain(path), found'.node # Wild
      PROVE  LET meant == Meant(Names(path)) IN found'.node \in {meant, [meant EXCEPT !.size = 0]}
  BY <1>1, <1>4, LookupFinds, Zenon
<1> QED  BY <1>3, <1>4, Zenon DEF LookupExact

LEMMA NamesStat ==
  ASSUME NamesInv, NEW path \in Paths, do_sys_stat(path)
  PROVE  NamesInv'
<1> DEFINE node == vfs_find_vnode(path)
           s == IF node \in {NULL, Wild} THEN <<>> ELSE vfs_stat(node)
<1>1. /\ pc = "run" /\ found' = [path |-> path, node |-> node, stat |-> s]
      /\ booted' = booted /\ children' = children /\ dev_children' = dev_children /\ pc' = pc
  BY DEF do_sys_stat
<1>2. booted \in Archives /\ RootHas /\ DevHas
  BY <1>1 DEF NamesInv
<1>3. found'.path = path /\ found'.node = node /\ found'.stat = s
  <2> HIDE DEF node, s
  <2> QED  BY <1>1
<1>4. LookupExact'
  BY <1>1, <1>2, <1>3, CallLooksUp
<1>5. RootHas' /\ DevHas'
  BY <1>1, <1>2, SameRoot DEF DevHas, Sized
<1>6. Settled(node) /\ path \in Text
  BY <1>2, PathAssumption, SettledFound
<1>7. StatExact'
  <2> HIDE DEF node
  <2>1. CASE node \in {NULL, Wild}
    <3>1. found'.stat = <<>>
      BY <1>3, <2>1, Zenon
    <3> QED  BY <3>1, Zenon DEF StatExact
  <2>2. CASE node \notin {NULL, Wild}
    <3>1. found'.stat = vfs_stat(node)
      BY <1>3, <2>2, Zenon
    <3> DEFINE count == Len(booted) + IF InArchive(Dev) = {} THEN 1 ELSE 0
    <3>2. /\ vfs_stat(node).mode = "chr" <=> node.internal = "framebuffer"
          /\ node = DevRoot => vfs_stat(node) = [mode |-> "dir", size |-> Cardinality(Devices)]
          /\ node = Root => vfs_stat(node) = [mode |-> "dir", size |-> count]
      BY <1>1, <1>2, <1>6, StatIs
    <3>3. count' = count
      BY <1>1 DEF InArchive
    <3>4. (vfs_stat(node).mode = "chr") = (node.internal = "framebuffer")
      BY <3>2, Zenon
    <3>5. (found'.stat.mode = "chr") = (found'.node.internal = "framebuffer")
      BY <1>3, <3>1, <3>4, Zenon
    <3>6. found'.node = DevRoot => found'.stat = [mode |-> "dir", size |-> Cardinality(Devices)]
      BY <1>3, <3>1, <3>2, Zenon
    <3>7. found'.node = Root => found'.stat = [mode |-> "dir", size |-> count']
      BY <1>3, <3>1, <3>2, <3>3, Zenon
    <3> QED  BY <3>5, <3>6, <3>7, Zenon DEF StatExact
  <2> QED  BY <2>1, <2>2, Zenon
<1> QED  BY <1>1, <1>2, <1>4, <1>5, <1>7, Zenon DEF NamesInv

LEMMA NamesOpen ==
  ASSUME NamesInv, NEW path \in Paths, NEW trunc \in BOOLEAN, vfs_open(path, trunc)
  PROVE  NamesInv'
<1> DEFINE node == vfs_find_vnode(path)
<1>1. /\ pc = "run" /\ found' = [path |-> path, node |-> node, stat |-> <<>>]
      /\ booted' = booted /\ pc' = pc
      /\ children' = children \/ children' = Emptied(children, node)
      /\ dev_children' = dev_children \/ dev_children' = Emptied(dev_children, node)
  BY Zenon DEF vfs_open
<1>2. booted \in Archives /\ RootHas /\ DevHas
  BY <1>1 DEF NamesInv
<1>3. found'.path = path /\ found'.node = node /\ found'.stat = <<>>
  <2> HIDE DEF node
  <2> QED  BY <1>1
<1>4. LookupExact'
  BY <1>1, <1>2, <1>3, CallLooksUp
<1>5. StatExact'
  BY <1>3, Zenon DEF StatExact
<1> HIDE DEF node
<1>6. RootHas'
  <2>1. CASE children' = children
    BY <1>1, <1>2, <2>1, SameRoot
  <2>2. CASE children' = Emptied(children, node)
    <3>1. children \in Seq(Node)
      BY <1>2 DEF RootHas
    <3>2. /\ children' \in Seq(Node) /\ Len(children') = Len(children)
          /\ \A i \in 1..Len(children) :
               children'[i] = children[i] \/ children'[i] = [children[i] EXCEPT !.size = 0]
      BY <2>2, <3>1, EmptiedIs
    <3>3. Covered' = Covered /\ MountPoint' = MountPoint /\ \A i : TarNode(i)' = TarNode(i)
      BY <1>1 DEF Covered, MountPoint, TarNode
    <3>4. ASSUME NEW i \in 1..Len(children)
          PROVE  IF i = MountPoint THEN children'[i] = DevRoot ELSE Sized(children'[i], TarNode(i))
      <4>1. CASE i = MountPoint
        <5>1. children[i] = DevRoot
          BY <1>2, <4>1 DEF RootHas
        <5> QED  BY <3>2, <4>1, <5>1, NodesApart
      <4>2. CASE i # MountPoint
        <5>1. Sized(children[i], TarNode(i))
          BY <1>2, <4>2 DEF RootHas
        <5>2. Sized([children[i] EXCEPT !.size = 0], TarNode(i))
          BY <5>1, SizedAgain DEF TarNode
        <5> QED  BY <3>2, <4>2, <5>1, <5>2
      <4> QED  BY <4>1, <4>2
    <3> QED  BY <1>1, <1>2, <3>2, <3>3, <3>4 DEF RootHas, Sized
  <2> QED  BY <1>1, <2>1, <2>2
<1>7. DevHas'
  <2>1. CASE dev_children' = dev_children
    BY <1>1, <1>2, <2>1 DEF DevHas, Sized
  <2>2. CASE dev_children' = Emptied(dev_children, node)
    <3>1. dev_children \in Seq(Node)
      BY <1>2 DEF DevHas
    <3>2. /\ dev_children' \in Seq(Node) /\ Len(dev_children') = Len(dev_children)
          /\ \A i \in 1..Len(dev_children) :
               dev_children'[i] = dev_children[i] \/ dev_children'[i] = [dev_children[i] EXCEPT !.size = 0]
      BY <2>2, <3>1, EmptiedIs
    <3>3. ASSUME NEW i \in 1..Len(dev_children)
          PROVE  Sized(dev_children'[i], DeviceNode(Order[i]))
      <4>1. Sized(dev_children[i], DeviceNode(Order[i]))
        BY <1>2 DEF DevHas
      <4>2. Sized([dev_children[i] EXCEPT !.size = 0], DeviceNode(Order[i]))
        BY <4>1, SizedAgain DEF DeviceNode
      <4> QED  BY <3>2, <4>1, <4>2
    <3> QED  BY <1>1, <1>2, <3>2, <3>3 DEF DevHas, Sized
  <2> QED  BY <1>1, <2>1, <2>2
<1> QED  BY <1>1, <1>2, <1>4, <1>5, <1>6, <1>7, Zenon DEF NamesInv

LEMMA NamesStep ==
  ASSUME NamesInv, [NamespaceNext]_namespaceVars
  PROVE  NamesInv'
<1>1. CASE UNCHANGED namespaceVars
  <2>1. /\ booted' = booted /\ archive' = archive /\ children' = children
        /\ dev_children' = dev_children /\ pc' = pc /\ found' = found
    BY <1>1 DEF namespaceVars
  <2>2. \A i : TarNode(i)' = TarNode(i)
    BY <2>1 DEF TarNode
  <2>3. Reading => Reading'
    BY <2>1, <2>2 DEF Reading
  <2>4. (RootHas => RootHas') /\ (DevHas => DevHas')
    BY <2>1, SameRoot DEF DevHas, Sized
  <2>5. LookupExact'
    <3>1. \A p : InArchive(p)' = InArchive(p)
      BY <2>1 DEF InArchive
    <3>2. \A p : Meant(p)' = Meant(p)
      BY <2>1, <3>1 DEF Meant
    <3>3. LookupExact
      BY DEF NamesInv
    <3> QED  BY <2>1, <3>2, <3>3, Zenon DEF LookupExact, Names
  <2>6. StatExact'
    <3>1. InArchive(Dev)' = InArchive(Dev)
      BY <2>1 DEF InArchive
    <3>2. StatExact
      BY DEF NamesInv
    <3> QED  BY <2>1, <3>1, <3>2, Zenon DEF StatExact
  <2> QED  BY <2>1, <2>3, <2>4, <2>5, <2>6, Zenon DEF NamesInv
<1> QED
  BY <1>1, NamesTarEntry, NamesTarDone, NamesMountDev, NamesRegister, NamesDevicesDone,
     NamesStat, NamesOpen DEF NamespaceNext

LEMMA NamesInvariant == NamespaceSpec => []NamesInv
<1>1. NamesInv /\ [NamespaceNext]_namespaceVars => NamesInv'
  BY NamesStep
<1> QED  BY <1>1, NamesInit, PTL DEF NamespaceSpec

\* vfs_find_vnode (vfs.c) finds, for every archive and every path without empty
\* or "." names, the vnode that the path's names mean, with or without a slash at
\* either end, and whatever was truncated before.
THEOREM LookupsExact == NamespaceSpec => []LookupExact
<1>1. NamesInv => LookupExact
  BY DEF NamesInv
<1> QED  BY <1>1, NamesInvariant, PTL

\* vfs_stat (vfs.c) counts every device and every entry of the archive, and calls
\* only the framebuffer a character device, whatever was truncated before.
THEOREM StatusExact == NamespaceSpec => []StatExact
<1>1. NamesInv => StatExact
  BY DEF NamesInv
<1> QED  BY <1>1, NamesInvariant, PTL
=============================================================================
