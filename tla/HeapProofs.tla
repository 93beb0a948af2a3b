----------------------------- MODULE HeapProofs -----------------------------
(***************************************************************************)
(* Proofs about the kernel heap for every size_t width, every set of       *)
(* request sizes below MaxRequest and any amount of physical memory.       *)
(* IInv is inductive as it stands; the arithmetic of rounding and of the   *)
(* page count is in two lemmas.                                            *)
(***************************************************************************)
EXTENDS Heap, SequenceTheorems, TLAPS

\* A rounded request is a natural number no smaller than the request: the
\* addition of 15 does not wrap for a request kmalloc may be asked for.
LEMMA Rounding ==
  ASSUME NEW n \in 0..MaxRequest
  PROVE  Round16(n) \in Nat /\ n <= Round16(n) /\ Round16(n) <= n + 15
BY SizeAssumption DEF Round16, Wrap, MaxRequest

\* The pages computed for a rounded request hold its header and its bytes.
LEMMA Paging ==
  ASSUME NEW size \in Nat, size <= MaxRequest + 15
  PROVE  /\ PagesFor(size) \in Nat /\ PagesFor(size) >= 1
         /\ PagesFor(size) * PAGE_SIZE >= size + Header
BY SizeAssumption DEF PagesFor, Wrap, MaxRequest, PAGE_SIZE, Header

\* Replacing one element of a sequence changes nothing else in it.
LEMMA Replacement ==
  ASSUME NEW S, NEW s \in Seq(S), NEW i \in 1..Len(s), NEW r \in S, NEW t,
         t = [s EXCEPT ![i] = r]
  PROVE  /\ t \in Seq(S) /\ Len(t) = Len(s) /\ t[i] = r
         /\ \A j \in 1..Len(s) : j # i => t[j] = s[j]
OBVIOUS

\* Changing the free flag of one block changes nothing else in the list.
LEMMA FlagChange ==
  ASSUME NEW i \in 1..Len(blocks), blocks \in Seq(Block), NEW f,
         f = TRUE \/ f = FALSE, blocks' = [blocks EXCEPT ![i].free = f]
  PROVE  /\ blocks' \in Seq(Block) /\ Len(blocks') = Len(blocks)
         /\ blocks'[i].free = f
         /\ \A j \in 1..Len(blocks) : /\ blocks'[j].base = blocks[j].base
                                      /\ blocks'[j].pages = blocks[j].pages
                                      /\ blocks'[j].size = blocks[j].size
                                      /\ j # i => blocks'[j] = blocks[j]
<1> DEFINE r == [blocks[i] EXCEPT !.free = f]
<1>1. blocks' = [blocks EXCEPT ![i] = r]
  OBVIOUS
<1>2. blocks[i] \in Block
  BY ElementOfSeq
<1>3. /\ r \in Block /\ r.base = blocks[i].base /\ r.pages = blocks[i].pages
      /\ r.size = blocks[i].size /\ r.free = f
  BY <1>2 DEF Block
<1> HIDE DEF r
<1>4. /\ blocks' \in Seq(Block) /\ Len(blocks') = Len(blocks) /\ blocks'[i] = r
      /\ \A j \in 1..Len(blocks) : j # i => blocks'[j] = blocks[j]
  BY <1>1, <1>3, Replacement
<1> QED  BY <1>3, <1>4

\* Every listed block is a block.
LEMMA BlockTypes ==
  ASSUME TypeOK
  PROVE  \A j \in 1..Len(blocks) : /\ blocks[j].base \in Nat /\ blocks[j].pages \in Nat
                                   /\ blocks[j].size \in Nat
<1> SUFFICES ASSUME NEW j \in 1..Len(blocks) PROVE blocks[j] \in Block
  BY DEF Block
<1> QED  BY ElementOfSeq DEF TypeOK

\* The empty heap satisfies the invariant.
LEMMA InitIInv == Init => IInv
<1> SUFFICES ASSUME Init PROVE IInv
  OBVIOUS
<1>1. panicked \in BOOLEAN
  BY Zenon DEF Init
<1>2. TypeOK
  BY <1>1, SizeAssumption DEF Init, TypeOK
<1> QED  BY <1>2 DEF Init, IInv, RegionsApart, FreeMeansUnheld, HeldFits

\* kmalloc keeps the invariant, whether it reuses, grows or panics.
LEMMA KmallocIInv ==
  ASSUME IInv, NEW n \in 0..MaxRequest, kmalloc(n)
  PROVE  IInv'
<1> DEFINE size == Round16(n)
<1>0. size \in Nat /\ n <= size /\ size <= n + 15 /\ size <= MaxRequest + 15
  BY Rounding, SizeAssumption
<1>1. n \in Nat /\ n # Nobody
  BY SizeAssumption DEF Nobody
<1>2. CASE Reuse(size, n)
  <2>1. PICK i \in Fitting(size) : /\ blocks' = [blocks EXCEPT ![i].free = FALSE]
                                   /\ holder' = [holder EXCEPT ![i] = n]
    BY <1>2 DEF Reuse, MarkUsed
  <2>2. /\ i \in 1..Len(blocks) /\ blocks[i].size >= size
        /\ UNCHANGED <<cursor, physLeft, panicked>>
    BY <1>2 DEF Fitting, Fits, Reuse
  <2> HIDE DEF size
  <2>a. blocks \in Seq(Block)
    BY DEF IInv, TypeOK
  <2>b. /\ blocks' \in Seq(Block) /\ Len(blocks') = Len(blocks)
        /\ \A j \in 1..Len(blocks) : /\ blocks'[j].base = blocks[j].base
                                     /\ blocks'[j].pages = blocks[j].pages
                                     /\ blocks'[j].size = blocks[j].size
                                     /\ j # i => blocks'[j] = blocks[j]
    BY <2>a, <2>1, <2>2, FlagChange
  <2>d. blocks'[i].free = FALSE
    BY <2>a, <2>1, <2>2, FlagChange
  <2>c. /\ holder' \in Seq(Nat \cup {Nobody}) /\ Len(holder') = Len(holder)
        /\ \A j \in 1..Len(blocks) : holder'[j] = (IF j = i THEN n ELSE holder[j])
    BY <2>1, <2>2, <1>1 DEF IInv, TypeOK
  <2>3. TypeOK'
    BY <2>b, <2>c, <2>2 DEF IInv, TypeOK
  <2>4. \A j \in 1..Len(blocks) : /\ blocks'[j].base = blocks[j].base
                                  /\ blocks'[j].pages = blocks[j].pages
                                  /\ blocks'[j].size = blocks[j].size
                                  /\ j # i => blocks'[j] = blocks[j]
                                  /\ holder'[j] = (IF j = i THEN n ELSE holder[j])
    BY <2>b, <2>c
  <2>5. Len(blocks') = Len(blocks)
    BY <2>b
  <2>6. RegionsApart'
    BY <2>2, <2>4, <2>5 DEF IInv, RegionsApart
  <2>7. FreeMeansUnheld'
    BY <2>d, <2>2, <2>4, <2>5, <1>1 DEF IInv, FreeMeansUnheld
  <2>8. HeldFits'
    <3>1. n <= blocks[i].size
      BY <2>2, <1>0, <1>1, BlockTypes DEF IInv
    <3> QED  BY <3>1, <2>2, <2>4, <2>5 DEF IInv, HeldFits
  <2> QED  BY <2>3, <2>6, <2>7, <2>8 DEF IInv
<1>3. CASE Grow(size, n)
  <2> DEFINE pages == PagesFor(size)
             b == [base |-> cursor, pages |-> pages,
                   size |-> pages * PAGE_SIZE - Header, free |-> FALSE]
  <2>1. pages \in Nat /\ pages >= 1 /\ pages * PAGE_SIZE >= size + Header
    BY <1>0, Paging
  <2>2. /\ blocks' = Append(blocks, b) /\ holder' = Append(holder, n)
        /\ pages <= physLeft /\ physLeft' = physLeft - pages
        /\ cursor' = cursor + pages + 1 /\ UNCHANGED panicked
    BY <1>3 DEF Grow, GuardAfter
  <2> HIDE DEF size, pages
  <2>3. b \in Block
    BY <2>1, <1>0 DEF Block, IInv, TypeOK, PAGE_SIZE, Header
  <2>a. b.base = cursor /\ b.pages = pages /\ b.size = pages * PAGE_SIZE - Header /\ b.free = FALSE
    OBVIOUS
  <2> HIDE DEF b
  <2>4. TypeOK'
    <3>1. blocks' \in Seq(Block) /\ holder' \in Seq(Nat \cup {Nobody}) /\ Len(holder') = Len(blocks')
      BY <2>2, <2>3, <1>1 DEF IInv, TypeOK
    <3>2. cursor' \in Nat /\ physLeft' \in Nat /\ panicked' \in BOOLEAN
      BY <2>1, <2>2 DEF IInv, TypeOK
    <3> QED  BY <3>1, <3>2 DEF TypeOK
  <2>5. /\ Len(blocks') = Len(blocks) + 1 /\ Len(blocks) \in Nat
        /\ blocks'[Len(blocks) + 1] = b /\ holder'[Len(blocks) + 1] = n
        /\ \A j \in 1..Len(blocks) : blocks'[j] = blocks[j] /\ holder'[j] = holder[j]
    BY <2>2, <2>3, <1>1 DEF IInv, TypeOK
  <2>6. RegionsApart'
    <3>1. ASSUME NEW j \in 1..Len(blocks')
          PROVE  /\ blocks'[j].base + blocks'[j].pages < cursor'
                 /\ blocks'[j].pages >= 1
                 /\ blocks'[j].size + Header = blocks'[j].pages * PAGE_SIZE
      <4>1. CASE j = Len(blocks) + 1
        BY <4>1, <2>a, <2>1, <2>2, <2>5 DEF IInv, TypeOK, PAGE_SIZE, Header
      <4>2. CASE j \in 1..Len(blocks)
        BY <4>2, <2>1, <2>2, <2>5, BlockTypes DEF IInv, TypeOK, RegionsApart
      <4> QED  BY <4>1, <4>2, <2>5
    <3>2. ASSUME NEW j \in 1..Len(blocks'), NEW k \in 1..Len(blocks'), j < k
          PROVE  blocks'[j].base + blocks'[j].pages < blocks'[k].base
      <4>1. CASE k = Len(blocks) + 1
        BY <4>1, <3>2, <2>a, <2>5 DEF IInv, RegionsApart
      <4>2. CASE k \in 1..Len(blocks)
        BY <4>2, <3>2, <2>5 DEF IInv, RegionsApart
      <4> QED  BY <4>1, <4>2, <2>5
    <3> QED  BY <3>1, <3>2 DEF RegionsApart
  <2>7. FreeMeansUnheld'
    BY <2>5, <2>a, <1>1 DEF IInv, FreeMeansUnheld
  <2>8. HeldFits'
    BY <2>5, <2>a, <2>1, <1>0, <1>1 DEF IInv, HeldFits, PAGE_SIZE, Header
  <2> QED  BY <2>4, <2>6, <2>7, <2>8 DEF IInv
<1>4. CASE Exhaust(size)
  <2>1. /\ panicked' = TRUE /\ cursor' = cursor + physLeft /\ physLeft' = 0
        /\ blocks' = blocks /\ holder' = holder
    BY <1>4 DEF Exhaust
  <2>2. cursor' \in Nat /\ physLeft' \in Nat /\ cursor' >= cursor
    BY <2>1 DEF IInv, TypeOK
  <2>3. panicked' \in BOOLEAN
    BY <2>1, Zenon
  <2>4. TypeOK'
    BY <2>1, <2>2, <2>3 DEF IInv, TypeOK
  <2>5. RegionsApart'
    BY <2>1, <2>2, BlockTypes DEF IInv, TypeOK, RegionsApart
  <2> QED  BY <2>1, <2>4, <2>5 DEF IInv, FreeMeansUnheld, HeldFits
<1> QED  BY <1>2, <1>3, <1>4 DEF kmalloc, Alloc

\* kfree of a live pointer keeps the invariant.
LEMMA KfreeIInv ==
  ASSUME IInv, NEW i \in 1..Len(blocks), kfree(i)
  PROVE  IInv'
<1>1. /\ blocks' = [blocks EXCEPT ![i].free = TRUE]
      /\ holder' = [holder EXCEPT ![i] = Nobody]
      /\ UNCHANGED <<cursor, physLeft, panicked>>
  BY DEF kfree
<1>a. blocks \in Seq(Block)
  BY DEF IInv, TypeOK
<1>b. /\ blocks' \in Seq(Block) /\ Len(blocks') = Len(blocks)
      /\ \A j \in 1..Len(blocks) : /\ blocks'[j].base = blocks[j].base
                                   /\ blocks'[j].pages = blocks[j].pages
                                   /\ blocks'[j].size = blocks[j].size
                                   /\ j # i => blocks'[j] = blocks[j]
  BY <1>a, <1>1, FlagChange
<1>d. blocks'[i].free = TRUE
  BY <1>a, <1>1, FlagChange
<1>c. /\ holder' \in Seq(Nat \cup {Nobody}) /\ Len(holder') = Len(holder)
      /\ \A j \in 1..Len(blocks) : holder'[j] = (IF j = i THEN Nobody ELSE holder[j])
  BY <1>1 DEF IInv, TypeOK
<1>2. TypeOK'
  BY <1>1, <1>b, <1>c DEF IInv, TypeOK
<1>3. /\ Len(blocks') = Len(blocks)
      /\ \A j \in 1..Len(blocks) : /\ blocks'[j].base = blocks[j].base
                                   /\ blocks'[j].pages = blocks[j].pages
                                   /\ blocks'[j].size = blocks[j].size
                                   /\ j # i => blocks'[j] = blocks[j]
                                   /\ holder'[j] = (IF j = i THEN Nobody ELSE holder[j])
  BY <1>b, <1>c
<1>4. RegionsApart'
  BY <1>1, <1>3 DEF IInv, RegionsApart
<1>5. FreeMeansUnheld'
  BY <1>3, <1>d DEF IInv, FreeMeansUnheld
<1>6. HeldFits'
  BY <1>3 DEF IInv, HeldFits
<1> QED  BY <1>2, <1>4, <1>5, <1>6 DEF IInv

\* A product kcalloc passes on is a request kmalloc may be asked for.
LEMMA Products ==
  ASSUME NEW n \in Counts, NEW s \in Requests, n * s <= MaxRequest
  PROVE  n * s \in 0..MaxRequest
<1>1. n \in Nat /\ s \in Nat
  BY RequestAssumption
<1>2. n * s \in Nat
  BY <1>1
<1> QED  BY <1>2, SizeAssumption

\* The invariant is inductive.
LEMMA NextIInv == IInv /\ [Next]_vars => IInv'
<1> SUFFICES ASSUME IInv, [Next]_vars PROVE IInv'
  OBVIOUS
<1>1. CASE UNCHANGED vars
  BY <1>1 DEF vars, IInv, TypeOK, RegionsApart, FreeMeansUnheld, HeldFits
<1>2. CASE \E n \in Requests : kmalloc(n)
  BY <1>2, KmallocIInv, RequestAssumption
<1>3. ASSUME NEW n \in Counts, NEW s \in Requests,
             Overflows(n, s) \/ n * s <= MaxRequest, kcalloc(n, s)
      PROVE  IInv'
  <2>1. CASE UNCHANGED vars
    BY <2>1, <1>1
  <2>2. CASE ~Overflows(n, s) /\ kmalloc(n * s)
    BY <2>2, <1>3, Products, KmallocIInv
  <2> QED  BY <1>3, <2>1, <2>2 DEF kcalloc
<1>4. CASE \E i \in 1..Len(blocks) : kfree(i)
  BY <1>4, KfreeIInv
<1> QED  BY <1>1, <1>2, <1>3, <1>4 DEF Next

\* Whatever is allocated and freed in whatever order, heap regions stay apart
\* with a guard page between them, a block is free exactly when nobody holds
\* it, and the block behind a pointer is as large as was asked for.
THEOREM HeapSound == Spec => [](TypeOK /\ RegionsApart /\ FreeMeansUnheld /\ HeldFits)
<1>1. IInv => TypeOK /\ RegionsApart /\ FreeMeansUnheld /\ HeldFits
  BY DEF IInv
<1> QED  BY <1>1, InitIInv, NextIInv, PTL DEF Spec
-----------------------------------------------------------------------------
AllClear == \A i, j \in Held : i # j => Abstract!Clear(Object(i), Object(j))

\* Two held blocks are clear of each other, header to last byte asked for.
LEMMA HeldClear == IInv => AllClear
<1> SUFFICES ASSUME IInv, NEW i \in Held, NEW j \in Held, i < j
             PROVE  Object(i).at + Object(i).len < Object(j).at
  BY DEF AllClear, Abstract!Clear, Held, IInv, TypeOK
<1>1. i \in 1..Len(blocks) /\ j \in 1..Len(blocks) /\ holder[i] # Nobody
  BY DEF Held
<1>2. /\ blocks[i].base \in Nat /\ blocks[i].pages \in Nat /\ blocks[i].size \in Nat
      /\ blocks[j].base \in Nat /\ holder[i] \in Nat
  BY <1>1, BlockTypes, ElementOfSeq DEF IInv, TypeOK
<1>3. /\ blocks[i].base + blocks[i].pages < blocks[j].base
      /\ blocks[i].size + 32 = blocks[i].pages * 4096
      /\ holder[i] <= blocks[i].size
  BY <1>1 DEF IInv, RegionsApart, HeldFits, PAGE_SIZE, Header
<1>4. (blocks[i].base * 4096 + 32) + holder[i] < blocks[j].base * 4096 + 32
  BY <1>2, <1>3
<1> QED  BY <1>4 DEF Object, PAGE_SIZE, Header

\* A step that makes one more block held, and moves none, creates an object.
LEMMA MallocStep ==
  ASSUME IInv, IInv', ~panicked, panicked' = panicked, NEW i, i \notin Held,
         Held' = Held \cup {i}, \A j \in Held : Object(j)' = Object(j)
  PROVE  Abstract!Malloc
<1> DEFINE o == Object(i)'
<1>1. Live' = Live \cup {o} /\ o \in Live'
  BY DEF Live
<1>2. ASSUME NEW p \in Live PROVE Abstract!Clear(o, p)
  <2>1. PICK j \in Held : p = Object(j)
    BY DEF Live
  <2>2. i \in Held' /\ j \in Held' /\ i # j
    BY <2>1
  <2>3. AllClear'
    BY HeldClear, PTL
  <2> QED  BY <2>1, <2>2, <2>3 DEF AllClear, Abstract!Clear
<1> QED  BY <1>1, <1>2 DEF Abstract!Malloc

\* kmalloc creates an object or stops.
LEMMA KmallocStep ==
  ASSUME IInv, IInv', NEW n \in 0..MaxRequest, kmalloc(n)
  PROVE  Abstract!Next
<1> DEFINE size == Round16(n)
<1>1. n \in Nat /\ n # Nobody /\ ~panicked
  BY SizeAssumption DEF Nobody, kmalloc
<1>2. CASE Reuse(size, n)
  <2>1. PICK i \in Fitting(size) : /\ blocks' = [blocks EXCEPT ![i].free = FALSE]
                                   /\ holder' = [holder EXCEPT ![i] = n]
    BY <1>2 DEF Reuse, MarkUsed
  <2>2. /\ i \in 1..Len(blocks) /\ holder[i] = Nobody /\ blocks \in Seq(Block)
        /\ holder \in Seq(Nat \cup {Nobody}) /\ Len(holder) = Len(blocks)
        /\ panicked' = panicked
    BY <1>2 DEF Reuse, Fitting, Fits, IInv, TypeOK, FreeMeansUnheld
  <2> HIDE DEF size
  <2>3. /\ Len(blocks') = Len(blocks)
        /\ \A j \in 1..Len(blocks) : blocks'[j].base = blocks[j].base
    BY <2>1, <2>2, FlagChange
  <2>4. \A j \in 1..Len(blocks) : holder'[j] = IF j = i THEN n ELSE holder[j]
    BY <2>1, <2>2
  <2>5. i \notin Held /\ Held' = Held \cup {i}
    BY <2>2, <2>3, <2>4, <1>1 DEF Held
  <2>6. \A j \in Held : Object(j)' = Object(j)
    BY <2>2, <2>3, <2>4 DEF Held, Object
  <2> QED  BY <1>1, <2>2, <2>5, <2>6, MallocStep DEF Abstract!Next
<1>3. CASE Grow(size, n)
  <2> DEFINE pages == PagesFor(size)
             b == [base |-> cursor, pages |-> pages,
                   size |-> pages * PAGE_SIZE - Header, free |-> FALSE]
             i == Len(blocks) + 1
  <2>1. blocks' = Append(blocks, b) /\ holder' = Append(holder, n) /\ panicked' = panicked
    BY <1>3 DEF Grow
  <2>2. /\ blocks \in Seq(Block) /\ blocks' \in Seq(Block)
        /\ holder \in Seq(Nat \cup {Nobody}) /\ Len(holder) = Len(blocks)
    BY DEF IInv, TypeOK
  <2> HIDE DEF size, pages, b
  <2>3. /\ Len(blocks') = i /\ Len(blocks) \in Nat /\ holder'[i] = n
        /\ \A j \in 1..Len(blocks) : blocks'[j] = blocks[j] /\ holder'[j] = holder[j]
    BY <2>1, <2>2, <1>1
  <2>4. i \notin Held /\ Held' = Held \cup {i}
    BY <2>3, <1>1 DEF Held
  <2>5. \A j \in Held : Object(j)' = Object(j)
    BY <2>3 DEF Held, Object
  <2> QED  BY <1>1, <2>1, <2>4, <2>5, MallocStep DEF Abstract!Next
<1>4. CASE Exhaust(size)
  BY <1>1, <1>4 DEF Exhaust, Abstract!Next, Abstract!Stop, Live, Held, Object
<1> QED  BY <1>2, <1>3, <1>4 DEF kmalloc, Alloc

\* kfree ends one object and no other.
LEMMA KfreeStep ==
  ASSUME IInv, NEW i \in 1..Len(blocks), kfree(i)
  PROVE  Abstract!Free
<1>1. /\ blocks' = [blocks EXCEPT ![i].free = TRUE]
      /\ holder' = [holder EXCEPT ![i] = Nobody]
      /\ panicked' = panicked /\ ~panicked /\ i \in Held
      /\ blocks \in Seq(Block) /\ holder \in Seq(Nat \cup {Nobody}) /\ Len(holder) = Len(blocks)
  BY DEF kfree, Held, IInv, TypeOK
<1>2. /\ Len(blocks') = Len(blocks)
      /\ \A j \in 1..Len(blocks) : blocks'[j].base = blocks[j].base
  BY <1>1, FlagChange
<1>3. \A j \in 1..Len(blocks) : holder'[j] = IF j = i THEN Nobody ELSE holder[j]
  BY <1>1
<1>4. Held' = Held \ {i} /\ \A j \in Held' : Object(j)' = Object(j)
  BY <1>2, <1>3 DEF Held, Object
<1>5. \A j \in Held : j # i => Object(j) # Object(i)
  <2> SUFFICES ASSUME NEW j \in Held, j # i, Object(j) = Object(i) PROVE FALSE
    OBVIOUS
  <2>1. Abstract!Clear(Object(i), Object(j))
    BY <1>1, HeldClear DEF AllClear
  <2>2. Object(i).at \in Nat /\ Object(i).len \in Nat
    BY <1>1, BlockTypes, ElementOfSeq DEF Object, Held, IInv, PAGE_SIZE, Header
  <2> QED  BY <2>1, <2>2 DEF Abstract!Clear
<1>6. Live' = Live \ {Object(i)} /\ Object(i) \in Live
  BY <1>1, <1>4, <1>5 DEF Live
<1> QED  BY <1>1, <1>6 DEF Abstract!Free

\* The heap implements the object allocator its callers rely on.
THEOREM HeapRefinement == Spec => ImplementsObjectAllocator
<1>1. Init => Abstract!Init
  BY DEF Init, Abstract!Init, Live, Held
<1>2. IInv /\ IInv' /\ [Next]_vars => [Abstract!Next]_(Abstract!vars)
  <2> SUFFICES ASSUME IInv, IInv', [Next]_vars
               PROVE  Abstract!Next \/ UNCHANGED Abstract!vars
    OBVIOUS
  <2>1. CASE UNCHANGED vars
    BY <2>1 DEF vars, Abstract!vars, Live, Held, Object
  <2>2. CASE \E n \in Requests : kmalloc(n)
    BY <2>2, KmallocStep, RequestAssumption
  <2>3. ASSUME NEW n \in Counts, NEW s \in Requests,
               Overflows(n, s) \/ n * s <= MaxRequest, kcalloc(n, s)
        PROVE  Abstract!Next \/ UNCHANGED Abstract!vars
    <3>1. CASE ~Overflows(n, s) /\ kmalloc(n * s)
      BY <2>3, <3>1, Products, KmallocStep
    <3> QED  BY <2>1, <2>3, <3>1 DEF kcalloc
  <2>4. CASE \E i \in 1..Len(blocks) : kfree(i)
    BY <2>4, KfreeStep DEF Abstract!Next
  <2> QED  BY <2>1, <2>2, <2>3, <2>4 DEF Next
<1>3. Spec => []IInv
  BY InitIInv, NextIInv, PTL DEF Spec
<1> QED  BY <1>1, <1>2, <1>3, PTL DEF Spec, ImplementsObjectAllocator, Abstract!Spec

=============================================================================
