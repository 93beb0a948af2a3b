-------------------------------- MODULE Heap --------------------------------
(***************************************************************************)
(* The kernel heap, src/memory/heap.c without KMALLOC_CANARY: a list of    *)
(* blocks, each in a region of its own that starts on a page and is        *)
(* followed by one unmapped guard page.  Blocks are reused first fit,      *)
(* newest first, and never split, merged or unmapped.                      *)
(*                                                                         *)
(* Virtual addresses are page numbers above HEAP_START; sizes are bytes in *)
(* a size_t of SizeMod values.  Calls are atomic: Sched!AllocatorExclusion.*)
(***************************************************************************)
EXTENDS Integers, Sequences

CONSTANTS SizeMod,     \* SIZE_MAX + 1
          Requests,    \* the sizes callers ask kmalloc for
          Counts,      \* the element counts callers ask kcalloc for
          PhysPages    \* physical pages the PMM can still provide

PAGE_SIZE == 4096
Header == 32           \* sizeof(block_t)
Nobody == -1

\* The largest request whose rounding (15), header (32) and page rounding
\* (4095) stay inside size_t.
MaxRequest == SizeMod - 1 - 15 - 32 - 4095

ASSUME SizeAssumption == SizeMod \in Nat /\ MaxRequest \in Nat /\ PhysPages \in Nat
ASSUME RequestAssumption == Requests \subseteq 0..MaxRequest /\ Counts \subseteq Nat

VARIABLES blocks,    \* the block list, oldest first (head is the last one)
          cursor,    \* heap_cursor
          physLeft,  \* physical pages left
          holder,    \* history: the size each block was last asked for, or Nobody
          panicked   \* the PMM ran out of memory

vars == <<blocks, cursor, physLeft, holder, panicked>>

Wrap(n) == IF n < SizeMod THEN n ELSE n - SizeMod   \* one size_t addition

\* (size + 15) & ~15
Round16(size) == (Wrap(size + 15) \div 16) * 16

\* Pages for the header and a rounded size.
PagesFor(size) == Wrap(Wrap(Header + size) + (PAGE_SIZE - 1)) \div PAGE_SIZE

\* Mutant: a block in use is as good as a free one.
FitsUsed(i, size) == blocks[i].size >= size

Fits(i, size) == blocks[i].free /\ blocks[i].size >= size

Fitting(size) == {i \in 1..Len(blocks) : Fits(i, size)}
-----------------------------------------------------------------------------
Init == /\ blocks = <<>> /\ cursor = 0 /\ physLeft = PhysPages
        /\ holder = <<>> /\ panicked = FALSE

MarkUsed(i) == blocks' = [blocks EXCEPT ![i].free = FALSE]

\* kmalloc finds a free block: the first from the head that fits.
Reuse(size, asked) ==
  /\ \E i \in Fitting(size) :
       /\ \A j \in Fitting(size) : j <= i
       /\ MarkUsed(i)
       /\ holder' = [holder EXCEPT ![i] = asked]
  /\ UNCHANGED <<cursor, physLeft, panicked>>

\* Mutant: request_pages leaves no guard page.
NoGuardAfter(pages) == cursor' = cursor + pages

\* request_pages moves the cursor past the region and its guard page.
GuardAfter(pages) == cursor' = cursor + pages + 1

\* kmalloc makes a block: request_pages maps a fresh region page by page.
Grow(size, asked) ==
  LET pages == PagesFor(size) IN
  /\ Fitting(size) = {}
  /\ pages <= physLeft
  /\ blocks' = Append(blocks, [base |-> cursor, pages |-> pages,
                               size |-> pages * PAGE_SIZE - Header, free |-> FALSE])
  /\ holder' = Append(holder, asked)
  /\ physLeft' = physLeft - pages
  /\ GuardAfter(pages)
  /\ UNCHANGED panicked

\* request_pages runs into the end of physical memory: pmm_alloc_page panics.
Exhaust(size) ==
  /\ Fitting(size) = {}
  /\ PagesFor(size) > physLeft
  /\ panicked' = TRUE /\ cursor' = cursor + physLeft /\ physLeft' = 0
  /\ UNCHANGED <<blocks, holder>>

Alloc(size, asked) == Reuse(size, asked) \/ Grow(size, asked) \/ Exhaust(size)

kmalloc(n) == ~panicked /\ Alloc(Round16(n), n)

\* kfree of a pointer kmalloc returned; kfree(NULL) and a pointer that fails
\* block_is_valid change nothing.
kfree(i) == /\ ~panicked
            /\ holder[i] # Nobody
            /\ blocks' = [blocks EXCEPT ![i].free = TRUE]
            /\ holder' = [holder EXCEPT ![i] = Nobody]
            /\ UNCHANGED <<cursor, physLeft, panicked>>

\* kcalloc refuses products that do not fit into size_t.
Overflows(n, s) == s # 0 /\ n > (SizeMod - 1) \div s

\* kcalloc: NULL on overflow, else kmalloc of the product (zeroed).
kcalloc(n, s) == \/ Overflows(n, s) /\ ~panicked /\ UNCHANGED vars
                 \/ ~Overflows(n, s) /\ kmalloc(n * s)

\* Callers keep products that fit below MaxRequest, as they do requests.
Next == \/ \E n \in Requests : kmalloc(n)
        \/ \E n \in Counts, s \in Requests :
             (Overflows(n, s) \/ n * s <= MaxRequest) /\ kcalloc(n, s)
        \/ \E i \in 1..Len(blocks) : kfree(i)

Spec == Init /\ [][Next]_vars
-----------------------------------------------------------------------------
Block == [base : Nat, pages : Nat, size : Nat, free : BOOLEAN]

\* Type correctness of the heap.
TypeOK == /\ blocks \in Seq(Block)
          /\ holder \in Seq(Nat \cup {Nobody}) /\ Len(holder) = Len(blocks)
          /\ cursor \in Nat /\ physLeft \in Nat
          /\ panicked \in BOOLEAN

\* Regions never overlap: each is followed by a guard page that belongs to
\* none, and all lie below the cursor, so neighbours cannot corrupt headers.
RegionsApart ==
  /\ \A i, j \in 1..Len(blocks) : i < j =>
        blocks[i].base + blocks[i].pages < blocks[j].base
  /\ \A i \in 1..Len(blocks) : /\ blocks[i].base + blocks[i].pages < cursor
                               /\ blocks[i].pages >= 1
                               /\ blocks[i].size + Header = blocks[i].pages * PAGE_SIZE

\* A block is marked free exactly when nobody holds it: what kmalloc returns
\* is nobody else's, and what was freed can be found again.
FreeMeansUnheld == \A i \in 1..Len(blocks) : blocks[i].free <=> holder[i] = Nobody

\* The memory behind a pointer is as large as was asked for, whichever block
\* was reused for it and however the sizes were rounded.
HeldFits == \A i \in 1..Len(blocks) : holder[i] # Nobody => holder[i] <= blocks[i].size

IInv == TypeOK /\ RegionsApart /\ FreeMeansUnheld /\ HeldFits

Held == {i \in 1..Len(blocks) : holder[i] # Nobody}
Object(i) == [at |-> blocks[i].base * PAGE_SIZE + Header, len |-> holder[i]]
Live == {Object(i) : i \in Held}
Abstract == INSTANCE ObjectAllocator WITH live <- Live, stopped <- panicked

\* The heap is an object allocator: a pointer kmalloc returns is clear of every
\* live object for the whole length asked for, and only kfree ends an object.
ImplementsObjectAllocator == Abstract!Spec
=============================================================================
