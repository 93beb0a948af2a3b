------------------------------- MODULE Process -------------------------------
(***************************************************************************)
(* Building a process and its page tables: src/memory/vmm.c (vmm_map, the  *)
(* creation and destruction of address spaces), process_create and         *)
(* grow_user_stack in src/scheduler/process.c, the loading of segments by  *)
(* elf_load_into_address_space (src/kernel_common/elf.c), and the stack    *)
(* part of page_fault_handler (src/main.c).                                *)
(*                                                                         *)
(* A page table is a tree of four levels with Radix entries per table (512 *)
(* in the code); the upper half of the root is the kernel's.               *)
(* Virtual addresses are page numbers.  Physical frames are numbers above  *)
(* 0, and an entry is a frame or 0, "not present".                         *)
(***************************************************************************)
EXTENDS Integers, Sequences, FiniteSetsExt

CONSTANTS Radix,         \* entries of a table
          FrameCount,    \* frames 1..FrameCount are the PMM's
          HeapPages,     \* bound on the pages of the kernel heap
          Units,         \* units of memory in a page
          Images,        \* ELF files: sequences of segments, in units
          StackTop,      \* USER_STACK_TOP
          StackPages,    \* USER_STACK_PAGES
          StackGrowth    \* pages the stack may grow by (128)

Frames == 1..FrameCount
KernelRoot == FrameCount + 1       \* the boot loader's PML4
Nodes == 1..KernelRoot
Entry == 0..(Radix - 1)

\* The pages below one entry of a table at level k (the root is at level 1); a
\* whole tree for k = 0.
Span(k) == CASE k = 0 -> Radix * (Radix * (Radix * Radix))
             [] k = 1 -> Radix * (Radix * Radix)
             [] k = 2 -> Radix * Radix
             [] k = 3 -> Radix
             [] k = 4 -> 1

KernelBase == (Radix \div 2) * Span(1)
UserPages == 0..(KernelBase - 1)
KernelPages == KernelBase..(Span(0) - 1)
PhysUnits == 0..((KernelRoot + 1) * Units - 1)
HeapStart == KernelBase
NoPage == -1

bottom_max == StackTop - StackPages - StackGrowth

ASSUME TreeAssumption == /\ Radix \in Nat \ {0, 1}
                         /\ Radix % 2 = 0 /\ FrameCount \in Nat \ {0}
                         /\ HeapPages \in Nat \ {0} /\ 2 * HeapPages <= Span(1)
ASSUME StackAssumption == /\ StackTop \in Nat /\ StackPages \in Nat \ {0} /\ StackGrowth \in Nat
                          /\ bottom_max \in Nat /\ StackTop <= KernelBase

Segment == [vaddr : Nat, filesz : Nat, memsz : Nat, offset : Nat]

\* The pages of segment s, from align_down(vaddr) to align_up(vaddr + memsz).
First(s) == s.vaddr \div Units
Count(s) == ((s.vaddr + s.memsz + Units - 1) \div Units) - First(s)

\* What a linker makes: segments that share no page with each other, nor with
\* the addresses the stack may take.  They may begin and end anywhere in a page.
ASSUME ImageAssumption ==
  /\ Units \in Nat \ {0}
  /\ Images \subseteq Seq(Segment)
  /\ \A img \in Images : \A i \in 1..Len(img) :
     /\ img[i].filesz <= img[i].memsz
     /\ First(img[i]) + Count(img[i]) <= bottom_max
     /\ \A j \in 1..Len(img) : i < j =>
          \/ First(img[i]) + Count(img[i]) <= First(img[j])
          \/ First(img[j]) + Count(img[j]) <= First(img[i])

VARIABLES tables,   \* contents of each frame that serves as a table
          free,     \* how many times a frame is on the PMM's free list (0 or 1 of a cycle)
          heap,     \* pages of the kernel heap mapped so far
          pc,       \* progress of load_init and process_create
          root,     \* the process's PML4, or 0
          image,    \* the file it is made from
          todo,     \* segments elf_load_into_address_space has still to load
          phys,     \* phys_pages, of the segment being loaded
          mapped,   \* how many of them have been mapped
          data,     \* contents of memory, by physical unit
          stack,    \* stack_phys_pages
          bottom,   \* user_stack_bottom
          touch,    \* the stack page user code is faulting on, or NoPage
          wanted    \* history: what each user page was last mapped to

contents == <<image, data>>
vars == <<tables, free, heap, pc, root, todo, phys, mapped, stack, bottom, touch, wanted,
          contents>>
memory_and_process ==
  <<tables, free, heap, root, todo, phys, mapped, stack, bottom, touch, wanted, contents>>
-----------------------------------------------------------------------------
\* PML4_INDEX, PDPT_INDEX, PD_INDEX, PT_INDEX: the index at level 1, 2, 3, 4.
Index(v, k) == (v \div Span(k)) % Radix

Empty == [i \in Entry |-> 0]

\* What the file holds at a position.  A frame is zero when it is handed out.
FileUnit(position) == position + 1

\* The state of an allocating computation is a record; oom is
\* panic("PMM: out of memory"), at the frame or table it arrived at.
Memory == [tables |-> tables, free |-> free, oom |-> FALSE, at |-> 0]
Avail(m) == {f \in Frames : m.free[f] > 0}

\* Mutant: the head of the free list is not moved.
AllocKeepsHead(m) ==
  IF Avail(m) = {} THEN [m EXCEPT !.oom = TRUE]
  ELSE LET f == Max(Avail(m)) IN [m EXCEPT !.at = f, !.tables[f] = Empty]

\* pmm_alloc_page hands out one frame (Pmm.tla proves that it does).  The highest:
\* neighbours come in falling order, as from a batch that pmm_fill pushed upwards.
Alloc(m) ==
  IF Avail(m) = {} THEN [m EXCEPT !.oom = TRUE]
  ELSE LET f == Max(Avail(m))
       IN [m EXCEPT !.free[f] = @ - 1, !.at = f, !.tables[f] = Empty]

\* Mutant: a table that is present is replaced too.
get_next_always(m, i) ==
  IF m.oom THEN m
  ELSE LET a == Alloc(m) IN IF a.oom THEN a ELSE [a EXCEPT !.tables[m.at][i] = a.at]

\* get_next: from the table at m.at to the one below its entry i, allocated if
\* it is not there.
get_next(m, i) ==
  IF m.oom THEN m
  ELSE IF m.tables[m.at][i] # 0 THEN [m EXCEPT !.at = m.tables[m.at][i]]
  ELSE LET a == Alloc(m) IN IF a.oom THEN a ELSE [a EXCEPT !.tables[m.at][i] = a.at]

\* vmm_map of page v to frame f below root r.
vmm_map(m, r, v, f) ==
  LET pdpt == get_next([m EXCEPT !.at = r], Index(v, 1))
      pd == get_next(pdpt, Index(v, 2))
      pt == get_next(pd, Index(v, 3))
  IN IF pt.oom THEN pt ELSE [pt EXCEPT !.tables[pt.at][Index(v, 4)] = f]

\* Allocate a frame, map page v to it, and leave the frame in at.
MapFresh(m, r, v) ==
  LET a == Alloc(m) IN IF a.oom THEN a ELSE [vmm_map(a, r, v, a.at) EXCEPT !.at = a.at]

\* The frame below table f on the way to page v at level k, 0 if there is none.
Below(t, f, v, k) == IF f = 0 THEN 0 ELSE t[f][Index(v, k)]

\* The PDPT, PD, PT and page (k = 1, 2, 3, 4) of page v below root r.
Node(t, r, v, k) ==
  LET pdpt == Below(t, r, v, 1)
      pd == Below(t, pdpt, v, 2)
      pt == Below(t, pd, v, 3)
  IN CASE k = 1 -> pdpt [] k = 2 -> pd [] k = 3 -> pt [] k = 4 -> Below(t, pt, v, 4)

\* vmm_virt_to_phys_as; its negative results are 0 here.
vmm_virt_to_phys_as(t, r, v) == Node(t, r, v, 4)

\* Mutant: the first entry of the kernel half is not copied.
copy_kernel_half_above(m) ==
  [i \in Entry |-> IF i > Radix \div 2 THEN m.tables[KernelRoot][i] ELSE 0]

paging_copy_kernel_half(m) ==
  [i \in Entry |-> IF i >= Radix \div 2 THEN m.tables[KernelRoot][i] ELSE 0]

paging_create_address_space(m) ==
  LET a == Alloc(m) IN
  IF a.oom THEN a ELSE [a EXCEPT !.tables[a.at] = paging_copy_kernel_half(a)]

\* The places of a tree's user half, level by level.
Places == {s \in (1..4) \X UserPages : s[2] % Span(s[1]) = 0}
Uses(t, r, f) == {s \in Places : Node(t, r, s[2], s[1]) = f}

\* Mutant: leaves are freed, tables are not.
DestroyLeaves(m, r) ==
  [m EXCEPT !.free = [f \in Frames |-> 
       @[f] + Cardinality({s \in Uses(m.tables, r, f) : s[1] = 4}) + (IF f = r THEN 1 ELSE 0)]]

\* paging_destroy_address_space: every page and table of the user half, once
\* for each place it has there, and the PML4.
paging_destroy_address_space(m, r) ==
  [m EXCEPT !.free = [f \in Frames |-> @[f] + Cardinality(Uses(m.tables, r, f))
                                            + (IF f = r THEN 1 ELSE 0)]]

\* The kernel goes on with memory m, or it stopped in pmm_alloc_page.
Becomes(m, next) == /\ tables' = m.tables /\ free' = m.free
                    /\ pc' = IF m.oom THEN "panic" ELSE next
-----------------------------------------------------------------------------
Init == /\ tables = [f \in Nodes |-> Empty] /\ free = [f \in Frames |-> 1]
        /\ heap = 0 /\ pc = "boot" /\ root = 0 /\ todo = <<>> /\ phys = <<>> /\ mapped = 0
        /\ stack = <<>> /\ bottom = StackTop - StackPages
        /\ touch = NoPage /\ wanted = [v \in UserPages |-> 0]
        /\ image = <<>> /\ data = [u \in PhysUnits |-> 0]

\* kmalloc by anyone, when the heap has no block for it: request_pages maps one
\* more page into the kernel half, and leaves a guard page after it.
HeapGrow(next) ==
  /\ heap < HeapPages
  /\ Becomes(MapFresh(Memory, KernelRoot, HeapStart + 2 * heap), next)
  /\ heap' = heap + 1
  /\ UNCHANGED <<root, todo, phys, mapped, stack, bottom, touch, wanted, contents>>

\* process_create gives up before it has allocated anything: the file is not
\* there or is no ELF image.
ProcessRefused == /\ pc = "boot" /\ pc' = "failed"
                  /\ UNCHANGED memory_and_process

\* process_create allocates the process_t and its descriptor table: from pages
\* the heap has, or from a new one.
ProcessCreate == /\ pc = "boot"
                 /\ \/ HeapGrow("space")
                    \/ heap > 0 /\ pc' = "space" /\ UNCHANGED memory_and_process

CreateSpace(img) ==
  /\ pc = "space"
  /\ LET m == paging_create_address_space(Memory) IN
     /\ Becomes(m, "stack")
     /\ root' = IF m.oom THEN 0 ELSE m.at
  /\ todo' = img /\ image' = img
  /\ UNCHANGED <<heap, phys, mapped, stack, bottom, touch, wanted, data>>

MoreStack == Len(stack) < StackPages

\* One turn of the loop that maps the initial stack.
StackPage ==
  LET v == bottom + Len(stack)
      m == MapFresh(Memory, root, v)
  IN /\ pc = "stack" /\ MoreStack
     /\ Becomes(m, "stack")
     /\ stack' = Append(stack, m.at) /\ wanted' = [wanted EXCEPT ![v] = m.at]
     /\ UNCHANGED <<heap, root, todo, phys, mapped, bottom, touch, contents>>

StackDone == /\ pc = "stack" /\ ~MoreStack
             /\ pc' = "elf"
             /\ UNCHANGED memory_and_process

\* A PT_LOAD segment: the loop that allocates its pages,
ElfAlloc ==
  /\ pc = "elf" /\ todo # <<>> /\ mapped = 0 /\ Len(phys) < Count(Head(todo))
  /\ LET m == Alloc(Memory) IN Becomes(m, "elf") /\ phys' = Append(phys, m.at)
  /\ UNCHANGED <<heap, root, todo, mapped, stack, bottom, touch, wanted, contents>>

\* the loop that maps them,
ElfMap ==
  LET v == First(Head(todo)) + mapped
      f == phys[mapped + 1]
  IN /\ pc = "elf" /\ todo # <<>> /\ Len(phys) = Count(Head(todo)) /\ mapped < Len(phys)
     /\ Becomes(vmm_map(Memory, root, v, f), "elf")
     /\ mapped' = mapped + 1 /\ wanted' = [wanted EXCEPT ![v] = f]
     /\ UNCHANGED <<heap, root, todo, phys, stack, bottom, touch, contents>>

\* Mutant: what is to be done is not cut into pages.
ChunkStartZero(k) == 0

\* Where the chunk of at most PAGE_SIZE that contains unit k begins.
ChunkStart(k) == k - (k % Units)

\* The physical unit that unit k goes to, of what begins at address a: a chunk is
\* translated once, at its beginning, and goes on through the direct map.
Target(a, k) ==
  LET b == a + ChunkStart(k)
  IN vmm_virt_to_phys_as(tables, root, b \div Units) * Units + (b % Units) + (k - ChunkStart(k))

\* The units that are read from the file, and the ones that are cleared after it.
Reads(s) == {Target(s.vaddr, k) : k \in 0..(s.filesz - 1)}
Clears(s) == {Target(s.vaddr + s.filesz, k) : k \in 0..(s.memsz - s.filesz - 1)}

\* Memory after segment s is loaded; the last write to a unit stays.
Filled(s) ==
  LET Sources(u) == {k \in 0..(s.filesz - 1) : Target(s.vaddr, k) = u}
  IN [u \in PhysUnits |->
        IF u \in Clears(s) THEN 0
        ELSE IF u \in Reads(s) THEN FileUnit(s.offset + Max(Sources(u)))
        ELSE data[u]]

\* A chunk that crosses the end of its page goes on in the frame that is next in
\* memory, which need not be the next page's.  Here that frame is no page of the
\* process at all: a table, a page of the kernel's heap, a free frame.
Overruns(s) ==
  \E u \in Reads(s) \cup Clears(s) :
    \A v \in UserPages : vmm_virt_to_phys_as(tables, root, v) # u \div Units

SegmentMapped == /\ pc = "elf" /\ todo # <<>>
                 /\ Len(phys) = Count(Head(todo)) /\ mapped = Len(phys)

\* and the reads that fill them, one of which may fail; a segment of no pages is
\* passed over.
ElfFill(fills) ==
  /\ SegmentMapped
  /\ IF fills THEN ~Overruns(Head(todo)) ELSE phys # <<>>
  /\ pc' = IF fills THEN "elf" ELSE "fail"
  /\ data' = IF fills THEN Filled(Head(todo)) ELSE data
  /\ todo' = Tail(todo) /\ phys' = <<>> /\ mapped' = 0
  /\ UNCHANGED <<tables, free, heap, root, stack, bottom, touch, wanted, image>>

\* The loader writes over what is not the process's.  What the kernel does then is
\* not followed.
ElfOverruns == /\ SegmentMapped /\ Overruns(Head(todo))
               /\ pc' = "wild"
               /\ UNCHANGED memory_and_process

\* A header that cannot be read, or is not what it must be.
ElfBad == /\ pc = "elf" /\ phys = <<>> /\ pc' = "fail"
          /\ UNCHANGED memory_and_process

\* paging_destroy_address_space frees upwards, and a table after all below it.
FreedAfter(s, u) ==
  LET End(x) == x[2] + Span(x[1])
  IN End(s) > End(u) \/ (End(s) = End(u) /\ s[1] < u[1])

\* The load failed: the address space goes, and the stack's pages are freed once
\* more.  They are on the list already, and pmm_free_page links them to its head
\* again: the list closes into a cycle of them and of what was freed after them,
\* the PML4 last.  All that is behind them is lost.
CreateFails ==
  /\ pc = "fail"
  /\ LET Twice == {stack[i] : i \in 1..Len(stack)}
         m == paging_destroy_address_space(Memory, root)
         Newer(f) == \E s \in Uses(m.tables, root, f) :
                       \A u \in Places : Node(m.tables, root, u[2], u[1]) \in Twice
                                           => FreedAfter(s, u)
     IN /\ tables' = m.tables
        /\ free' = [f \in Frames |-> IF m.free[f] > 0 /\ (f \in Twice \/ f = root \/ Newer(f))
                                    THEN 1 ELSE 0]
  /\ pc' = "failed" /\ root' = 0
  /\ UNCHANGED <<heap, todo, phys, mapped, stack, bottom, touch, wanted, contents>>

\* load_init: "Failed to create init process".
LoadInitPanics == /\ pc = "failed" /\ pc' = "panic"
                  /\ UNCHANGED memory_and_process

ElfDone == /\ pc = "elf" /\ todo = <<>>
           /\ pc' = "run"
           /\ UNCHANGED memory_and_process

\* The kernel's heap grows before the process, while it is loaded (kmalloc of
\* phys_pages) and under it (its system calls).
KernelAllocates == /\ pc \in {"boot", "elf", "run"} /\ phys = <<>> /\ touch = NoPage
                   /\ HeapGrow(pc)

\* User code touches a page that is not mapped.
Touch(v) == /\ pc = "run" /\ touch = NoPage
            /\ vmm_virt_to_phys_as(tables, root, v) = 0
            /\ touch' = v
            /\ UNCHANGED <<tables, free, heap, pc, root, todo, phys, mapped, stack, bottom,
                           wanted, contents>>

\* Mutant: the limit is off by one page.
AtLimitLate == bottom < bottom_max

AtLimit == bottom - 1 < bottom_max

\* Mutant: user_stack_bottom is not moved.
grow_user_stack_forgets ==
  LET m == MapFresh(Memory, root, bottom - 1) IN
  /\ Becomes(m, "run")
  /\ wanted' = [wanted EXCEPT ![bottom - 1] = m.at] /\ UNCHANGED bottom

\* grow_user_stack, below the limit: one page under the stack.
grow_user_stack ==
  LET m == MapFresh(Memory, root, bottom - 1) IN
  /\ Becomes(m, "run")
  /\ wanted' = [wanted EXCEPT ![bottom - 1] = m.at] /\ bottom' = bottom - 1

\* page_fault_handler where no mmap area is involved: one page per fault; the
\* instruction is tried again and faults again if its page is still not there.
PageFault ==
  /\ pc = "run" /\ touch # NoPage
  /\ IF touch + 1 >= bottom_max /\ touch < bottom /\ ~AtLimit
     THEN /\ grow_user_stack
          /\ touch' = IF touch = bottom - 1 THEN NoPage ELSE touch
     ELSE pc' = "panic" /\ UNCHANGED <<tables, free, bottom, wanted, touch>>
  /\ UNCHANGED <<heap, root, todo, phys, mapped, stack, contents>>

Next == \/ KernelAllocates
        \/ ProcessRefused \/ ProcessCreate \/ \E img \in Images : CreateSpace(img)
        \/ StackPage \/ StackDone
        \/ ElfAlloc \/ ElfMap \/ (\E fills \in BOOLEAN : ElfFill(fills)) \/ ElfOverruns
        \/ ElfBad \/ ElfDone
        \/ CreateFails \/ LoadInitPanics
        \/ (\E v \in UserPages : Touch(v)) \/ PageFault

Spec == Init /\ [][Next]_vars
-----------------------------------------------------------------------------
Alive == pc \notin {"panic", "wild"}

\* Walking the tables gives, for every user page, the frame it was last mapped
\* to and nothing for any other: growing the tree for one page never disturbs
\* another, in tables they share or not.
TranslationExact ==
  Alive /\ root # 0 =>
    \A v \in UserPages : vmm_virt_to_phys_as(tables, root, v) = wanted[v]

\* The kernel half is the same in the process as in the kernel, for heap pages
\* mapped after the process was made as for those before: interrupt handlers
\* and system calls run on the process's tables.
KernelShared ==
  Alive /\ root # 0 =>
    \A v \in KernelPages : vmm_virt_to_phys_as(tables, root, v) =
                           vmm_virt_to_phys_as(tables, KernelRoot, v)

KernelUses(f) ==
  Cardinality({s \in (1..4) \X KernelPages :
                 s[2] % Span(s[1]) = 0 /\ Node(tables, KernelRoot, s[2], s[1]) = f})

\* Until creation fails, a frame has one use at most: one place in the process's
\* tree, its root, one place in the kernel's, or free, once.
FramesUsedOnce ==
  pc \notin {"failed", "panic", "wild"} =>
    \A f \in Frames :
      KernelUses(f) + free[f] + (IF f = root THEN 1 ELSE 0)
        + (IF root = 0 THEN 0 ELSE Cardinality(Uses(tables, root, f))) <= 1

\* Wherever the load failed, paging_destroy_address_space gives back every frame
\* of the process once: with it each frame is the kernel's or on the free list,
\* and none is lost or freed twice (until the stack's pages are freed again).
DestroyExact ==
  pc = "fail" =>
    LET m == paging_destroy_address_space(Memory, root)
    IN \A f \in Frames : KernelUses(f) > 0 \/ m.free[f] = 1

\* The stack is one mapped range that never passes its limit.
StackSound ==
  Alive /\ pc = "run" =>
    /\ bottom_max <= bottom
    /\ \A v \in bottom_max..(StackTop - 1) : wanted[v] # 0 <=> v >= bottom

\* What the program should find at user address a.
Loaded(a) ==
  LET Within == {i \in 1..Len(image) : image[i].vaddr <= a /\ a < image[i].vaddr + image[i].filesz}
  IN IF Within = {} THEN 0
     ELSE LET s == image[Min(Within)] IN FileUnit(s.offset + a - s.vaddr)

\* n units from address a on stay in one page, or begin a page: no chunk of them
\* crosses the end of a page.
Contained(a, n) == a % Units = 0 \/ (a % Units) + n <= Units

WellCut(img) ==
  \A i \in 1..Len(img) :
    /\ Contained(img[i].vaddr, img[i].filesz)
    /\ Contained(img[i].vaddr + img[i].filesz, img[i].memsz - img[i].filesz)

\* A process whose image has no chunk across the end of a page starts with each
\* segment's part of the file at its address, and with zeros in the rest of its
\* segments and on its stack, and nothing else was written, although the loader
\* writes through the direct map, frame by frame.  (Other images are loaded too,
\* and wrongly.)
ElfExact ==
  WellCut(image) =>
    /\ pc # "wild"
    /\ pc = "run" =>
         \A v \in UserPages : wanted[v] # 0 =>
           \A i \in 0..(Units - 1) :
             data[vmm_virt_to_phys_as(tables, root, v) * Units + i] = Loaded(v * Units + i)

\* Faults end: each one brings the page, moves the stack a page towards its
\* limit, which bounds how often that happens, or stops the kernel.
FaultProgress ==
  [][touch # NoPage => touch' = NoPage \/ bottom' < bottom \/ pc' = "panic"]_vars
-----------------------------------------------------------------------------
\* The inductive invariant.

\* The tree that page v is in, and the frame that is met on the way to it at
\* level k, the root being at level 0.
Pages == 0..(Span(0) - 1)
Home(r, v) == IF v < KernelBase THEN r ELSE KernelRoot
Walk(t, r, v, k) == IF k = 0 THEN Home(r, v) ELSE Node(t, Home(r, v), v, k)

\* Entry i of node n is the process's copy of an entry of the kernel's root.
Copied(r, n, i) == n = r /\ i >= Radix \div 2

\* The copies apart, no two entries lead to one frame.
OneParent(t, r) ==
  \A n, m \in Nodes, i, j \in Entry :
    t[n][i] # 0 /\ t[n][i] = t[m][j] /\ ~Copied(r, n, i) /\ ~Copied(r, m, j)
      => n = m /\ i = j

\* Entries lead to frames that are in use.
Linked(t, fr, r, X) ==
  \A n \in Nodes, i \in Entry :
    t[n][i] # 0 => t[n][i] # r /\ t[n][i] \notin X /\ fr[t[n][i]] = 0

\* A frame that is free, or allocated and in no tree yet (X), is zero.
Blank(t, fr, r, X) ==
  /\ \A f \in X : fr[f] = 0
  /\ \A f \in Frames : fr[f] = 1 \/ f \in X => f # r /\ t[f] = Empty

\* No frame is lost.
Placed(t, fr, r, X) ==
  \A f \in Frames : \/ fr[f] = 1 \/ f = r \/ f \in X
                    \/ \E v \in Pages, k \in 1..4 : Walk(t, r, v, k) = f

Types(t, fr, r, X) ==
  /\ t \in [Nodes -> [Entry -> 0..FrameCount]] /\ fr \in [Frames -> 0..1]
  /\ r \in 0..FrameCount /\ X \subseteq Frames

Forest(t, fr, r, X) ==
  /\ Types(t, fr, r, X)
  /\ OneParent(t, r) /\ Linked(t, fr, r, X) /\ Blank(t, fr, r, X) /\ Placed(t, fr, r, X)
  /\ r # 0 => \A i \in Entry : i >= Radix \div 2 => t[r][i] = t[KernelRoot][i]

\* The frames of the segment being loaded that are not mapped yet.
Pending == {phys[i] : i \in (mapped + 1)..Len(phys)}

Order ==
  /\ pc \in {"boot", "space", "stack", "elf", "run", "fail"}
  /\ root = 0 <=> pc \in {"boot", "space"}
  /\ phys \in Seq(Frames) /\ mapped \in 0..Len(phys)
  /\ pc # "elf" \/ todo = <<>> => phys = <<>>
  /\ \A i, j \in 1..Len(phys) : phys[i] = phys[j] => i = j
  /\ touch # NoPage => pc = "run"

\* The kernel's root has the entry of its heap before any process copies it, and
\* the heap never grows into the next one.
HeapSound ==
  /\ heap \in 0..HeapPages
  /\ pc # "boot" => heap > 0
  /\ heap > 0 => tables[KernelRoot][Radix \div 2] # 0
  /\ \A v \in KernelPages : v >= HeapStart + 2 * heap => Walk(tables, root, v, 4) = 0

Translates == /\ wanted \in [UserPages -> 0..FrameCount]
              /\ \A v \in UserPages : Walk(tables, root, v, 4) = wanted[v]

\* What is still to be mapped is not mapped.
SegmentsWait ==
  /\ todo \in Seq(Segment)
  /\ \A i \in 1..Len(todo) :
       /\ First(todo[i]) + Count(todo[i]) <= bottom_max
       /\ \A v \in UserPages :
            First(todo[i]) + (IF i = 1 THEN mapped ELSE 0) <= v /\ v < First(todo[i]) + Count(todo[i])
              => wanted[v] = 0
       /\ \A j \in 1..Len(todo) : i < j =>
            \/ First(todo[i]) + Count(todo[i]) <= First(todo[j])
            \/ First(todo[j]) + Count(todo[j]) <= First(todo[i])

StackGrows ==
  /\ bottom \in bottom_max..(StackTop - StackPages)
  /\ stack \in Seq(Frames) /\ Len(stack) <= StackPages
  /\ pc \in {"boot", "space", "stack"} => bottom = StackTop - StackPages
  /\ root = 0 => stack = <<>>
  /\ root # 0 => \A v \in bottom_max..(StackTop - 1) :
       wanted[v] # 0 <=> bottom <= v /\ (pc = "stack" => v < bottom + Len(stack))

Sound == /\ Order /\ Forest(tables, free, root, Pending) /\ HeapSound
         /\ Translates /\ SegmentsWait /\ StackGrows

IInv == \/ pc \in {"panic", "wild"}
        \/ pc = "failed" /\ root = 0 /\ touch = NoPage
        \/ Sound
=============================================================================
