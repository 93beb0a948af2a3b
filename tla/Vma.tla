--------------------------------- MODULE Vma ---------------------------------
(***************************************************************************)
(* The memory areas of the user process: src/memory/vma.c, the mmap and    *)
(* munmap system calls (src/syscalls/memory/memory.c), the demand-paging   *)
(* part of page_fault_handler (src/main.c) and fb_vma_fault                *)
(* (src/framebuffer/fb.c).                                                 *)
(*                                                                         *)
(* Addresses, lengths and file offsets are counted in units of which       *)
(* PageUnits make a page, so that a length or an address need not be a     *)
(* multiple of a page.  An area's list of faulted pages is a sequence of   *)
(* nodes [start, phys].  System calls and faults of the one user thread    *)
(* are atomic, except for vma_cleanup: its loop is taken node by node.     *)
(***************************************************************************)
EXTENDS Integers, Sequences, Functions

CONSTANTS PageUnits,     \* PAGE_SIZE
          Base,          \* VMA_BASE
          Top,           \* bound: no area of the instance ends beyond it
          Lengths,       \* the lengths user code passes to mmap and munmap
          UnmapAddrs,    \* the addresses user code passes to munmap
          Offsets,       \* the file offsets user code passes to mmap
          FbSize,        \* size of /dev/fb0, the one file with a vma_fault
          Frames         \* physical pages the PMM can provide

ASSUME UnitAssumption == /\ PageUnits \in Nat \ {0} /\ Top \in Nat
                         /\ Base \in Nat \ {0} /\ Base % PageUnits = 0
ASSUME InputAssumption == /\ Lengths \subseteq Nat \ {0} /\ UnmapAddrs \subseteq Nat
                          /\ Offsets \subseteq Nat /\ FbSize \in Nat
                          /\ Frames \subseteq Nat

VARIABLES vmas,     \* the areas in the process's tree
          mapped,   \* the page table: page address -> what is mapped there
          pool,     \* frames the PMM still has
          area,     \* start of the area vma_cleanup works on, or Idle
          page,     \* vma_cleanup's `page'
          prev,     \* vma_cleanup's `prev'
          wild      \* vma_cleanup wrote through an uninitialised pointer

vars == <<vmas, mapped, pool, area, page, prev, wild>>

Idle == -1
Null == [start |-> -1, phys |-> -1]
Uninitialised == [start |-> -2, phys |-> -2]
Ram(f) == <<"ram", f>>
Fb(k) == <<"fb", k>>

ALIGN_DOWN(a) == (a \div PageUnits) * PageUnits
ALIGN_UP(n) == ALIGN_DOWN(n + PageUnits - 1)

Inside(v, a) == v.start <= a /\ a < v.end

\* bstree_search with BST_SEARCH_TYPE_NEAREST_LTE, external: the area with
\* the greatest start not above addr.
NearestLte(addr) ==
  {v \in vmas : v.start <= addr /\ \A w \in vmas : w.start <= addr => w.start <= v.start}

\* Mutant: the end of an area counts as part of it.
vma_find_end_inclusive(addr) == {v \in NearestLte(addr) : addr <= v.end}

\* The area that contains addr, as a set of at most one.
vma_find(addr) == {v \in NearestLte(addr) : Inside(v, addr)}

vma_overlaps(start, end) == \E v \in vmas : start < v.end /\ end > v.start

\* The end of the in-order predecessor of v, where scan's gap before v begins.
PrevEnd(v) ==
  LET Before == {w \in vmas : w.start < v.start} IN
  IF Before = {} THEN Base
  ELSE (CHOOSE w \in Before : \A x \in Before : x.start <= w.start).end

Gap(v, length) == v.start - PrevEnd(v) >= length

\* scan: the first sufficient gap in address order, else the last end.
LastEnd(length) ==
  LET Gaps == {v \in vmas : Gap(v, length)} IN
  IF Gaps # {} THEN PrevEnd(CHOOSE v \in Gaps : \A w \in Gaps : v.start <= w.start)
  ELSE IF vmas = {} THEN Base
  ELSE (CHOOSE v \in vmas : \A w \in vmas : w.start <= v.start).end
-----------------------------------------------------------------------------
Init == /\ vmas = {} /\ mapped = <<>> /\ pool = Frames
        /\ area = Idle /\ page = Null /\ prev = Null /\ wild = FALSE

\* do_sys_mmap and mmap_region.  Errors change nothing: no region (ENOMEM),
\* or a file whose vnode has no vma_fault (ENODEV).
do_sys_mmap(length, type, pgoff) ==
  LET start == LastEnd(length)
      end == start + ALIGN_UP(length)
  IN /\ area = Idle
     /\ end <= Top
     /\ ~vma_overlaps(start, start + length)
     /\ vmas' = vmas \cup {[start |-> start, end |-> end, type |-> type,
                            pgoff |-> pgoff, pages |-> <<>>,
                            origin |-> start - pgoff]}    \* history
     /\ UNCHANGED <<mapped, pool, area, page, prev, wild>>

\* Mutant: the file offset of the upper part is that of the whole area.
UpperSameOffset(v, addr, len) == [v EXCEPT !.start = addr + len, !.pages = <<>>]

\* What munmap_region leaves above the hole: a new area without any page.
Upper(v, addr, len) ==
  [v EXCEPT !.start = addr + len, !.pages = <<>>,
            !.pgoff = IF v.type = "file" THEN v.pgoff + (addr + len - v.start) ELSE @]

\* Mutant: the part below the hole keeps its end.
CutKeepsEnd(v, addr, len) == IF addr = v.start THEN [v EXCEPT !.start = @ + len] ELSE v

\* What it makes of the area itself.
Cut(v, addr, len) ==
  IF addr = v.start
  THEN [v EXCEPT !.start = @ + len, !.pgoff = IF v.type = "file" THEN @ + len ELSE @]
  ELSE [v EXCEPT !.end = addr]

Unmap(pages) == mapped' = [p \in DOMAIN mapped \ pages |-> mapped[p]]

\* Mutant: vma_destroy frees the list but leaves the pages mapped.
DestroyKeepsPages(v) == UNCHANGED mapped

\* vma_destroy unmaps every listed page.
vma_destroy(v) == Unmap({v.pages[i].start : i \in 1..Len(v.pages)})

\* do_sys_munmap and munmap_region, up to the call of vma_cleanup.
do_sys_munmap(addr, length) ==
  LET len == ALIGN_UP(length) IN
  /\ area = Idle
  /\ \E v \in vma_find(addr) :
       LET old == Cut(v, addr, len)
           upper == IF addr > v.start /\ addr + len < v.end THEN {Upper(v, addr, len)} ELSE {}
           rest == (vmas \ {v}) \cup upper
       IN /\ addr + len <= v.end
          /\ \/ /\ old.start >= old.end
                /\ vmas' = rest
                /\ vma_destroy(v)
                /\ UNCHANGED <<area, page, prev>>
             \/ /\ old.start < old.end
                /\ vmas' = rest \cup {old}
                /\ IF v.pages = <<>> THEN UNCHANGED <<area, page, prev>>
                   ELSE /\ area' = old.start
                        /\ page' = Head(v.pages)
                        /\ prev' \in {Null, Uninitialised}
                /\ UNCHANGED mapped
  /\ UNCHANGED <<pool, wild>>

NextNode(v, node) ==
  LET i == CHOOSE i \in 1..Len(v.pages) : v.pages[i] = node IN
  IF i = Len(v.pages) THEN Null ELSE v.pages[i + 1]

\* Mutant: the loop does not move on.
CleanKeepStays(v) == Inside(v, page.start) /\ UNCHANGED vars

\* vma_cleanup looks at a page inside the area and moves on.
CleanKeep(v) ==
  /\ Inside(v, page.start)
  /\ prev' = page
  /\ page' = NextNode(v, page)
  /\ UNCHANGED <<vmas, mapped, pool, area, wild>>

\* vma_cleanup looks at a page outside: it unmaps the page and unlinks and
\* frees its node, through prev if that is not NULL; `page' stays.
CleanDrop(v) ==
  /\ ~Inside(v, page.start)
  /\ Unmap({page.start})
  /\ IF prev = Uninitialised
     THEN wild' = TRUE /\ UNCHANGED vmas
     ELSE /\ vmas' = (vmas \ {v}) \cup
                     {[v EXCEPT !.pages = SelectSeq(@, LAMBDA n : n # page)]}
          /\ UNCHANGED wild
  /\ UNCHANGED <<pool, area, page, prev>>

\* The loop ends when `page' is NULL, and munmap_region returns.
CleanEnd == /\ area # Idle /\ page = Null
            /\ area' = Idle /\ prev' = Null
            /\ UNCHANGED <<vmas, mapped, pool, page, wild>>

CleanStep == \/ /\ area # Idle /\ page # Null
                /\ \E v \in vmas : v.start = area /\ (CleanKeep(v) \/ CleanDrop(v))
             \/ CleanEnd

\* Mutant: the frame is mapped but still the PMM's to give away.
FrameNotTaken(f) == UNCHANGED pool

\* pmm_alloc_page: see the module Pmm.
TakeFrame(f) == pool' = pool \ {f}

\* vma_fault_handler on an anonymous area: a fresh zeroed frame.
FaultAnon(v, p) ==
  /\ v.type = "anon"
  /\ \E f \in pool :
       /\ \A g \in pool : f <= g
       /\ TakeFrame(f)
       /\ mapped' = [q \in DOMAIN mapped \cup {p} |-> IF q = p THEN Ram(f) ELSE mapped[q]]
       /\ vmas' = (vmas \ {v}) \cup
                  {[v EXCEPT !.pages = Append(@, [start |-> p, phys |-> f])]}

fb_offset(v, p) == (p - v.start) + v.pgoff

\* fb_vma_fault: the page of the framebuffer; the area does not list it.
FaultFile(v, p) ==
  /\ v.type = "file"
  /\ fb_offset(v, p) \in 0..(FbSize - 1)
  /\ mapped' = [q \in DOMAIN mapped \cup {p} |->
                  IF q = p THEN Fb(fb_offset(v, p) \div PageUnits) ELSE mapped[q]]
  /\ UNCHANGED <<vmas, pool>>

\* User code touches an address whose page is not mapped.
page_fault_handler(addr) ==
  /\ area = Idle
  /\ ALIGN_DOWN(addr) \notin DOMAIN mapped
  /\ \E v \in vma_find(addr) :
       FaultAnon(v, ALIGN_DOWN(addr)) \/ FaultFile(v, ALIGN_DOWN(addr))
  /\ UNCHANGED <<area, page, prev, wild>>

Next == \/ \E n \in Lengths : do_sys_mmap(n, "anon", 0)
        \/ \E n \in Lengths, o \in Offsets : do_sys_mmap(n, "file", o)
        \/ \E a \in UnmapAddrs, n \in Lengths : do_sys_munmap(a, n)
        \/ \E a \in Base..(Top - 1) : page_fault_handler(a)
        \/ CleanStep

Spec == Init /\ [][Next]_vars

\* The kernel finishes the system call it is in: the timer cannot preempt it
\* (interrupts are off in system calls), so only vma_cleanup itself can run.
FairSpec == Spec /\ WF_vars(CleanStep)
-----------------------------------------------------------------------------
\* No two areas overlap and none is empty, although mmap looks for a gap of
\* the length asked for and then inserts the length rounded up to pages, and
\* munmap may be called with an address in the middle of a page.
AreasDisjoint ==
  /\ \A v \in vmas : Base <= v.start /\ v.start < v.end
  /\ \A v, w \in vmas : v # w => v.end <= w.start \/ w.end <= v.start

\* vma_find's search by start finds the area of every address inside one: cuts
\* that move an area's start never hide it, nor a new area another.
FindAgrees ==
  \A a \in Base..Top : vma_find(a) = {v \in vmas : Inside(v, a)}

\* A part cut off a file area, on either side, keeps showing the file at the
\* offset it had: address and file offset stay a fixed distance apart.
OffsetStable == \A v \in vmas : v.type = "file" => v.start - v.pgoff = v.origin

\* A frame is never behind two user pages, nor mapped while the PMM has it.
FramesExclusive ==
  \A p, q \in DOMAIN mapped, f \in Frames :
     mapped[p] = Ram(f) => f \notin pool /\ (mapped[q] = Ram(f) => p = q)

\* Between system calls the anonymous pages that are mapped are exactly those
\* that areas list: munmap leaves no page of a removed area behind and takes
\* none from what remains, also when two areas meet in the middle of a page.
PagesListed ==
  area = Idle =>
    {<<p, mapped[p]>> : p \in {q \in DOMAIN mapped : mapped[q][1] = "ram"}} =
    {<<n.start, Ram(n.phys)>> : n \in UNION {Range(v.pages) : v \in vmas}}

AllInside(v) == /\ \A i \in 1..Len(v.pages) : Inside(v, v.pages[i].start)
                /\ page # Null => Inside(v, page.start)

\* munmap returns when no touched page lies outside what is left of the area.
CleanupEnds ==
  (area # Idle /\ \A v \in vmas : v.start = area => AllInside(v)) ~> (area = Idle)

\* "This page is outside the VMA range, we should free it" (vma.c:29): the frame
\* of a page that vma_cleanup finds outside the area goes back to the PMM.
OutsidePageFreed ==
  \A f \in Frames :
    (area # Idle /\ page.phys = f /\ \A v \in vmas : v.start = area => ~Inside(v, page.start))
      ~> (f \in pool)

\* "If the unmap region is in the middle of the VMA, we need to split it"
\* (vma.c:207): the pages of the part above the hole stay mapped; a page loses
\* its mapping only when no area contains it any more.
SplitKeepsUpper ==
  [][\A p \in DOMAIN mapped : (\E v \in vmas' : Inside(v, p)) => p \in DOMAIN mapped']_vars
-----------------------------------------------------------------------------
\* The inductive invariant.

\* Areas are records; what a list holds is said in Listed.
IsArea(v) == v \in [start : Int, end : Int, type : {"anon", "file"}, pgoff : Int,
                    pages : {v.pages}, origin : Int]
Shapes == \A v \in vmas : IsArea(v)

WithinTop == \A v \in vmas : v.end <= Top

IsFirst(w) == \A x \in vmas : w.start <= x.start
Adjacent(v, w) == v.end <= w.start /\ \A x \in vmas : v.end <= x.start => w.start <= x.start

Whole(n) == n % PageUnits = 0

\* Every gap is a whole number of pages, although its bounds need not be page
\* boundaries: mmap and munmap take and give back whole pages.
GapsWhole ==
  \A w \in vmas :
    /\ IsFirst(w) => Whole(w.start - Base)
    /\ \A v \in vmas : Adjacent(v, w) => Whole(w.start - v.end)

PoolSound == pool \subseteq Frames

\* The lists and the page table agree, and no page is listed by two areas.
Listed ==
  /\ \A v \in vmas : v.pages \in Seq([start : Int, phys : Frames])
  /\ \A v \in vmas : \A i \in 1..Len(v.pages) :
       /\ v.pages[i].start \in DOMAIN mapped
       /\ mapped[v.pages[i].start] = Ram(v.pages[i].phys)
       /\ \A w \in vmas : \A j \in 1..Len(w.pages) :
            w.pages[j].start = v.pages[i].start => w = v
  /\ \A p \in DOMAIN mapped : mapped[p][1] = "ram" =>
       \E v \in vmas : \E i \in 1..Len(v.pages) : v.pages[i].start = p

\* vma_cleanup has met a page outside the area: it never gets past it.
Stuck == /\ area # Idle /\ page # Null
         /\ \A v \in vmas : v.start = area => ~Inside(v, page.start)

IInv == /\ Shapes /\ WithinTop /\ AreasDisjoint /\ GapsWhole /\ OffsetStable
        /\ PoolSound /\ FramesExclusive
        /\ Listed \/ Stuck
=============================================================================
