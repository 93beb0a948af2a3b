-------------------------------- MODULE Pmm --------------------------------
(***************************************************************************)
(* The physical page allocator of src/memory/pmm.c: a free list threaded   *)
(* through the pages themselves, refilled lazily, a batch at a time, from  *)
(* the boot loader's memory map.  The cursor into the map survives between *)
(* batches as (freelist_pmm_fill_entry, freelist_pmm_fill_offset), where   *)
(* an offset of 0 means "this entry has not been started".                 *)
(*                                                                         *)
(* Addresses are bytes.  A caller is anything that runs the allocator; no  *)
(* two of them are ever inside it together (Sched!AllocatorExclusion), so  *)
(* one program counter suffices.                                           *)
(***************************************************************************)
EXTENDS Integers, Sequences

CONSTANTS MemMap,   \* the memory map: a sequence of [base, length, usable]
          Batch,    \* pages added by one pmm_fill call (512 in the code)
          TopFrame  \* no map entry ends above page frame TopFrame

PAGE_SIZE == 4096
LowMemory == 1048576     \* the first megabyte is never allocated

Entries == 1..Len(MemMap)
EntryEnd(i) == MemMap[i].base + MemMap[i].length

\* Limine's promise about usable entries: they do not overlap.  Nothing is
\* assumed about their alignment or about the other entries.
ASSUME MapAssumption ==
  /\ TopFrame \in Nat
  /\ MemMap \in Seq([base : Nat, length : Nat, usable : BOOLEAN])
  /\ \A i \in Entries : EntryEnd(i) <= TopFrame * 4096
  /\ \A i, j \in Entries : MemMap[i].usable /\ MemMap[j].usable /\ i # j
        => EntryEnd(i) <= MemMap[j].base \/ EntryEnd(j) <= MemMap[i].base

ASSUME BatchAssumption == Batch \in Nat \ {0}

VARIABLES freelist,     \* the free list, head first (freelist_pmm_head)
          fillEntry,    \* freelist_pmm_fill_entry, counted from 1
          fillOffset,   \* freelist_pmm_fill_offset
          added,        \* pages_added of the running pmm_fill
          pc,           \* where the allocator is
          caller,       \* who called pmm_fill
          owned         \* pages handed out and not given back

vars == <<freelist, fillEntry, fillOffset, added, pc, caller, owned>>

Pcs == {"boot", "idle", "fill", "entry", "pop", "panic"}

-----------------------------------------------------------------------------
ALIGN_UP(x)   == ((x + 4095) \div 4096) * 4096
ALIGN_DOWN(x) == (x \div 4096) * 4096

\* Mutant: the first megabyte is not skipped.
NoLowSkip(i) == ALIGN_UP(MemMap[i].base)

\* The page range of an entry as pmm_fill computes it.
AlignedStart(i) == LET s == ALIGN_UP(MemMap[i].base)
                   IN  IF s < LowMemory THEN LowMemory ELSE s
AlignedEnd(i)   == ALIGN_DOWN(EntryEnd(i))

Usable(i) == MemMap[i].usable /\ AlignedStart(i) < AlignedEnd(i)

\* Mutant: off by one, the last page of an entry is skipped.
ExhaustedEarly(i, off) == MemMap[i].base + off + PAGE_SIZE >= AlignedEnd(i)

\* One page does not fit between the cursor and the end of entry i.
Exhausted(i, off) == MemMap[i].base + off + PAGE_SIZE > AlignedEnd(i)
-----------------------------------------------------------------------------
Init == /\ freelist = <<>>
        /\ fillEntry = 1 /\ fillOffset = 0
        /\ added = 0
        /\ pc = "boot" /\ caller = "init"
        /\ owned = {}

\* pmm_init: the first batch.
PmmInit == /\ pc = "boot"
           /\ pc' = "fill" /\ added' = 0 /\ caller' = "init"
           /\ UNCHANGED <<freelist, fillEntry, fillOffset, owned>>

\* pmm_alloc_page, up to the test of the free list.
AllocCall == /\ pc = "idle"
             /\ caller' = "alloc"
             /\ IF freelist = <<>>
                THEN pc' = "fill" /\ added' = 0
                ELSE pc' = "pop" /\ UNCHANGED added
             /\ UNCHANGED <<freelist, fillEntry, fillOffset, owned>>

\* The outer loop of pmm_fill runs while entries and quota last.
FillGoesOn == fillEntry \in Entries /\ added < Batch

\* An entry that is not usable, or holds no whole page above 1 MB.
FillSkip == /\ pc = "fill" /\ FillGoesOn /\ ~Usable(fillEntry)
            /\ fillEntry' = fillEntry + 1 /\ fillOffset' = 0
            /\ UNCHANGED <<freelist, added, pc, caller, owned>>

\* A usable entry: start it if the cursor has not, then add pages.
FillEnter ==
  /\ pc = "fill" /\ FillGoesOn /\ Usable(fillEntry)
  /\ fillOffset' = IF fillOffset = 0
                   THEN AlignedStart(fillEntry) - MemMap[fillEntry].base
                   ELSE fillOffset
  /\ pc' = "entry"
  /\ UNCHANGED <<freelist, fillEntry, added, caller, owned>>

\* The inner loop of pmm_fill: link the page at the cursor into the list.
FillPush ==
  /\ pc = "entry" /\ ~Exhausted(fillEntry, fillOffset) /\ added < Batch
  /\ freelist' = <<MemMap[fillEntry].base + fillOffset>> \o freelist
  /\ added' = added + 1
  /\ fillOffset' = fillOffset + PAGE_SIZE
  /\ UNCHANGED <<fillEntry, pc, caller, owned>>

\* Mutant: moving on to the next entry forgets to reset the offset.
FillLeaveNoReset ==
  /\ pc = "entry" /\ (Exhausted(fillEntry, fillOffset) \/ added = Batch)
  /\ fillEntry' = IF Exhausted(fillEntry, fillOffset)
                  THEN fillEntry + 1 ELSE fillEntry
  /\ pc' = "fill"
  /\ UNCHANGED <<freelist, fillOffset, added, caller, owned>>

\* The inner loop ends; a finished entry is left behind.
FillLeave ==
  /\ pc = "entry" /\ (Exhausted(fillEntry, fillOffset) \/ added = Batch)
  /\ IF Exhausted(fillEntry, fillOffset)
     THEN fillEntry' = fillEntry + 1 /\ fillOffset' = 0
     ELSE UNCHANGED <<fillEntry, fillOffset>>
  /\ pc' = "fill"
  /\ UNCHANGED <<freelist, added, caller, owned>>

FillDone == /\ pc = "fill" /\ ~FillGoesOn
            /\ pc' = IF caller = "init" THEN "idle" ELSE "pop"
            /\ UNCHANGED <<freelist, fillEntry, fillOffset, added, caller, owned>>

\* The rest of pmm_alloc_page: unlink the head and return it.
Pop == /\ pc = "pop" /\ freelist # <<>>
       /\ owned' = owned \cup {Head(freelist)}
       /\ freelist' = Tail(freelist)
       /\ pc' = "idle"
       /\ UNCHANGED <<fillEntry, fillOffset, added, caller>>

\* Nothing left after the refill: panic("PMM: out of memory").
OutOfMemory == /\ pc = "pop" /\ freelist = <<>>
               /\ pc' = "panic"
               /\ UNCHANGED <<freelist, fillEntry, fillOffset, added, caller, owned>>

\* pmm_free_page, of a page its caller owns.
FreePage(p) == /\ pc = "idle" /\ p \in owned
               /\ freelist' = <<p>> \o freelist
               /\ owned' = owned \ {p}
               /\ UNCHANGED <<fillEntry, fillOffset, added, pc, caller>>

Next == \/ PmmInit \/ AllocCall
        \/ FillSkip \/ FillEnter \/ FillPush \/ FillLeave \/ FillDone
        \/ Pop \/ OutOfMemory
        \/ \E p \in owned : FreePage(p)

Spec == Init /\ [][Next]_vars
-----------------------------------------------------------------------------
Listed(s) == {s[k] : k \in 1..Len(s)}
NoDup(s) == \A j, k \in 1..Len(s) : s[j] = s[k] => j = k

\* The pages of the machine, from the memory map alone: whole, aligned page
\* frames inside a usable entry and above the first megabyte.
PageIn(f, i) == /\ MemMap[i].usable
                /\ LowMemory <= f * 4096
                /\ MemMap[i].base <= f * 4096
                /\ f * 4096 + 4096 <= EntryEnd(i)
Frames == {f \in 0..TopFrame : \E i \in Entries : PageIn(f, i)}
AllPages == {f * 4096 : f \in Frames}

\* The pages passed by a cursor at entry e, offset off.
PassedFrames(e, off) == {f \in Frames : \E i \in Entries :
                           /\ PageIn(f, i)
                           /\ \/ i < e
                              \/ i = e /\ f * 4096 < MemMap[i].base + off}
PassedPages(e, off) == {f * 4096 : f \in PassedFrames(e, off)}

\* Type correctness of the allocator's variables.
TypeOK == /\ freelist \in Seq(Nat)
          /\ fillEntry \in 1..(Len(MemMap) + 1)
          /\ fillOffset \in Nat
          /\ added \in 0..Batch
          /\ pc \in Pcs
          /\ caller \in {"init", "alloc"}
          /\ owned \subseteq Nat

\* A page is on the free list at most once, and never while it is owned: no
\* page is handed to two callers (pmm_alloc_page, pmm_free_page, pmm_fill).
SingleOwner == /\ NoDup(freelist)
               /\ Listed(freelist) \cap owned = {}

\* The lazy refill neither loses a page nor invents one: at every moment the
\* pages the cursor has passed are exactly those that are free or owned.
Conservation == Listed(freelist) \cup owned = PassedPages(fillEntry, fillOffset)

\* Between two batches the cursor is either at the start of an entry (offset 0)
\* or on a page boundary inside a usable one, and a refill that ended with
\* nothing on the free list has reached the end of the map.  With the three
\* properties above this is inductive.
CursorSound ==
  /\ (pc = "entry" \/ fillOffset # 0) =>
        /\ fillEntry \in Entries /\ Usable(fillEntry)
        /\ AlignedStart(fillEntry) <= MemMap[fillEntry].base + fillOffset
        /\ MemMap[fillEntry].base + fillOffset <= AlignedEnd(fillEntry)
        /\ (MemMap[fillEntry].base + fillOffset) % 4096 = 0
  /\ pc \in {"fill", "entry"} => added <= Len(freelist)
  /\ pc \in {"pop", "panic"} /\ freelist = <<>> => fillEntry = Len(MemMap) + 1
  /\ pc = "panic" => freelist = <<>>

IInv == TypeOK /\ SingleOwner /\ Conservation /\ CursorSound

\* "PMM: out of memory" is raised only when every whole page of usable memory
\* above 1 MB is owned: no page of the map is missed by the batching.
PanicMeansExhausted == pc = "panic" => owned = AllPages

\* Pmm implements the abstract allocator.
Abstract == INSTANCE PageAllocator
              WITH Pages <- AllPages, outOfMemory <- (pc = "panic")

\* Every step of the allocator is a step of the abstract one: pages change
\* hands only as PageAllocator allows, and it fails only when all are owned.
ImplementsPageAllocator == Abstract!Spec
=============================================================================
