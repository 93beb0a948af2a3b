# TLA+ verification of ReddyOS

ReddyOS is a hobby kernel in C and x86-64 assembly: one CPU, one address space
per process, a timer-driven scheduler, and one user program (`/bin/init`). This
directory holds TLA+ models of its core, the TLC runs that check them, and
TLAPS proofs. Paths below are relative to the repository.

## Inventory

| Component | State | Operations | Interacts with | What makes it correct |
|---|---|---|---|---|
| Page allocator, `src/memory/pmm.c` | free list threaded through the pages, refill cursor into the boot loader's map | `pmm_init`, `pmm_alloc_page`, `pmm_free_page`, `pmm_fill` | called by heap, page tables, ELF loader, faults; takes no lock | each page has one owner, none is lost, it panics only when all are held |
| Heap, `src/memory/heap.c` | block list, cursor | `kmalloc`, `kcalloc`, `kfree`, `request_pages` | takes pages, maps them into the kernel half | live objects never overlap and fit |
| Page tables, `src/memory/vmm.c` | four-level trees | `vmm_map`, `vmm_unmap`, create and destroy an address space | all trees share the kernel half | exact translations, one use per frame, kernel half common |
| Areas, `src/memory/vma.c`, `src/syscalls/memory` | tree of areas, page lists | `mmap`, `munmap`, fault, cleanup | page fault handler, framebuffer, page allocator | areas disjoint, pages and lists agree, cleanup ends |
| Scheduler and threads, `src/scheduler` | thread list, current thread, saved contexts | `scheduler_init`, `scheduler_add`, `schedule`, thread creation | runs inside the timer interrupt, switches CR3, FS, FPU, stack | contexts complete, user state preserved, round robin |
| Entry paths, `src/interrupts`, `src/syscalls/syscall_entry.asm` | GS base, IF, interrupt stack, LAPIC in-service bit | IRQ, exception and system call entry and return | everything | GS parity, end of interrupt, frames not overwritten |
| Process creation, `src/scheduler/process.c`, `src/kernel_common/elf.c` | address space, stack bounds | `process_create`, ELF mapping, `grow_user_stack` | page tables, allocators, descriptors | destroying an address space gives back every frame once, segments land where they belong, stack within its limit |
| Descriptors and files, `src/filesystem/fd`, `src/filesystem/vfs/vfs.c` | open file table, per-process tables, offsets | `open`, `close`, `read`, `write`, `lseek` | heap, tarfs, framebuffer, terminal | exact reference counts, no dangling entry, offsets in range |
| Name space: mounts, devfs, tarfs | fixed tables | mount, lookup, archive parsing | VFS | lookups agree with paths; tables within bounds |
| Clocks, `src/time` | list of sources, software sum of the PM timer, TSC base and rate, boot clock, date at boot | initialisation of each source, calibration, reading, busy sleep, `clock_gettime`, `nanosleep` | LAPIC calibration, FADT, system calls, uACPI | sleeps are long enough and end; elapsed time, tick and date are right |
| uACPI host, `src/acpi/uacpi_kernel.c` | spinlocks, mutexes, events, ring of deferred work, handler table of `irq.c` | lock, wait, signal, post, drain, install a handler | called by uACPI from threads and from interrupts; clocks, heap | mutual exclusion, no lost work or signal, timed waits end |
| Boot, ACPI tables, IDT, FPU, terminal, panic, C helpers | set once, or output | | | |

Hard behaviours: the timer interrupts any instruction executed with interrupts
on, kernel code included, and the allocators have no locks; an interrupt from
user code always starts at the same stack; `noreturn` is declared of a function
that returns; address spaces copy the kernel half only once; `munmap` splits and
shrinks areas whose page lists it walks while it frees them; process creation
can fail half way; every conversion of time is a product in 64 bits of counters that
wrap; uACPI's locks and queue are used from threads and from interrupts. There is no second CPU and nothing persistent, so there are
no messages and no crash recovery.

`PROJECT.json` lists the components with what is left out of each, and the
hazards at their lines.

## Modules

| Module | Models | Abstract specification | Proofs |
|---|---|---|---|
| `Pmm` | `pmm.c` | `PageAllocator` | `PmmProofs` |
| `Heap` | `heap.c` | `ObjectAllocator` | `HeapProofs` |
| `Sched` | `scheduler.c`, `thread.c`, `thread.asm`, `irq.asm`, `irq.c`, `isr.asm`, `syscall_entry.asm`, `kmain` and `load_init` | | `SchedProofs` |
| `Process` | `vmm.c`, `process_create`, `elf.c`, stack growth | | `ProcessProofs` |
| `Vma` | `vma.c`, `mmap`/`munmap`, anonymous and framebuffer faults | | `VmaProofs` |
| `Files` | `fd.c`, offsets of `vfs.c` | | `FilesProofs` |
| `Namespace` | `tarfs_init`, `mount_fs`, `devfs.c`, `vfs_find_vnode`, `vfs_stat` | | `FilesProofs` |
| `Clocks` | `time/`, `syscalls/time/`, `lapic_timer_start` | | `ClocksProofs` |
| `UacpiHost` | synchronisation in `uacpi_kernel.c`, dispatch in `irq.c` | | `UacpiHostProofs` |

An `MC` module gives each its constants. Operators that `PROJECT.json` names
under "mutants" are marked `Mutant:`; they are wrong versions of the operator
that follows, used only to see that a property notices.

**Pmm.** `freelist`, `fillEntry`, `fillOffset` and `added` are the code's
variables; `owned` is a history of the pages handed out. Each turn of the loop
of `pmm_fill` is an action (`FillSkip`, `FillEnter`, `FillPush`, `FillLeave`,
`FillDone`), because the cursor must survive a batch that ends anywhere. The
abstract allocator only says: a free page becomes owned, an owned page becomes
free, out of memory means nothing is free.

**Heap.** Blocks have a base page, a size and a free flag; sizes are numbers
below `SizeMod` and wrap. `request_pages` leaves an unmapped page after each
block. `holder` is a history of what each block was asked for. The abstract
allocator keeps a set of live byte ranges and demands that a new one is clear of
all of them.

**Sched.** Three contexts exist in the shipped system: `kmain` itself
(`bootstrap_task`), the kernel thread that runs `load_init`, and the user thread
of init. `phase` says what the CPU does: run the current context, an interrupt's
handler, the way back. `saved` records where a context's saved stack pointer
leads (a prepared entry frame, its own stack, the interrupt stack). User
registers travel through `irqFrame` and `sysFrame`; `view` is a history of what
user code last computed. `load_init` runs in pieces between which a tick may
come; `process_stack` is the piece that runs on the borrowed page tables of the
new process. Since `arch_switch_thread` is declared noreturn, what follows its
return is the compiler's choice: `ResumeOutcomes` ("return" or "stray"). A page fault
comes from user code, on the interrupt stack and with a swap of GS, or from a system
call that touches user memory, on the stack of the call and without one. A system call
ends, stops the kernel, or hangs with interrupts off (`SyscallHangs`), as `munmap` does
in `vma_cleanup`.

**Process.** `tables` holds four-level trees with `Radix` entries per table;
entry 0 means not present. An allocating computation threads a record (tables,
free, oom, position) through `get_next` and `vmm_map`. Creation, the loop over
stack pages, the loops over a segment's pages, failure and stack growth are
actions; `wanted` is a history of what each page was mapped to. `free` says which
frames the free list leads to. Frames are handed out from the highest down, as a batch of `pmm_fill` is,
so that consecutive pages of a segment are not in consecutive frames. `data` is
physical memory in units of which `Units` make a page. A segment has an address, a
size in the file and in memory, and a position in the file; it is read and cleared in
chunks of a page, each translated once and then written through the direct map
(`Target`). A chunk that crosses the end of its page goes on in the physically next
frame. If that is a page of the process, the load goes on with what was overwritten
(`Filled`); if it is anything else, the loader has written over a table, the heap or a
free frame, and the model stops following the kernel there (`ElfOverruns`, "wild").
`ImageAssumption` only says that segments share no page with each other or with the
stack, which is what linkers produce.

When a load fails, `process_create` destroys the address space and then frees the stack
pages a second time. `pmm_free_page` keeps its link inside the page, so the second time
the list closes into a cycle: the pages of the stack, what `paging_destroy_address_space`
freed after them, and the PML4. `CreateFails` computes which frames those are from the
order of the frees (`FreedAfter`); every other free frame is lost.

**Vma.** Areas are records with their page list; `mapped` is the process's
translation for the area part, `pool` the free frames. `vma_cleanup` is modelled
loop turn by loop turn with its `page` and `prev`; `prev` starts
uninitialised. The balanced tree of the code's library is external: a search for
the greatest start not above an address.

**Files.** `files` is the heap of `file_t`, `table` the global open file table,
`fds` the descriptor tables; growth doubles them, and each allocation may fail
(an over-approximation: `kmalloc` panics rather than return NULL). `closing` is a
history of the process and descriptor that the last call was asked to close, empty for
every call but `close`; `FdStable` compares it with what disappeared.

**Namespace.** The boot reads the archive header by header into the children of
the root, mounts `/dev` there and registers the devices; then programs open paths
and ask for their status. A string is the sequence of what stands between its
slashes, so that `/`, `//`, `dev/` and the archive's `./` differ as they do in the
code. An open with `O_TRUNC` zeroes the vnode's size for good. `Meant` is the
reference definition of what a path names. The walk down a path is a recursive function
(`Walked`) of the number of components passed. A lookup that reads a file's bytes as
children yields `Wild`. A `.` in a path is a name
like any other to the code, so `LookupExact` leaves out paths with one (`Plain`). Assumed:
names shorter than the code's buffers, and an archive that leaves room for the mount and
the final NULL. The specification is `NamespaceSpec`, because `FilesProofs` extends this
module and `Files`. Directories of the
archive (`bin/`) are entries with a trailing slash in their name: no lookup finds
them, in the code as in `Meant`.

**Clocks.** One real time, in femtoseconds, drives all counters, so that what the
kernel computes can be compared with what passed; it moves between any two reads.
`pc` follows `clocks_init` and `lapic_timer_start`, and then the calls of programs. A
second has `FS` femtoseconds and `NS` nanoseconds; `Word` and `Word32` stand for 2^64
and 2^32, and every product is taken modulo `Word` where the code's is. A machine (a
constant) says which sources exist, at what rate, and what its RTC shows in which
format. `SleepStart` and `SleepPoll` are the reads of `busy_sleep_ticks`; reading the
PM timer changes its sum (`ReadEffect`). The outcomes of a NULL clock are the states
"panic" (where the code checks) and "crash" (where it does not). The loops of `rtc.c` over
years and months are one recursive function, `Adding`, of what they add up (`YearDays`,
`MonthDays`). Assumed of the machine: the HPET counts 64 bits (`hpet_init` does not look
at the capability that says so), and the RTC's date does not change while `rtc_init`
reads it, so that its loop of double readings is one read.

**UacpiHost.** Two threads and the interrupt handler on one processor with its
interrupt flag. A call is one action per access to shared memory, except where
interrupts are off. The loop of `lock_spinlock` ends with the lock set whether it was
free or not, as in the code. uACPI itself is external: `Uses` says which kinds of
object it uses together, and its discipline (no recursive lock, spinlocks released in
reverse order, no waiting under a spinlock or in the handler) is in the guards.
`workRaced` and `eventRaced` record that two posts, two removals or two waits
overlapped; the code then loses items or signals, and `WorkExact` and `EventExact`
speak of the time before. Left out: that `irq_dispatch` calls a uACPI handler with the
interrupt frame instead of the ctx it was installed with, and the uninstallation of a
handler, which frees the wrapper and leaves the handler in the table.

How they fit: `Sched` shows that no two contexts are inside the allocators at
once, which is why `Pmm`, `Heap`, `Process`, `Vma`, `Files` and `Namespace` may
treat their calls one at a time, and that a PIT tick may leave `kmain` for good, which
is `KmainAbandoned` of `Clocks`; `Heap`, `Process` and `Vma` use the page allocator only in
the way `PageAllocator` describes.

## Runs

| Run | Bounds | Shows |
|---|---|---|
| `pmm` | six map entries: one straddling 1 MiB, one reserved, one unaligned, one without a whole page, one with an aligned end, one directly after it; batch 3 | ownership, conservation, panic only when exhausted, refinement of `PageAllocator` |
| `heap` | requests 0, 1, one page less header, one more, the largest that does not wrap a 14-bit size; 5 pages | refinement of `ObjectAllocator`, separation by guard pages |
| `sched` | the system's three contexts, two values for registers and FS, ticks before the timer is started, both outcomes of a resumed `schedule` | GS parity, preserved user state, matching address space, allocator exclusion, sound switch targets; round robin unless a call hangs, init starts |
| `sched_return` | the same | **violation**: a resumed thread returns from `arch_switch_thread` |
| `vma` | pages of two units, four of them, `munmap` at any address, lengths 1 and 5, two frames, framebuffer of two pages | areas disjoint, search agrees with containment, offsets stable, frames exclusive, page lists agree with mappings, cleanup without drops ends |
| `vma_cleanup` | as `vma` | **violation**: dropped frames are not freed |
| `vma_split` | as `vma` | **violation**: pages above a hole are unmapped |
| `files` | two processes, tables of 3 that double, at most 6 files, an archive file of 2 units and a framebuffer of 1, seeks before and behind the end, any allocation failing | no dangling entry, exact counts, offsets in range, only the closed descriptor disappears |
| `namespace` | four archives: empty, packed with `./`, with names that compete with `/dev`, with an entry twice; 120 paths with no, one or two slashes at either end | lookups agree with the reference with or without a slash at either end, status counts entries |
| `process` | four levels of two entries, 23 frames, 4 heap pages, pages of 2 units, six images of which two have a chunk across the end of a page, stack of 2 that grows by 2 | well-cut segments loaded exactly, exact translations, shared kernel half, one use per frame, destruction gives back all, stack within its limit, faults make progress |
| `clocks` | seven machines (HPET, PM timer of 16 or 64 ticks and TSC present or not, broken HPET, still TSC), a second of 120 fs, a word of 2^14, 90 fs, a loop late by 1 fs at most | sleeps long enough, sleeps end, elapsed time, tick period and date |
| `uacpi` | two threads and the handler; two spinlocks and a mutex, an event with 2 signals, or a ring of 3 with 3 posts; timeouts of 0 and 1 turn, and without end | exclusion, exact work and signals, timed waits end |

Why the bounds are enough to see the cases: `pmm`'s batch ends inside an entry,
at its end and between entries; `heap` has a block that is reused by a smaller
request, and requests that miss by one byte; `sched` has all the contexts that
the kernel ever creates, so it is not a small instance at all apart from the
values; `process` has images in tables of their own and shared with the stack,
and few enough frames to run out at every step; `vma` has room for a hole with an
area on either side; `files` grows both tables; in `clocks` the PM timer wraps several
times during a sleep, the product of `CLOCK_NS` overflows, and a period of the PM
timer is missed; in `uacpi` the ring is full, wraps, and is posted to at every step of a
removal, and spinlocks nest in a thread and in the handler that interrupts it. Events
and the queue share nothing with the other objects but the processor, so `uacpi`
explores them apart.

A type invariant is part of each inductive invariant that is proved, and is not
repeated in a run.

`CHECK_DEADLOCK FALSE` appears where the system may stop: after a panic, and when
a bound is reached.

### Fairness

* `sched`: a pending interrupt stays latched in the LAPIC until IF lets it
  in, so the timer's entry is strongly fair; the handler runs with interrupts off
  and is weakly fair; the timer period (milliseconds) is long against each piece
  of kernel code, so `kmain` and `load_init` get on although preempted (strong
  fairness, enabled again and again); the handling of a page fault ends; a system call
  ends or hangs, whichever it does (strong fairness of the two together, since faults
  come in between), and `RoundRobin` excepts a kernel that hangs. User code has no
  fairness.
* `vma`: the loop of `vma_cleanup` runs inside a system call with interrupts off,
  so nothing else runs (weak fairness of `CleanStep`).
* `clocks`: the kernel goes on and time passes (weak fairness of `KernelStep` and
  `Tick`); a waiting loop reads its clock at least every `PollGap`.
* `uacpi`: a spinlock is released and the handler goes on and returns, with interrupts
  off and a bounded number of calls (weak fairness); the scheduler is round robin
  (`RoundRobin` of `Sched`), so a thread gets the processor again and again, for many
  turns of a loop (strong fairness of `SwitchTo` and `ThreadStep`).
* Other runs need none. The termination of repeated stack faults is stated as a
  step property (`FaultProgress`): every fault brings the page, lowers the bounded
  bottom, or stops the kernel.

### Findings

1. `sched_return`: `scheduler.c:71` says `arch_switch_thread` should never
   return; it returns every time a preempted thread is resumed.
2. `vma_cleanup`: `vma.c:29` says a page out of range should be freed; its frame
   never is. The loop also does not advance past a dropped entry.
3. `vma_split`: the split of `vma.c:207` leaves the upper pages on the lower
   area's list, from where they are unmapped.

`vfs_find_vnode` (`vfs.c:64`) goes into any node whose `internal` is not NULL,
files and the framebuffer included, although `vfs.c:96` says that a directory also
has no `ops`. `Namespace` has the outcome as `Wild`, which `LookupExact` leaves out.

Outcomes that the models have and no text of the repository contradicts, so that they
are not findings: `elf.c:225,237` write a chunk of up to a page from any address
through the direct map, so that a segment that starts or whose cleared part starts
inside a page, and goes on behind it, overwrites the physically next frame (data and
bss as linkers lay them out by default); `process.c:223` frees the stack's pages a
second time when the ELF file cannot be loaded, which turns the free list into a cycle
and loses what was behind it, just before `load_init` panics;
`clock.c:10` asks for a clock source by the number of `CLOCK_REALTIME` and calls a NULL
function; `lapic.c:103` dereferences the HPET of a machine without one; `CLOCK_NS`
wraps after seconds on a fast TSC; `rtc.c:97` turns noon and midnight of a 12-hour
clock around, and `rtc.c:55` starts to read when an update begins; two overlapping
posts of deferred work, or two waits for an event, lose one; `uacpi_kernel.c:560`
unmasks a line before its handler is registered, and nothing ever unregisters it;
`fb.c:110` maps framebuffer pages that no `munmap` unmaps; `vma.c:204` lets a length
wrap; `vfs.c:163` calls through a NULL `ops`; `vfs.c:28` does not find `./name` although
`tarfs.c:93` drops the same `./` from the names in the archive.

`FramesUsedOnce` is stated up to a failure, and `DestroyExact` says of a failed load what
`paging_destroy_address_space` gives back, before the second free. `ElfExact` is stated
for images without a chunk across the end of a page (`WellCut`), in a model that loads
the others as well.

## Proofs

All proofs hold for every value of the constants that the named assumptions allow.

* **`PmmProofs`.** The inductive invariant is `TypeOK /\ SingleOwner /\
  Conservation /\ CursorSound`. Conservation says that owned and listed pages
  together are exactly the pages the cursor has passed; it is not inductive without
  the cursor's position being page aligned inside a usable entry, which is
  `CursorSound`. Lemmas say what each move of the cursor adds to the pages passed.
  `PanicTheorem` follows because a panic happens with an empty list and the cursor
  at the end. `Refinement` maps fill steps to stutters. Assumptions: usable map
  entries do not overlap (the boot loader's promise), the batch is positive.
* **`HeapProofs`.** The invariant is `TypeOK /\ RegionsApart /\ FreeMeansUnheld /\
  HeldFits`; the refinement needs it to show that a reused block is clear of the
  others. Assumption: no request is so large that rounding and header wrap
  (`MaxRequest`).
* **`SchedProofs`.** The invariant adds `BootOrder` (how far `kmain` is against the
  thread list), `LoadOrder` (how far `load_init` is against the user thread) and
  `UserContext` (in which frame or image the user's state is while it does not run).
  These say why preemption anywhere is harmless: until `load_init` is done there is
  no other thread to switch to. The theorems cover early ticks and either outcome of
  a resumed `schedule`: sound switch targets, paired `swapgs` (`SwapgsPaired`), the
  page tables of the running thread (`PageTablesMatch`), preserved user state and
  exclusion from the allocators.
* **`VmaProofs`.** `AreasDisjoint` alone is not inductive: `mmap` searches a gap for
  the length asked for and then takes it rounded up to pages. It is safe only because
  every gap is a whole number of pages (`GapsWhole`), before the first area and
  between neighbours, which shrinks and splits at any address preserve, since they
  too give back whole pages. The frames need `Listed` (lists and page table agree,
  no page on two lists) in every state in which `vma_cleanup` can still come to its
  end; once it has met a page outside its area it stays there (`Stuck`), and nothing
  else ever runs. Lemmas: remainders, neighbours in a finite set of intervals, what
  removing one entry does to a list. Assumptions: page size above 0, `Base` aligned,
  lengths above 0.
* **`FilesProofs`.** `RefcountsExact` is about a count of descriptors, `NoDangling`
  about two tables of which each call changes part. The invariant says that
  descriptors, slots of the open file table and file objects correspond one to one
  (`Slots`, `Links`), which also makes every reference count 1: `of_open` alone raises
  it. It is stated of the tables as values, so that the three calls of
  `process_fd_open` in a row that make a process are three uses of one lemma, which
  covers every allocation that can fail. Offsets need `SizesSound`: a truncation
  shrinks the size a vnode reports, never the data behind it.

  The second part is about `Namespace`. `NamesInv` says what the directories hold at each
  stage: the headers read so far, in order (`Reading`); after the mount, the archive with
  the device directory in the place of the first entry called `dev`, or behind the last
  one (`RootHas`); the devices in the order of their registration (`DevHas`); each up to
  its size, which a truncation sets to 0. Dropping a leading `./` leaves a name from just
  the two spellings that `Meant` accepts (`UnpackedIs`); what `vfs_find_vnode` looks for,
  without a slash at either end, is the sequence of the path's names (`PathNames`). The
  recursive function of the walk is shown to exist by a least counterexample (`WayExists`,
  `WalkedSteps`), not by the library's induction; from a node with `ops` it goes nowhere
  or astray, and stays there (`WalkEnds`). So the walk ends at a device two components
  down or finds nothing (`WalkFinds`), and what the whole name does not find in the
  archive is found only below `/dev`. The status needs that every node a walk can reach
  has framebuffer operations exactly if it has the framebuffer behind it (`Settled`).
  Assumptions: the archive leaves room for mount and NULL, names and paths are strings.
* **`ProcessProofs`.** The longest. `Forest` says, of tables, free counts, root and
  the frames allocated and not yet mapped: the copied kernel half apart, no two
  entries lead to one frame (`OneParent`); entries lead to frames in use (`Linked`);
  free frames are blank (`Blank`); no frame is lost (`Placed`). From it follows that
  two walks that meet are of one level and of pages with one prefix (`Unique`), and
  so that an entry set where a walk ends changes the walks behind it and no other
  (`LinkWalk`, `LinkForest`). `get_next`, `vmm_map`, a fresh frame and a new root are
  lemmas on top of it. `KernelShared` needs `HeapSound`: the kernel's root has the
  entry of its heap before any process copies it, and the heap never grows out of
  that entry (`2 * HeapPages <= Span(1)`; the code does not check that). `StackSound`
  needs segments that end below the stack (`SegmentsWait`, from `ImageAssumption`).
  `DestroyExact` follows from `Placed` (nothing is lost) and from the single use of
  every frame (nothing is freed twice). Every radix that is even and above 1 is
  covered; 512 is the code's.

  `ElfExact` needs the contents of memory (`ContentsInv`): what is still to be loaded is
  the end of the image, and the first segment of it is mapped as far as the loop got
  (`Rest`); each page of the segments that are done holds what the file has for it and
  zeros behind, and every other frame is zero (`Written`). A write
  goes to a frame, not to an address; that it changes no other page rests on no two pages
  leading to one frame (`WantedOnce`, from `Forest`), and that it stays inside the frame
  on `WellCut`, from which also follows that the loader never writes outside the process
  (`NeverOverruns`).
* **`UacpiHostProofs`.** `lock_spinlock` never waits, so exclusion rests on the
  interrupt flag: only the context on the processor can hold a spinlock and then
  interrupts are off; flags saved by a nested lock, or in the handler, say off
  (`SpinInv`). `WorkExact` needs, until two posts or removals overlap, that a post finds
  the slot it looked at still free and a removal its entry still there, for any
  wrapping of the ring (`PostSound`, `TakeSound`, `RingHolds`, `RanOnce`); `EventExact`
  that a waiter that saw a signal is the only one (`EventInv`).

* **`ClocksProofs`.** For every machine, length of a second, word and lateness of a loop. The
  invariant has a part for each thing the code computes and later relies on: which sources
  are registered in which stage of `clocks_init` (`Basics`, `ListSound`, `Staged`), the sum
  of the PM timer's differences (`PmSound`), how far a sleep has got (`SleepSound`) and how
  late its last read was (`PollSound`), the LAPIC's measurement (`LapicSound`,
  `MeasureSound`), the clock chosen at boot (`BootSound`), the reply of the last call
  (`ReplySound`) and the date (`RtcSound`). A sleep counts differences modulo the word, so
  it is long enough wherever the counter wraps, up to a tick at each end and the error of
  a calibrated rate, which the invariant carries from the calibration to the sleep. The
  time since boot is exact to a tick while the product of `CLOCK_NS` fits and, for the
  software sum, no period of the PM timer was missed between two reads. For the date,
  `Adding` is shown to exist and is unfolded by a least counterexample; lemmas on leap
  years, BCD and the 12-hour format give the Gregorian count for every date from 1970 to
  2199. Assumptions: the units are positive and ten divides `NS` (`UnitAssumption`); the HPET's period divides the second, otherwise the code's frequency
  is rounded down by less than one part in 10^7, and the PM timer's period divides its
  word, as 2^24 and 2^32 divide 2^32 (`MachineAssumption`); what the code adds without a
  check does not wrap (`WidthAssumption`): up to `MaxTime`, which stands for the time the
  machine runs, no 64-bit counter or sum comes round (at 3 GHz that takes decades even of
  ten times the TSC), and what the LAPIC counts during its measurement fits in 32 bits.

Each of these invariants was model-checked on the run's instance before it was proved.

Only model-checked: liveness (`RoundRobin`, `InitStarts`, `CleanupEnds`, `SleepEnds`,
`WaitsEnd`), which the proof system does not do. Every invariant and every action
property of a passing run is also a theorem.

`SingleOwner`, `CursorSound`, `FreeMeansUnheld` and `HeldFits`, and the parts of the other
inductive invariants that are not properties of a run, are proved and not repeated in
one.

## Plan

1. Done: all nine modules checked, and every safety property of a passing run proved.
2. Open, with what each would take: `vmm_unmap` and permission bits in `Process`; the
   mapping of tables by uACPI; a composition of `Files` and `Vma`, once the code says
   what an area may expect of its file after `close`.

## Not modelled

Output (terminal, panic text, core dump), the register protocols of the APICs and the
PIC beyond masking, end of interrupt and the timer's count, ACPI table reading beyond
what the clocks use, the boot loader's requests, memory and string helpers, permission
bits of page-table entries, the program headers' address (`elf_read_info`), what
`setup_process_stack` writes, `switch.asm` (unused), the init program and the
toolchain. Of the uACPI host: `uacpi_kernel_map` and `unmap` (their result depends on
what the boot loader mapped), port and PCI access, logging, firmware requests.

`Files` and `Vma` are not composed: the only thing they share is the `file_t` pointer
an area keeps without a reference, and the code gives no promise about it after
`close`. Addresses in `Vma` have no width, for the same reason (`addr + len`).
