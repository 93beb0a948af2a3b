------------------------------- MODULE Sched -------------------------------
(***************************************************************************)
(* One CPU, its interrupt and system call paths, and the round-robin       *)
(* scheduler: src/main.c (kmain, load_init), src/scheduler/, the entry     *)
(* stubs in src/interrupts/ and src/syscalls/syscall_entry.asm.            *)
(*                                                                         *)
(* Three contexts share the CPU: kmain's own (bootstrap_task, which is not *)
(* on the thread list), the kernel thread that runs load_init, and the     *)
(* user thread of the init process, which load_init creates.  Kernel       *)
(* threads run with interrupts on and can be preempted anywhere; system    *)
(* calls, exceptions and interrupt handlers run with interrupts off.       *)
(***************************************************************************)
EXTENDS Integers, Sequences

CONSTANTS Boot, LoadInit, InitThread, NoThread,   \* the contexts; NULL
          Regs,           \* user-visible register and FPU values
          EntryRegs,      \* the registers a fresh user thread starts with
          FpuDefault,     \* fpu_default_state
          FsBases,        \* FS base addresses
          NullFs,         \* FS base 0
          EarlyTicks,     \* can vector 32 fire before lapic_timer_start (PIT)?
          ResumeOutcomes  \* where a resumed schedule() lands, see Switch

ASSUME ContextAssumption ==
  /\ Boot # LoadInit /\ Boot # InitThread /\ LoadInit # InitThread
  /\ NoThread \notin {Boot, LoadInit, InitThread}
ASSUME ValueAssumption ==
  /\ EntryRegs \in Regs /\ FpuDefault \in Regs /\ NullFs \in FsBases
  /\ EarlyTicks \in BOOLEAN
  /\ ResumeOutcomes \subseteq {"return", "stray"} /\ ResumeOutcomes # {}

Threads  == {LoadInit, InitThread}
Contexts == Threads \cup {Boot}
Clobbered == "clobbered"    \* registers while the kernel uses them
ASSUME ClobberAssumption == Clobbered \notin Regs

VARIABLES kmain,       \* what kmain does next
          pc,          \* what each thread does next
          current,     \* current_thread
          threadList,  \* thread_list, in order
          phase,       \* what the CPU is doing: "run", an interrupt's stages, or stopped
          intr,        \* RFLAGS.IF
          inService,   \* the LAPIC waits for an EOI
          gs,          \* what the active GS base points to
          cr3,         \* the loaded address space
          saved,       \* what each context's saved rsp leads back to
          irqFrame,    \* user registers in the frame at the top of kernel_irq_stack
          sysFrame,    \* user registers in the frame on the system call stack
          regs, fpu, fsMsr,    \* live registers, FPU, FS base MSR
          fpuImage, fsBase,    \* thread->fpu_state, thread->fs_base
          view,        \* history: the state the user program last gave itself
          resumed      \* history: arch_switch_thread has returned to a caller

vars == <<kmain, pc, current, threadList, phase, intr, inService, gs, cr3, saved,
          irqFrame, sysFrame, regs, fpu, fsMsr, fpuImage, fsBase, view, resumed>>
cpuVars == <<regs, fpu, fsMsr>>
threadVars == <<pc, threadList, saved, fpuImage, fsBase>>

UserMode == current = InitThread /\ pc[InitThread] = "user"
SwapGs(g) == IF g = "percpu" THEN "user" ELSE "percpu"
-----------------------------------------------------------------------------
Init == /\ kmain = "scheduler_init"
        /\ pc = [t \in Threads |-> "none"]
        /\ current = NoThread /\ threadList = <<>>
        /\ phase = "run" /\ intr = TRUE /\ inService = FALSE
        /\ gs = "percpu" /\ cr3 = "kernel"
        /\ saved = [c \in Contexts |-> "none"]
        /\ irqFrame = Clobbered /\ sysFrame = Clobbered
        /\ regs = Clobbered /\ fpu = FpuDefault /\ fsMsr = NullFs
        /\ fpuImage = [c \in Contexts |-> FpuDefault]
        /\ fsBase = [c \in Contexts |-> NullFs]
        /\ view = [regs |-> EntryRegs, fpu |-> FpuDefault, fs |-> NullFs]
        /\ resumed = FALSE

\* ---- kmain, after the subsystems are up -----------------------------------
KmainRuns(at) == phase = "run" /\ current \in {NoThread, Boot} /\ kmain = at

SchedulerInit ==
  /\ KmainRuns("scheduler_init")
  /\ current' = Boot /\ kmain' = "thread_create"
  /\ UNCHANGED <<phase, intr, inService, gs, cr3, irqFrame, sysFrame, view, resumed>>
  /\ UNCHANGED <<cpuVars, threadVars>>

\* Mutant: setup_kernel_stack is forgotten.
CreateLoadInitNoStack ==
  /\ KmainRuns("thread_create")
  /\ pc' = [pc EXCEPT ![LoadInit] = "entry"]
  /\ kmain' = "scheduler_add"
  /\ UNCHANGED <<current, threadList, phase, intr, inService, gs, cr3, saved, fpuImage,
                 fsBase, irqFrame, sysFrame, view, resumed, cpuVars>>

\* thread_create(load_init): a kernel stack that enters task_bootstrap.
CreateLoadInit ==
  /\ KmainRuns("thread_create")
  /\ pc' = [pc EXCEPT ![LoadInit] = "entry"]
  /\ saved' = [saved EXCEPT ![LoadInit] = "entry"]
  /\ fpuImage' = [fpuImage EXCEPT ![LoadInit] = FpuDefault]
  /\ fsBase' = [fsBase EXCEPT ![LoadInit] = NullFs]
  /\ kmain' = "scheduler_add"
  /\ UNCHANGED <<current, threadList, phase, intr, inService, gs, cr3,
                 irqFrame, sysFrame, view, resumed, cpuVars>>

\* scheduler_add: append to the thread list.
scheduler_add(t) == threadList' = Append(threadList, t)

KmainAdd ==
  /\ KmainRuns("scheduler_add")
  /\ scheduler_add(LoadInit)
  /\ kmain' = "timer"
  /\ UNCHANGED <<pc, current, phase, intr, inService, gs, cr3, saved, fpuImage,
                 fsBase, irqFrame, sysFrame, view, resumed, cpuVars>>

\* lapic_timer_start, then hlt for ever.
KmainTimer ==
  /\ KmainRuns("timer")
  /\ kmain' = "halted"
  /\ UNCHANGED <<current, phase, intr, inService, gs, cr3, irqFrame, sysFrame,
                 view, resumed, cpuVars, threadVars>>

KmainStep == SchedulerInit \/ CreateLoadInit \/ KmainAdd \/ KmainTimer

\* ---- interrupts ------------------------------------------------------------
\* From user mode the CPU moves to rsp0, the one kernel_irq_stack, and pushes
\* the user's registers there; swapgs_if_user swaps GS.  From kernel mode the
\* frame goes onto the interrupted stack and GS stays.
Trap == IF UserMode THEN irqFrame' = regs /\ gs' = SwapGs(gs) ELSE UNCHANGED <<irqFrame, gs>>

\* Mutant: the frame always goes to the dedicated stack (an IST entry).
IrqEnterOneStack(vector) ==
  /\ phase = "run" /\ intr /\ ~inService
  /\ vector = "timer" => EarlyTicks \/ kmain = "halted"
  /\ irqFrame' = regs
  /\ gs' = IF UserMode THEN SwapGs(gs) ELSE gs
  /\ intr' = FALSE /\ inService' = TRUE
  /\ regs' = Clobbered
  /\ phase' = vector
  /\ UNCHANGED <<kmain, current, cr3, sysFrame, fpu, fsMsr, view, resumed, threadVars>>

\* irq_stub / irq_common, up to irq_handler.  Vector 32 is the timer; the
\* others unmasked at the IOAPIC (the keyboard's) have no handler.
IrqEnter(vector) ==
  /\ phase = "run" /\ intr /\ ~inService
  /\ vector = "timer" => EarlyTicks \/ kmain = "halted"
  /\ Trap
  /\ intr' = FALSE /\ inService' = TRUE
  /\ regs' = Clobbered
  /\ phase' = vector
  /\ UNCHANGED <<kmain, current, cr3, sysFrame, fpu, fsMsr, view, resumed, threadVars>>

\* Mutant: the EOI comes after the dispatch, so a switch leaves without it.
EoiLast(switches) == inService' = switches

\* irq_handler sends the EOI first, whether or not the handler switches away.
Eoi(switches) == inService' = FALSE

\* irq_handler for a vector without a handler: EOI, a message, return.
IrqUnhandled ==
  /\ phase = "other"
  /\ Eoi(FALSE) /\ phase' = "iret"
  /\ UNCHANGED <<kmain, current, intr, gs, cr3, irqFrame, sysFrame, view, resumed,
                 cpuVars, threadVars>>

\* schedule's choice: the next thread on the list, the first one after the
\* last, and the first one for bootstrap_task, whose next is 0.
Position(t) == CHOOSE k \in 1..Len(threadList) : threadList[k] = t
OnList(t) == \E k \in 1..Len(threadList) : threadList[k] = t
\* Mutant: the last thread does not wrap around to the first.
NextThreadNoWrap ==
  IF threadList # <<>> /\ OnList(current) /\ Position(current) < Len(threadList)
  THEN threadList[Position(current) + 1] ELSE NoThread

NextThread ==
  CASE threadList = <<>> -> NoThread
    [] threadList # <<>> /\ OnList(current) /\ Position(current) < Len(threadList)
         -> threadList[Position(current) + 1]
    [] OTHER -> threadList[1]

\* irq_handler + timer_handler + schedule when there is nothing to switch to.
TickStay ==
  /\ phase = "timer"
  /\ current = NoThread \/ NextThread \in {NoThread, current}
  /\ Eoi(FALSE) /\ phase' = "iret"
  /\ UNCHANGED <<kmain, current, intr, gs, cr3, irqFrame, sysFrame, view, resumed,
                 cpuVars, threadVars>>

CR3Of(t) == IF t = InitThread THEN "init" ELSE "kernel"

\* Mutant: the address space is switched only for threads of a process.
SaveRestoreKeepsCr3(next) ==
  /\ fpu' = fpuImage[next]
  /\ fpuImage' = [fpuImage EXCEPT ![current] = fpu]
  /\ fsMsr' = fsBase[next]
  /\ cr3' = IF next = InitThread THEN "init" ELSE cr3
  /\ current' = next
  /\ saved' = [saved EXCEPT ![current] = IF UserMode THEN "irqstack" ELSE "ownstack",
                            ![next] = "none"]

\* schedule's switch and arch_switch_thread: CR3, FS base, FPU, stack.
SaveRestore(next) ==
  /\ fpu' = fpuImage[next]
  /\ fpuImage' = [fpuImage EXCEPT ![current] = fpu]
  /\ fsMsr' = fsBase[next]
  /\ cr3' = CR3Of(next)
  /\ current' = next
  /\ saved' = [saved EXCEPT ![current] = IF UserMode THEN "irqstack" ELSE "ownstack",
                            ![next] = "none"]

\* The timer preempts current.  irq_handler sends the EOI before it
\* dispatches, because a switch to a fresh thread does not come back here.
\*   - a fresh kernel thread: thread_entry_kernel, sti, task_bootstrap;
\*   - a fresh user thread: thread_entry_user, swapgs, sysret with IF set;
\*   - a preempted thread: `pop rax; jmp rax` returns into schedule() behind
\*     the call of arch_switch_thread.  The function is declared noreturn, so
\*     what is there is the compiler's choice: "return" is schedule's epilogue
\*     (GCC at the project's -O2), "stray" anything else.
Switch ==
  /\ phase = "timer" /\ current # NoThread
  /\ LET next == NextThread IN
     /\ next \notin {NoThread, current}
     /\ Eoi(TRUE)
     /\ SaveRestore(next)
     /\ \/ /\ saved[next] = "entry" /\ next = LoadInit
           /\ phase' = "run" /\ intr' = TRUE
           /\ UNCHANGED <<pc, gs, regs, resumed>>
        \/ /\ saved[next] = "entry" /\ next = InitThread
           /\ phase' = "run" /\ intr' = TRUE
           /\ gs' = SwapGs(gs) /\ regs' = EntryRegs
           /\ pc' = [pc EXCEPT ![InitThread] = "user"]
           /\ UNCHANGED resumed
        \/ /\ saved[next] # "entry"
           /\ resumed' = TRUE
           /\ \E o \in ResumeOutcomes : phase' = IF o = "return" THEN "iret" ELSE "stray"
           /\ UNCHANGED <<pc, intr, gs, regs>>
  /\ UNCHANGED <<kmain, threadList, fsBase, irqFrame, sysFrame, view>>

\* Mutant: the way out of an interrupt forgets swapgs.
IrqReturnNoSwap ==
  /\ phase = "iret"
  /\ regs' = IF UserMode THEN irqFrame ELSE regs
  /\ phase' = "run" /\ intr' = TRUE
  /\ UNCHANGED <<kmain, current, inService, gs, cr3, irqFrame, sysFrame, fpu, fsMsr,
                 view, resumed, threadVars>>

\* The end of irq_common: registers and RFLAGS from the frame, swapgs_if_exit.
IrqReturn ==
  /\ phase = "iret"
  /\ IF UserMode THEN regs' = irqFrame /\ gs' = SwapGs(gs) ELSE UNCHANGED <<regs, gs>>
  /\ phase' = "run" /\ intr' = TRUE
  /\ UNCHANGED <<kmain, current, inService, cr3, irqFrame, sysFrame, fpu, fsMsr,
                 view, resumed, threadVars>>

\* ---- the load_init thread (interrupts on) -----------------------------------
LoadInitAt(at) == phase = "run" /\ current = LoadInit /\ pc[LoadInit] = at
Stop == /\ phase' = "panic" /\ intr' = FALSE
        /\ UNCHANGED <<kmain, current, inService, gs, cr3, irqFrame, sysFrame, view,
                       resumed, cpuVars, threadVars>>

\* task_bootstrap calls the entry point.
LoadInitEntry ==
  /\ LoadInitAt("entry")
  /\ pc' = [pc EXCEPT ![LoadInit] = "process_create"]
  /\ UNCHANGED <<kmain, current, threadList, phase, intr, inService, gs, cr3, saved,
                 irqFrame, sysFrame, fpuImage, fsBase, view, resumed, cpuVars>>

\* Mutant: the thread is put on the list before the allocations are over.
ProcessCreateEarlyAdd ==
  /\ LoadInitAt("process_create")
  /\ pc' = [pc EXCEPT ![LoadInit] = "process_stack", ![InitThread] = "fresh"]
  /\ saved' = [saved EXCEPT ![InitThread] = "entry"]
  /\ scheduler_add(InitThread)
  /\ cr3' = "init"
  /\ UNCHANGED <<kmain, current, phase, intr, inService, gs, fpuImage, fsBase,
                 irqFrame, sysFrame, view, resumed, cpuVars>>

\* process_create up to setup_process_stack, which loads the new process's page
\* tables into the load_init thread: long, allocates throughout, may fail.
ProcessCreate ==
  /\ LoadInitAt("process_create")
  /\ pc' = [pc EXCEPT ![LoadInit] = "process_stack"]
  /\ cr3' = "init"
  /\ UNCHANGED <<kmain, current, threadList, phase, intr, inService, gs, saved,
                 irqFrame, sysFrame, fpuImage, fsBase, view, resumed, cpuVars>>
ProcessCreateFails == LoadInitAt("process_create") /\ Stop

\* The rest of process_create: the user stack is filled through its user
\* addresses, the kernel's page tables come back, the descriptors are opened.
ProcessStack ==
  /\ LoadInitAt("process_stack")
  /\ pc' = [pc EXCEPT ![LoadInit] = "user_thread_create"]
  /\ cr3' = "kernel"
  /\ UNCHANGED <<kmain, current, threadList, phase, intr, inService, gs, saved,
                 irqFrame, sysFrame, fpuImage, fsBase, view, resumed, cpuVars>>

UserThreadCreate ==
  /\ LoadInitAt("user_thread_create")
  /\ pc' = [pc EXCEPT ![LoadInit] = "scheduler_add", ![InitThread] = "fresh"]
  /\ saved' = [saved EXCEPT ![InitThread] = "entry"]
  /\ fpuImage' = [fpuImage EXCEPT ![InitThread] = FpuDefault]
  /\ fsBase' = [fsBase EXCEPT ![InitThread] = NullFs]
  /\ UNCHANGED <<kmain, current, threadList, phase, intr, inService, gs, cr3,
                 irqFrame, sysFrame, view, resumed, cpuVars>>

\* scheduler_add(user_thread), after which load_init returns and the thread
\* stays in task_bootstrap's hlt loop.
LoadInitAdd ==
  /\ LoadInitAt("scheduler_add")
  /\ scheduler_add(InitThread)
  /\ pc' = [pc EXCEPT ![LoadInit] = "idle"]
  /\ UNCHANGED <<kmain, current, phase, intr, inService, gs, cr3, saved, fpuImage,
                 fsBase, irqFrame, sysFrame, view, resumed, cpuVars>>

LoadInitStep == LoadInitEntry \/ ProcessCreate \/ ProcessCreateFails
                \/ ProcessStack \/ UserThreadCreate \/ LoadInitAdd

\* ---- the init process ------------------------------------------------------
UserAt(at) == phase = "run" /\ current = InitThread /\ pc[InitThread] = at
GoesTo(at) == pc' = [pc EXCEPT ![InitThread] = at]

\* User code computes: any registers, any FPU state.
UserCompute(r, f) ==
  /\ UserAt("user")
  /\ regs' = r /\ fpu' = f
  /\ view' = [view EXCEPT !.regs = r, !.fpu = f]
  /\ UNCHANGED <<kmain, current, phase, intr, inService, gs, cr3, irqFrame, sysFrame,
                 fsMsr, resumed, threadVars>>

\* syscall_entry: IF masked by IA32_FMASK, swapgs, frame on the shared stack.
SyscallEnter ==
  /\ UserAt("user")
  /\ sysFrame' = regs /\ regs' = Clobbered
  /\ gs' = SwapGs(gs) /\ intr' = FALSE
  /\ GoesTo("syscall")
  /\ UNCHANGED <<kmain, current, threadList, phase, inService, cr3, saved, fpuImage,
                 fsBase, irqFrame, fpu, fsMsr, view, resumed>>

\* do_sys_arch_prctl(ARCH_SET_FS, v), the one call that changes this state; a
\* NULL pointer is refused.
ArchPrctl(v) ==
  /\ UserAt("syscall") /\ v # NullFs
  /\ fsBase' = [fsBase EXCEPT ![current] = v]
  /\ fsMsr' = v /\ view' = [view EXCEPT !.fs = v]
  /\ UNCHANGED <<kmain, pc, current, threadList, phase, intr, inService, gs, cr3,
                 saved, fpuImage, irqFrame, sysFrame, regs, fpu, resumed>>

\* sysret.  Regs are the registers a system call preserves: rax returns the
\* result, rcx and r11 are the instruction's own.
SyscallReturn ==
  /\ UserAt("syscall")
  /\ regs' = sysFrame
  /\ gs' = SwapGs(gs) /\ intr' = TRUE
  /\ GoesTo("user")
  /\ UNCHANGED <<kmain, current, threadList, phase, inService, cr3, saved, fpuImage,
                 fsBase, irqFrame, sysFrame, fpu, fsMsr, view, resumed>>

\* A system call that never ends, with interrupts off: munmap of part of a
\* mapping that was touched stays in vma_cleanup's loop (Vma!OutsidePageFreed).
SyscallHangs ==
  /\ UserAt("syscall")
  /\ phase' = "hung"
  /\ UNCHANGED <<kmain, current, intr, inService, gs, cr3, irqFrame, sysFrame, view,
                 resumed, cpuVars, threadVars>>

\* A page fault: isr_common.  In user mode it uses the same stack as an interrupt;
\* in a system call that touches user memory it stays on the stack of the call,
\* with the GS base of the kernel.
FaultEnter ==
  /\ UserAt("user") \/ UserAt("syscall")
  /\ Trap /\ regs' = Clobbered /\ intr' = FALSE
  /\ GoesTo(IF UserMode THEN "fault" ELSE "sysfault")
  /\ UNCHANGED <<kmain, current, threadList, phase, inService, cr3, saved, fpuImage,
                 fsBase, sysFrame, fpu, fsMsr, view, resumed>>

\* The handler resolved the fault: back to user code, or into the call.
FaultReturn ==
  /\ \/ /\ UserAt("fault") /\ GoesTo("user")
        /\ regs' = irqFrame /\ gs' = SwapGs(gs) /\ intr' = TRUE
     \/ UserAt("sysfault") /\ GoesTo("syscall") /\ UNCHANGED <<regs, gs, intr>>
  /\ UNCHANGED <<kmain, current, threadList, phase, inService, cr3, saved, fpuImage,
                 fsBase, irqFrame, sysFrame, fpu, fsMsr, view, resumed>>

\* An unresolved fault or a failed check in a system call: panic, hlt.
InitPanics == (UserAt("fault") \/ UserAt("sysfault") \/ UserAt("syscall")) /\ Stop

InitStep == \/ \E r, f \in Regs : UserCompute(r, f)
            \/ SyscallEnter \/ (\E v \in FsBases : ArchPrctl(v)) \/ SyscallReturn
            \/ SyscallHangs \/ FaultEnter \/ FaultReturn \/ InitPanics
-----------------------------------------------------------------------------
Interrupt == \/ \E v \in {"timer", "other"} : IrqEnter(v)
             \/ IrqUnhandled \/ TickStay \/ Switch \/ IrqReturn

Next == KmainStep \/ Interrupt \/ LoadInitStep \/ InitStep

Spec == Init /\ [][Next]_vars

\* A pending interrupt stays latched until IF lets it in (strong fairness);
\* the timer's period is long against any single step, so a scheduled context
\* gets on.  A page fault ends; a system call ends or hangs.
Fairness == /\ SF_vars(IrqEnter("timer"))
            /\ WF_vars(IrqUnhandled \/ TickStay \/ Switch \/ IrqReturn)
            /\ SF_vars(KmainStep) /\ SF_vars(LoadInitStep)
            /\ SF_vars(SyscallReturn \/ SyscallHangs) /\ SF_vars(FaultReturn)

FairSpec == Spec /\ Fairness
-----------------------------------------------------------------------------
\* Type correctness of the CPU and scheduler state.
TypeOK ==
  /\ kmain \in {"scheduler_init", "thread_create", "scheduler_add", "timer", "halted"}
  /\ pc \in [Threads -> {"none", "fresh", "entry", "process_create",
               "process_stack", "user_thread_create", "scheduler_add", "idle", "user",
               "syscall", "fault", "sysfault"}]
  /\ current \in Contexts \cup {NoThread}
  /\ threadList \in {<<>>, <<LoadInit>>, <<LoadInit, InitThread>>}
  /\ phase \in {"run", "timer", "other", "iret", "panic", "stray", "hung"}
  /\ intr \in BOOLEAN /\ inService \in BOOLEAN
  /\ gs \in {"percpu", "user"} /\ cr3 \in {"kernel", "init"}
  /\ saved \in [Contexts -> {"none", "entry", "ownstack", "irqstack"}]
  /\ irqFrame \in Regs \cup {Clobbered} /\ sysFrame \in Regs \cup {Clobbered}
  /\ regs \in Regs \cup {Clobbered} /\ fpu \in Regs /\ fsMsr \in FsBases
  /\ fpuImage \in [Contexts -> Regs] /\ fsBase \in [Contexts -> FsBases]
  /\ view \in [regs : Regs, fpu : Regs, fs : FsBases]
  /\ resumed \in BOOLEAN

\* swapgs is always paired: user code runs on its own GS base, and the kernel,
\* through every mix of interrupts, system calls, faults, first entries and
\* resumed switches, on the per-CPU block that syscall_entry relies on.
GsParity == gs = IF phase = "run" /\ UserMode THEN "user" ELSE "percpu"

\* Preemption, system calls and faults are transparent to the user program:
\* whenever it runs, its registers, FPU state and FS base are those it left,
\* though the interrupt frame lives on one shared stack in the meantime.
UserStatePreserved ==
  phase = "run" /\ UserMode =>
     regs = view.regs /\ fpu = view.fpu /\ fsMsr = view.fs

\* The loaded page tables are those of the context that runs (the assertion on
\* paging_current_cr3 in schedule, for every moment and not only the switch).
\* While setup_process_stack borrows the new process's, they are those: a switch
\* away and back would give the thread the kernel's and fault on the user stack.
AddressSpaceMatches ==
  cr3 = IF current = LoadInit /\ pc[LoadInit] = "process_stack"
        THEN "init" ELSE CR3Of(current)

\* The allocators (pmm.c, heap.c) take no lock ("LOCKS-TODO").  A context is
\* inside them from the first to the last of its allocating steps.
InAllocator(c) ==
  \/ c = Boot /\ kmain \in {"scheduler_init", "thread_create"}
  \/ c = LoadInit /\ pc[LoadInit] \in {"process_create", "process_stack", "user_thread_create"}
  \/ c = InitThread /\ pc[InitThread] \in {"syscall", "fault", "sysfault"}

\* No two contexts are ever inside the unlocked allocators, preempted ones
\* included: load_init shares the machine with user code only once it is done.
AllocatorExclusion ==
  \A c, d \in Contexts : InAllocator(c) /\ InAllocator(d) => c = d

\* The saved stack of a context that waits leads somewhere: schedule never
\* switches to a thread whose context was not set up or saved (its asserts).
SwitchTargetsSound ==
  \A t \in Threads : OnList(t) /\ current # t => saved[t] # "none"

\* ---- the inductive invariant ------------------------------------------------
\* kmain's progress against the thread list.
BootOrder ==
  /\ (kmain = "scheduler_init") <=> (current = NoThread)
  /\ kmain \in {"scheduler_init", "thread_create"} => pc[LoadInit] = "none"
  /\ kmain = "scheduler_add" => pc[LoadInit] = "entry" /\ saved[LoadInit] = "entry"
  /\ (threadList = <<>>) <=> kmain \in {"scheduler_init", "thread_create", "scheduler_add"}
  /\ threadList = <<>> => current \in {NoThread, Boot}

\* load_init's progress against the init thread.
LoadOrder ==
  /\ (threadList = <<LoadInit, InitThread>>) <=> (pc[LoadInit] = "idle")
  /\ pc[LoadInit] \notin {"idle", "scheduler_add"} => pc[InitThread] = "none"
  /\ pc[LoadInit] = "scheduler_add" => pc[InitThread] = "fresh"
  /\ pc[LoadInit] = "idle" => pc[InitThread] # "none"
  /\ pc[LoadInit] \notin {"fresh", "user", "syscall", "fault", "sysfault"}
  /\ (saved[InitThread] = "entry") <=> (pc[InitThread] = "fresh")
  /\ current = InitThread => pc[LoadInit] = "idle"
  /\ pc[LoadInit] = "process_stack" => current = LoadInit
  /\ IF current = InitThread THEN pc[InitThread] \in {"user", "syscall", "fault", "sysfault"}
                             ELSE pc[InitThread] \in {"none", "fresh", "user"}

\* Where the user program's state is while it does not run.
UserContext ==
  /\ current = InitThread =>
       /\ fpu = view.fpu /\ fsMsr = view.fs /\ fsBase[InitThread] = view.fs
       /\ pc[InitThread] \in {"syscall", "sysfault"} => sysFrame = view.regs
       /\ pc[InitThread] = "fault" => irqFrame = view.regs
       /\ pc[InitThread] \in {"syscall", "fault", "sysfault"} =>
            ~intr /\ phase \in {"run", "panic", "hung"}
       /\ phase \in {"timer", "other", "iret"} => irqFrame = view.regs
       /\ UserMode /\ phase = "run" => regs = view.regs
  /\ current # InitThread /\ pc[InitThread] = "user" => irqFrame = view.regs
  /\ current # InitThread =>
       fpuImage[InitThread] = view.fpu /\ fsBase[InitThread] = view.fs
  /\ pc[InitThread] \in {"none", "fresh"} =>
       view = [regs |-> EntryRegs, fpu |-> FpuDefault, fs |-> NullFs]

IInv == /\ TypeOK /\ GsParity /\ AddressSpaceMatches /\ SwitchTargetsSound
        /\ BootOrder /\ LoadOrder /\ UserContext

\* Round robin: a thread on the list runs again and again, unless the kernel
\* stops in a panic, leaves its code behind a noreturn call, or is kept by a
\* system call that never ends (interrupts are off in it, so nothing preempts
\* it); kmain's own context is the only one that is left behind.
RoundRobin == \A t \in Threads :
  [](OnList(t) => <>((current = t /\ phase = "run") \/ phase \in {"panic", "stray", "hung"}))

\* Booting gets to the init program, also when a tick arrives before
\* lapic_timer_start and abandons kmain half way.
InitStarts == <>(UserMode \/ phase \in {"panic", "stray"})

\* "Returned from arch_switch_thread, which should never happen": no call of
\* arch_switch_thread ever returns.
NeverReturns == ~resumed
=============================================================================
