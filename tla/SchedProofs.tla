---------------------------- MODULE SchedProofs ----------------------------
(***************************************************************************)
(* The scheduler's safety, for every set of register and FS values, with   *)
(* or without early ticks, and wherever a resumed schedule() lands.        *)
(***************************************************************************)
EXTENDS Sched, SequenceTheorems, TLAPS

\* The inductive invariant holds when kmain reaches the scheduler.
LEMMA InvInit == Init => IInv
<1> SUFFICES ASSUME Init PROVE IInv
  OBVIOUS
<1> USE ContextAssumption, ValueAssumption, ClobberAssumption
      DEF Init, Threads, Contexts
<1>1. TypeOK
  BY DEF TypeOK
<1>2. GsParity /\ AddressSpaceMatches
  BY DEF GsParity, UserMode, AddressSpaceMatches, CR3Of
<1>3. SwitchTargetsSound
  BY DEF SwitchTargetsSound, OnList
<1>4. BootOrder /\ LoadOrder /\ UserContext
  BY DEF BootOrder, LoadOrder, UserContext, UserMode
<1>5. QED BY <1>1, <1>2, <1>3, <1>4 DEF IInv

\* Which threads a list of the kernel's three shapes holds.
LEMMA Lists ==
  ASSUME TypeOK
  PROVE  /\ OnList(LoadInit) <=> threadList # <<>>
         /\ OnList(InitThread) <=> threadList = <<LoadInit, InitThread>>
<1> USE ContextAssumption
<1>1. CASE threadList = <<>>
  BY <1>1 DEF OnList
<1>2. CASE threadList = <<LoadInit>>
  BY <1>2 DEF OnList
<1>3. CASE threadList = <<LoadInit, InitThread>>
  <2>1. threadList[1] = LoadInit /\ threadList[2] = InitThread /\ Len(threadList) = 2
    BY <1>3
  <2>2. QED BY <1>3, <2>1 DEF OnList
<1>4. QED BY <1>1, <1>2, <1>3 DEF TypeOK

\* What scheduler_add makes of the lists it is called with.
LEMMA Extend == /\ Append(<<>>, LoadInit) = <<LoadInit>>
                /\ Append(<<LoadInit>>, InitThread) = <<LoadInit, InitThread>>
<1> DEFINE S == {LoadInit, InitThread}
           a == Append(<<LoadInit>>, InitThread)
           b == <<LoadInit, InitThread>>
<1>1. a \in Seq(S) /\ Len(a) = 2 /\ a[1] = LoadInit /\ a[2] = InitThread
  OBVIOUS
<1>2. b \in Seq(S) /\ Len(b) = 2 /\ b[1] = LoadInit /\ b[2] = InitThread
  OBVIOUS
<1>3. a = b
  <2> HIDE DEF a, b
  <2>1. \A i \in 1..Len(a) : a[i] = b[i]
    BY <1>1, <1>2
  <2>2. QED BY <1>1, <1>2, <2>1, SeqEqual
<1>4. Append(<<>>, LoadInit) = <<LoadInit>>
  OBVIOUS
<1>5. QED BY <1>3, <1>4

\* schedule's choice, for the lists that occur.
LEMMA Choice ==
  ASSUME TypeOK
  PROVE  /\ threadList = <<>> => NextThread = NoThread
         /\ threadList = <<LoadInit>> => NextThread = LoadInit
         /\ threadList = <<LoadInit, InitThread>> =>
              NextThread = IF current = LoadInit THEN InitThread ELSE LoadInit
<1> USE ContextAssumption
<1>1. CASE threadList = <<>>
  BY <1>1 DEF NextThread
<1>2. CASE threadList = <<LoadInit>>
  <2>1. OnList(current) => ~(Position(current) < Len(threadList))
    BY <1>2 DEF OnList, Position
  <2>2. QED BY <1>2, <2>1 DEF NextThread
<1>3. CASE threadList = <<LoadInit, InitThread>>
  <2>1. Position(LoadInit) = 1 /\ Position(InitThread) = 2
    BY <1>3 DEF Position
  <2>2. OnList(current) => current \in {LoadInit, InitThread}
    BY <1>3 DEF OnList
  <2>3. OnList(LoadInit)
    BY <1>3 DEF OnList
  <2>4. QED BY <1>3, <2>1, <2>2, <2>3 DEF NextThread
<1>4. QED BY <1>1, <1>2, <1>3 DEF TypeOK

\* Every step of the CPU preserves the invariant.
LEMMA InvStep == IInv /\ [Next]_vars => IInv'
<1> SUFFICES ASSUME IInv, [Next]_vars PROVE IInv'
  OBVIOUS
<1> USE ContextAssumption, ValueAssumption, ClobberAssumption
      DEF IInv, Threads, Contexts, cpuVars, threadVars
<1> USE DEF TypeOK, GsParity, AddressSpaceMatches, SwitchTargetsSound, OnList,
            BootOrder, LoadOrder, UserContext, UserMode, CR3Of, SwapGs
<1>1. CASE SchedulerInit
  BY <1>1 DEF SchedulerInit, KmainRuns
<1>2. CASE CreateLoadInit
  BY <1>2 DEF CreateLoadInit, KmainRuns
<1>3. CASE KmainAdd
  BY <1>3 DEF KmainAdd, KmainRuns, scheduler_add
<1>4. CASE KmainTimer
  BY <1>4 DEF KmainTimer, KmainRuns
<1>5. ASSUME NEW v \in {"timer", "other"}, IrqEnter(v) PROVE IInv'
  <2>1. TypeOK'
    BY <1>5 DEF IrqEnter, Trap
  <2>2. GsParity' /\ AddressSpaceMatches'
    BY <1>5 DEF IrqEnter, Trap
  <2>3. SwitchTargetsSound'
    BY <1>5 DEF IrqEnter, Trap
  <2>4. BootOrder'
    BY <1>5 DEF IrqEnter, Trap
  <2>5. LoadOrder'
    BY <1>5 DEF IrqEnter, Trap
  <2>6. UserContext'
    BY <1>5 DEF IrqEnter, Trap
  <2>7. QED BY <2>1, <2>2, <2>3, <2>4, <2>5, <2>6
<1>6. CASE IrqUnhandled
  <2>1. TypeOK'
    <3>1. inService' \in BOOLEAN
      BY <1>6, Zenon DEF IrqUnhandled, Eoi
    <3>2. QED BY <3>1, <1>6 DEF IrqUnhandled
  <2>2. GsParity' /\ AddressSpaceMatches'
    BY <1>6 DEF IrqUnhandled, Eoi
  <2>3. SwitchTargetsSound'
    BY <1>6 DEF IrqUnhandled, Eoi
  <2>4. BootOrder'
    BY <1>6 DEF IrqUnhandled, Eoi
  <2>5. LoadOrder'
    BY <1>6 DEF IrqUnhandled, Eoi
  <2>6. UserContext'
    BY <1>6 DEF IrqUnhandled, Eoi
  <2>7. QED BY <2>1, <2>2, <2>3, <2>4, <2>5, <2>6
<1>7. CASE TickStay
  <2>1. TypeOK'
    <3>1. inService' \in BOOLEAN
      BY <1>7, Zenon DEF TickStay, Eoi
    <3>2. QED BY <3>1, <1>7 DEF TickStay
  <2>2. GsParity' /\ AddressSpaceMatches'
    BY <1>7 DEF TickStay, Eoi
  <2>3. SwitchTargetsSound'
    BY <1>7 DEF TickStay, Eoi
  <2>4. BootOrder'
    BY <1>7 DEF TickStay, Eoi
  <2>5. LoadOrder'
    BY <1>7 DEF TickStay, Eoi
  <2>6. UserContext'
    BY <1>7 DEF TickStay, Eoi
  <2>7. QED BY <2>1, <2>2, <2>3, <2>4, <2>5, <2>6
<1>8. CASE Switch
  <2> DEFINE next == NextThread
  <2>1. /\ next \in Threads /\ next # current /\ current \in Contexts
        /\ next = InitThread => threadList = <<LoadInit, InitThread>>
        /\ threadList # <<>>
    BY <1>8, Choice DEF Switch
  <2>2. /\ phase = "timer" /\ inService' = FALSE /\ SaveRestore(next)
        /\ UNCHANGED <<kmain, threadList, fsBase, irqFrame, sysFrame, view>>
    BY <1>8 DEF Switch, Eoi
  <2>3. saved[next] # "none" /\ gs = "percpu"
    BY <2>1, <2>2
  <2> HIDE DEF next
  <2>4. CASE next = LoadInit
    <3>1. /\ UNCHANGED <<pc, gs, regs>>
          /\ \/ phase' = "run" /\ intr' = TRUE /\ UNCHANGED resumed
             \/ phase' \in {"iret", "stray"} /\ resumed' = TRUE /\ UNCHANGED intr
      BY <1>8, <2>4 DEF Switch, next
    <3>2. TypeOK'
      <4>1. inService' \in BOOLEAN
        BY <2>2, Zenon
      <4>2. resumed' \in BOOLEAN /\ intr' \in BOOLEAN
        BY <3>1
      <4>3. QED BY <4>1, <4>2, <2>1, <2>2, <2>3, <2>4, <3>1 DEF SaveRestore
    <3>3. GsParity' /\ AddressSpaceMatches'
      BY <2>1, <2>2, <2>3, <2>4, <3>1 DEF SaveRestore
    <3>4. SwitchTargetsSound'
      BY <2>1, <2>2, <2>3, <2>4, <3>1 DEF SaveRestore
    <3>5. BootOrder'
      BY <2>1, <2>2, <2>3, <2>4, <3>1 DEF SaveRestore
    <3>6. LoadOrder'
      BY <2>1, <2>2, <2>3, <2>4, <3>1 DEF SaveRestore
    <3>7. UserContext'
      BY <2>1, <2>2, <2>3, <2>4, <3>1 DEF SaveRestore
    <3>8. QED BY <3>2, <3>3, <3>4, <3>5, <3>6, <3>7
  <2>5. CASE next = InitThread /\ saved[InitThread] = "entry"
    <3>1. /\ phase' = "run" /\ intr' = TRUE /\ gs' = "user" /\ regs' = EntryRegs
          /\ pc' = [pc EXCEPT ![InitThread] = "user"] /\ UNCHANGED resumed
      BY <1>8, <2>3, <2>5 DEF Switch, next
    <3>2. TypeOK'
      <4>1. inService' \in BOOLEAN
        BY <2>2, Zenon
      <4>2. resumed' \in BOOLEAN /\ intr' \in BOOLEAN
        BY <3>1
      <4>3. QED BY <4>1, <4>2, <2>1, <2>2, <2>3, <2>5, <3>1 DEF SaveRestore
    <3>3. GsParity' /\ AddressSpaceMatches'
      BY <2>1, <2>2, <2>3, <2>5, <3>1 DEF SaveRestore
    <3>4. SwitchTargetsSound'
      BY <2>1, <2>2, <2>3, <2>5, <3>1 DEF SaveRestore
    <3>5. BootOrder'
      BY <2>1, <2>2, <2>3, <2>5, <3>1 DEF SaveRestore
    <3>6. LoadOrder'
      BY <2>1, <2>2, <2>3, <2>5, <3>1 DEF SaveRestore
    <3>7. UserContext'
      BY <2>1, <2>2, <2>3, <2>5, <3>1 DEF SaveRestore
    <3>8. QED BY <3>2, <3>3, <3>4, <3>5, <3>6, <3>7
  <2>6. CASE next = InitThread /\ saved[InitThread] # "entry"
    <3>1. /\ UNCHANGED <<pc, gs, regs, intr>> /\ resumed' = TRUE
          /\ phase' \in {"iret", "stray"}
      BY <1>8, <2>6 DEF Switch, next
    <3>2. IInv'
      BY <2>1, <2>2, <2>3, <2>6, <3>1 DEF SaveRestore
    <3>3. QED BY <3>2
  <2>7. QED BY <2>1, <2>4, <2>5, <2>6
<1>9. CASE IrqReturn
  BY <1>9 DEF IrqReturn
<1>10. CASE LoadInitEntry
  BY <1>10 DEF LoadInitEntry, LoadInitAt
<1>11. CASE ProcessCreate
  BY <1>11 DEF ProcessCreate, LoadInitAt
<1>12. CASE ProcessCreateFails
  BY <1>12 DEF ProcessCreateFails, LoadInitAt, Stop
<1>13. CASE ProcessStack
  BY <1>13 DEF ProcessStack, LoadInitAt
<1>14. CASE UserThreadCreate
  BY <1>14 DEF UserThreadCreate, LoadInitAt
<1>15. CASE LoadInitAdd
  <2>0. threadList = <<LoadInit>> /\ threadList' = <<LoadInit, InitThread>>
    BY <1>15, Extend DEF LoadInitAdd, LoadInitAt, scheduler_add
  <2>1. TypeOK'
    BY <1>15, <2>0 DEF LoadInitAdd, LoadInitAt
  <2>2. GsParity' /\ AddressSpaceMatches'
    BY <1>15 DEF LoadInitAdd, LoadInitAt, scheduler_add
  <2>3. SwitchTargetsSound'
    BY <1>15 DEF LoadInitAdd, LoadInitAt, scheduler_add
  <2>4. BootOrder'
    BY <1>15 DEF LoadInitAdd, LoadInitAt, scheduler_add
  <2>5. LoadOrder'
    BY <1>15, <2>0 DEF LoadInitAdd, LoadInitAt
  <2>6. UserContext'
    BY <1>15 DEF LoadInitAdd, LoadInitAt, scheduler_add
  <2>7. QED BY <2>1, <2>2, <2>3, <2>4, <2>5, <2>6
<1>16. ASSUME NEW r \in Regs, NEW f \in Regs, UserCompute(r, f) PROVE IInv'
  <2>1. TypeOK'
    BY <1>16 DEF UserCompute, UserAt
  <2>2. GsParity' /\ AddressSpaceMatches'
    BY <1>16 DEF UserCompute, UserAt
  <2>3. SwitchTargetsSound'
    BY <1>16 DEF UserCompute, UserAt
  <2>4. BootOrder'
    BY <1>16 DEF UserCompute, UserAt
  <2>5. LoadOrder'
    BY <1>16 DEF UserCompute, UserAt
  <2>6. UserContext'
    BY <1>16 DEF UserCompute, UserAt
  <2>7. QED BY <2>1, <2>2, <2>3, <2>4, <2>5, <2>6
<1>17. CASE SyscallEnter
  BY <1>17 DEF SyscallEnter, UserAt, GoesTo
<1>18. ASSUME NEW v \in FsBases, ArchPrctl(v) PROVE IInv'
  BY <1>18 DEF ArchPrctl, UserAt
<1>19. CASE SyscallReturn
  BY <1>19 DEF SyscallReturn, UserAt, GoesTo
<1>20. CASE FaultEnter
  <2>1. TypeOK'
    BY <1>20 DEF FaultEnter, UserAt, GoesTo, Trap
  <2>2. GsParity' /\ AddressSpaceMatches'
    BY <1>20 DEF FaultEnter, UserAt, GoesTo, Trap
  <2>3. SwitchTargetsSound'
    BY <1>20 DEF FaultEnter, UserAt, GoesTo, Trap
  <2>4. BootOrder'
    BY <1>20 DEF FaultEnter, UserAt, GoesTo, Trap
  <2>5. LoadOrder'
    BY <1>20 DEF FaultEnter, UserAt, GoesTo, Trap
  <2>6. UserContext'
    BY <1>20 DEF FaultEnter, UserAt, GoesTo, Trap
  <2>7. QED BY <2>1, <2>2, <2>3, <2>4, <2>5, <2>6
<1>21. CASE FaultReturn
  <2>1. CASE UserAt("fault") /\ GoesTo("user") /\ regs' = irqFrame /\ gs' = SwapGs(gs) /\ intr' = TRUE
    BY <1>21, <2>1 DEF FaultReturn, UserAt, GoesTo
  <2>2. CASE UserAt("sysfault") /\ GoesTo("syscall") /\ UNCHANGED <<regs, gs, intr>>
    BY <1>21, <2>2 DEF FaultReturn, UserAt, GoesTo
  <2>3. QED BY <1>21, <2>1, <2>2 DEF FaultReturn
<1>22. CASE InitPanics
  <2>1. TypeOK'
    BY <1>22 DEF InitPanics, UserAt, Stop
  <2>2. GsParity' /\ AddressSpaceMatches'
    BY <1>22 DEF InitPanics, UserAt, Stop
  <2>3. SwitchTargetsSound'
    BY <1>22 DEF InitPanics, UserAt, Stop
  <2>4. BootOrder'
    BY <1>22 DEF InitPanics, UserAt, Stop
  <2>5. LoadOrder'
    BY <1>22 DEF InitPanics, UserAt, Stop
  <2>6. UserContext'
    BY <1>22 DEF InitPanics, UserAt, Stop
  <2>7. QED BY <2>1, <2>2, <2>3, <2>4, <2>5, <2>6
<1>23. CASE SyscallHangs
  BY <1>23 DEF SyscallHangs, UserAt
<1>24. CASE UNCHANGED vars
  BY <1>24 DEF vars
<1>25. QED
  BY <1>1, <1>2, <1>3, <1>4, <1>5, <1>6, <1>7, <1>8, <1>9, <1>10, <1>11, <1>12,
     <1>13, <1>14, <1>15, <1>16, <1>17, <1>18, <1>19, <1>20, <1>21, <1>22, <1>23,
     <1>24
     DEF Next, KmainStep, Interrupt, LoadInitStep, InitStep

\* The invariant of the CPU and the scheduler, through every interleaving.
LEMMA Invariance == Spec => []IInv
BY InvInit, InvStep, PTL DEF Spec

\* The scheduler's variables stay well typed, the list holds load_init and
\* then init and nothing else, and schedule never switches to a thread whose
\* stack was not set up or saved.
THEOREM SchedSound == Spec => [](TypeOK /\ SwitchTargetsSound)
<1>1. IInv => TypeOK /\ SwitchTargetsSound
  BY DEF IInv
<1>2. QED BY <1>1, Invariance, PTL

\* swapgs stays paired through every mix of entries and returns.
THEOREM SwapgsPaired == Spec => []GsParity
<1>1. IInv => GsParity
  BY DEF IInv
<1>2. QED BY <1>1, Invariance, PTL

\* The page tables loaded are those of the running thread.
THEOREM PageTablesMatch == Spec => []AddressSpaceMatches
<1>1. IInv => AddressSpaceMatches
  BY DEF IInv
<1>2. QED BY <1>1, Invariance, PTL

\* Preemption, system calls and faults are transparent to the user program.
THEOREM Transparency == Spec => []UserStatePreserved
<1>1. IInv => UserStatePreserved
  BY DEF IInv, UserContext, UserStatePreserved, UserMode
<1>2. QED BY <1>1, Invariance, PTL

\* The unlocked allocators are never entered by two contexts.
THEOREM Exclusion == Spec => []AllocatorExclusion
<1>1. IInv => AllocatorExclusion
  <2> SUFFICES ASSUME IInv, NEW c \in Contexts, NEW d \in Contexts,
                      InAllocator(c), InAllocator(d)
               PROVE  c = d
    BY DEF AllocatorExclusion
  <2>1. InAllocator(Boot) => pc[LoadInit] = "none"
    BY ContextAssumption DEF IInv, BootOrder, InAllocator
  <2>2. InAllocator(LoadInit) =>
          pc[LoadInit] \in {"process_create", "process_stack", "user_thread_create"}
    BY ContextAssumption DEF InAllocator
  <2>3. InAllocator(InitThread) => pc[InitThread] \in {"syscall", "fault", "sysfault"}
    BY ContextAssumption DEF InAllocator
  <2>4. pc[InitThread] \in {"syscall", "fault", "sysfault"} => pc[LoadInit] \in {"idle", "scheduler_add"}
    BY DEF IInv, LoadOrder
  <2>5. QED
    BY <2>1, <2>2, <2>3, <2>4, ContextAssumption
       DEF Contexts, Threads, IInv, LoadOrder
<1>2. QED BY <1>1, Invariance, PTL
=============================================================================
