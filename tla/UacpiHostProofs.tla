--------------------------- MODULE UacpiHostProofs ---------------------------
(***************************************************************************)
(* Spinlocks, mutexes, events and deferred work of the uACPI host do what  *)
(* uACPI expects of them, for any number of threads, locks, items, turns   *)
(* and calls, and any size of the ring.                                    *)
(***************************************************************************)
EXTENDS UacpiHost, FiniteSetTheorems, SequenceTheorems, TLAPS

\* Spinlocks: the steps that change the interrupt flag, the context on the
\* processor or what is held are the five of this disjunction.
LEMMA SpinFrame ==
  ASSUME [Next]_vars
  PROVE  \/ \E t \in Threads : SwitchTo(t)
         \/ irq_handler \/ IrqReturn \/ Unlock
         \/ \E c \in Contexts, l \in Spinlocks : lock_spinlock(c, l)
         \/ UNCHANGED <<intr, current, interrupted, held>>
<1> DEFINE Same == UNCHANGED <<intr, current, interrupted, held>>
<1>1. ASSUME NEW t \in Threads, ThreadStep(t) PROVE Same
  BY <1>1 DEF ThreadStep, AcquireTurn, WaitTurn, EventTaken, irq_register_handler, DrainTest,
              CopyWork, AdvanceHead, RunWork, WorkStep, StoreWork, PublishWork, cpu, spin
<1>2. ASSUME NEW t \in Threads, ThreadCall(t) PROVE Same
  BY <1>2 DEF ThreadCall, install_interrupt_handler, release_mutex, reset_event,
              wait_for_work_completion, acquire_mutex, wait_for_event, cpu, spin
<1>3. ASSUME NEW c \in Contexts, signal_event(c) \/ schedule_work(c) \/ WorkStep(c) PROVE Same
  BY <1>3 DEF signal_event, schedule_work, WorkStep, StoreWork, PublishWork, cpu, spin
<1>4. UNCHANGED vars => Same
  BY DEF vars, cpu, spin
<1>5. Irq \in Contexts
  BY DEF Contexts
<1> HIDE DEF Same
<1>6. \/ \E t \in Threads : SwitchTo(t)
      \/ irq_handler \/ IrqReturn \/ Unlock
      \/ \E c \in Contexts, l \in Spinlocks : lock_spinlock(c, l)
      \/ Same
  BY <1>1, <1>2, <1>3, <1>4, <1>5 DEF Next
<1> QED  BY <1>6 DEF Same

LEMMA LockSpinInv ==
  ASSUME SpinInv, NEW c \in Contexts, NEW l \in Spinlocks, lock_spinlock(c, l)
  PROVE  SpinInv'
<1> DEFINE node == [lock |-> l, flags |-> intr]
<1>1. /\ current = c /\ intr' = FALSE /\ UNCHANGED <<current, interrupted>>
      /\ held' = [held EXCEPT ![c] = Append(held[c], node)]
  BY DEF lock_spinlock, disable_interrupts, At
<1>2. /\ node \in [lock : Spinlocks, flags : BOOLEAN]
      /\ held[c] \in Seq([lock : Spinlocks, flags : BOOLEAN])
  BY DEF SpinInv
<1>3. node.flags = intr
  OBVIOUS
<1> HIDE DEF node
<1>4. /\ Append(held[c], node) \in Seq([lock : Spinlocks, flags : BOOLEAN])
      /\ Len(Append(held[c], node)) = Len(held[c]) + 1 /\ Len(held[c]) \in Nat
      /\ \A i \in 1..Len(held[c]) : Append(held[c], node)[i] = held[c][i]
      /\ Append(held[c], node)[Len(held[c]) + 1] = node
  BY <1>2, AppendProperties
<1>5. intr => Len(held[c]) = 0 /\ c # Irq
  BY <1>1 DEF SpinInv
<1>6. held' \in [Contexts -> Seq([lock : Spinlocks, flags : BOOLEAN])]
  BY <1>1, <1>4 DEF SpinInv
<1>7. \A d \in Contexts : \A i \in 1..Len(held'[d]) : held'[d][i].flags => i = 1 /\ d # Irq
  <2> SUFFICES ASSUME NEW d \in Contexts, NEW i \in 1..Len(held'[d]), held'[d][i].flags
               PROVE  i = 1 /\ d # Irq
    OBVIOUS
  <2>1. CASE d # c
    BY <1>1, <2>1 DEF SpinInv
  <2>2. CASE d = c
    <3>1. held'[c] = Append(held[c], node)
      BY <1>1 DEF SpinInv
    <3>2. CASE i \in 1..Len(held[c])
      BY <1>4, <2>2, <3>1, <3>2 DEF SpinInv
    <3>3. CASE i = Len(held[c]) + 1
      BY <1>3, <1>4, <1>5, <2>2, <3>1, <3>3
    <3> QED  BY <1>4, <2>2, <3>1, <3>2, <3>3
  <2> QED  BY <2>1, <2>2
<1>8. \A d \in Contexts : d # current' \/ intr' => held'[d] = <<>>
  BY <1>1 DEF SpinInv
<1> QED  BY <1>1, <1>6, <1>7, <1>8 DEF SpinInv

LEMMA UnlockSpinInv ==
  ASSUME SpinInv, NEW c \in Contexts, NEW l \in Spinlocks, unlock_spinlock(c, l)
  PROVE  SpinInv'
<1> DEFINE n == Len(held[c])
           rest == SubSeq(held[c], 1, n - 1)
           flags == held[c][n].flags
<1>1. /\ current = c /\ held[c] # <<>> /\ UNCHANGED <<current, interrupted>>
      /\ intr' = (flags \/ intr) /\ held' = [held EXCEPT ![c] = rest]
  BY DEF unlock_spinlock, restore_interrupts, At
<1>2. held[c] \in Seq([lock : Spinlocks, flags : BOOLEAN])
  BY DEF SpinInv
<1>3. n \in Nat \ {0} /\ \A i \in 1..n : held[c][i] \in [lock : Spinlocks, flags : BOOLEAN]
  BY <1>1, <1>2, EmptySeq, LenProperties, ElementOfSeq
<1>4. ~intr /\ (flags => n = 1 /\ c # Irq)
  <2>1. n \in 1..n
    BY <1>3
  <2>2. ~intr
    BY <1>1 DEF SpinInv
  <2>3. flags => n = 1 /\ c # Irq
    BY <2>1 DEF SpinInv
  <2> QED  BY <2>2, <2>3
<1>5. /\ rest \in Seq([lock : Spinlocks, flags : BOOLEAN]) /\ Len(rest) = n - 1
      /\ \A i \in 1..(n - 1) : rest[i] = held[c][i]
  <2> HIDE DEF n
  <2>1. /\ 1 \in Int /\ n - 1 \in Int /\ (n - 1) - 1 + 1 = n - 1 /\ (~(1 <= n - 1) => n - 1 = 0)
        /\ \A i \in 1..(n - 1) : held[c][i] \in [lock : Spinlocks, flags : BOOLEAN]
        /\ \A i \in 1..(n - 1) : 1 + i - 1 = i
    BY <1>3
  <2> QED  BY <2>1, SubSeqProperties
<1> HIDE DEF n, rest, flags
<1>6. held' \in [Contexts -> Seq([lock : Spinlocks, flags : BOOLEAN])]
  BY <1>1, <1>5 DEF SpinInv
<1>7. n = 1 => rest = <<>>
  BY <1>5
<1>8. \A d \in Contexts : held'[d] = IF d = c THEN rest ELSE held[d]
  BY <1>1 DEF SpinInv
<1>9. \A d \in Contexts : d # current' \/ intr' => held'[d] = <<>>
  BY <1>1, <1>4, <1>7, <1>8 DEF SpinInv
<1>10. \A d \in Contexts : \A i \in 1..Len(held'[d]) : held'[d][i].flags => i = 1 /\ d # Irq
  <2> SUFFICES ASSUME NEW d \in Contexts, NEW i \in 1..Len(held'[d]), held'[d][i].flags
               PROVE  i = 1 /\ d # Irq
    OBVIOUS
  <2>1. i \in 1..Len(held[d]) /\ held'[d][i] = held[d][i]
    BY <1>3, <1>5, <1>8 DEF n
  <2> QED  BY <2>1 DEF SpinInv
<1>11. current' = Irq => ~intr' /\ interrupted' \in Threads
  BY <1>1, <1>4 DEF SpinInv
<1>12. intr' \in BOOLEAN
  BY <1>1, Zenon
<1> QED  BY <1>1, <1>6, <1>9, <1>10, <1>11, <1>12 DEF SpinInv

LEMMA StepSpinInv == SpinInv /\ [Next]_vars => SpinInv'
<1> SUFFICES ASSUME SpinInv, [Next]_vars PROVE SpinInv'
  OBVIOUS
<1>1. Irq \notin Threads /\ Threads \subseteq Contexts /\ Irq \in Contexts
  BY HostAssumption DEF Contexts
<1>2. ASSUME NEW t \in Threads, SwitchTo(t) PROVE SpinInv'
  BY <1>1, <1>2 DEF SwitchTo, SpinInv, spin
<1>3. CASE irq_handler
  BY <1>1, <1>3 DEF irq_handler, SpinInv, spin
<1>4. CASE IrqReturn
  BY <1>1, <1>4 DEF IrqReturn, At, SpinInv, spin
<1>5. CASE Unlock
  BY <1>5, UnlockSpinInv DEF Unlock
<1>6. CASE UNCHANGED <<intr, current, interrupted, held>>
  BY <1>6 DEF SpinInv
<1> QED  BY <1>2, <1>3, <1>4, <1>5, <1>6, SpinFrame, LockSpinInv

\* The mutex: Swap and release_mutex are the steps that change it.
LEMMA StepMutexInv == MutexInv /\ [Next]_vars => MutexInv'
<1> SUFFICES ASSUME MutexInv, [Next]_vars PROVE MutexInv'
  OBVIOUS
<1> DEFINE Same == UNCHANGED <<mutex, owners>>
<1>1. ASSUME NEW t \in Threads, Swap(t) PROVE MutexInv'
  BY <1>1 DEF Swap, MutexInv
<1>2. ASSUME NEW t \in Threads, ThreadStep(t) PROVE Same \/ Swap(t)
  BY <1>2 DEF ThreadStep, AcquireTurn, WaitTurn, EventTaken, irq_register_handler, DrainTest,
              CopyWork, AdvanceHead, RunWork, WorkStep, StoreWork, PublishWork, lock
<1>3. ASSUME NEW t \in Threads, ThreadCall(t) PROVE Same \/ Swap(t) \/ release_mutex(t)
  BY <1>3 DEF ThreadCall, install_interrupt_handler, reset_event,
              wait_for_work_completion, acquire_mutex, wait_for_event, lock
<1>4. ASSUME NEW t \in Threads, release_mutex(t) PROVE MutexInv'
  BY <1>4 DEF release_mutex, MutexInv
<1>5. ASSUME NEW c \in Contexts,
             \/ signal_event(c) \/ schedule_work(c) \/ WorkStep(c)
             \/ \E l \in Spinlocks : lock_spinlock(c, l) \/ unlock_spinlock(c, l)
      PROVE  Same
  BY <1>5 DEF signal_event, schedule_work, WorkStep, StoreWork, PublishWork, lock_spinlock,
              unlock_spinlock, lock
<1>6. ASSUME NEW t \in Threads, SwitchTo(t) PROVE Same
  BY <1>6 DEF SwitchTo, lock
<1>7. irq_handler \/ IrqReturn \/ UNCHANGED vars => Same
  BY DEF irq_handler, IrqReturn, vars, lock
<1>8. Same => MutexInv'
  BY DEF MutexInv
<1> HIDE DEF Same
<1>9. Irq \in Contexts
  BY DEF Contexts
<1> QED  BY <1>1, <1>2, <1>3, <1>4, <1>5, <1>6, <1>7, <1>8, <1>9 DEF Next, Unlock

\* No two contexts hold a spinlock, and no two threads the mutex, whatever
\* interrupts, switches, nested locks and timeouts do.
THEOREM Excluded == Spec => []Exclusion
<1>1. Init => SpinInv /\ MutexInv
  <2> SUFFICES ASSUME Init PROVE SpinInv /\ MutexInv
    OBVIOUS
  <2>1. /\ intr = TRUE /\ current \in Threads /\ held = [c \in Contexts |-> <<>>]
        /\ mutex = 0 /\ owners = {}
    BY DEF Init
  <2>2. Irq \notin Threads /\ Threads \subseteq Contexts
    BY HostAssumption DEF Contexts
  <2>3. <<>> \in Seq([lock : Spinlocks, flags : BOOLEAN]) /\ Len(<<>>) = 0
    OBVIOUS
  <2> QED  BY <2>1, <2>2, <2>3 DEF SpinInv, MutexInv
<1>2. SpinInv /\ MutexInv => Exclusion
  <2> SUFFICES ASSUME SpinInv, MutexInv PROVE Exclusion
    OBVIOUS
  <2>1. ASSUME NEW l \in Spinlocks PROVE Cardinality(Holders(l)) <= 1
    <3>1. Holders(l) \subseteq {current}
      <4>1. Len(<<>>) = 0
        OBVIOUS
      <4> QED  BY <4>1 DEF Holders, SpinInv
    <3>2. IsFiniteSet({current}) /\ Cardinality({current}) = 1
      BY FS_Singleton
    <3> QED  BY <3>1, <3>2, FS_Subset
  <2>2. Cardinality(owners) <= 1
    <3>1. Cardinality(owners) = 0 \/ Cardinality(owners) = 1
      BY FS_EmptySet, FS_Singleton, Zenon DEF MutexInv
    <3> QED  BY <3>1
  <2> QED  BY <2>1, <2>2 DEF Exclusion
<1> QED  BY <1>1, <1>2, StepSpinInv, StepMutexInv, PTL DEF Spec

\* Events: the steps that change the counter or who is about to take from it.
LEMMA EventFrame ==
  ASSUME PcInv, [Next]_vars
  PROVE  \/ \E t \in Threads : WaitTurn(t) \/ EventTaken(t) \/ reset_event(t)
         \/ \E c \in Contexts : signal_event(c)
         \/ UNCHANGED event /\ \A t \in Threads : pc'[t] = "take" <=> pc[t] = "take"
<1> DEFINE Same == UNCHANGED event /\ \A t \in Threads : pc'[t] = "take" <=> pc[t] = "take"
<1>0. Threads \subseteq Contexts /\ Irq \in Contexts
  BY DEF Contexts
<1>1. ASSUME NEW c \in Contexts, NEW k, Goto(c, k), pc[c] # "take", k # "take", UNCHANGED event
      PROVE  Same
  BY <1>0, <1>1 DEF Goto, PcInv
<1>2. UNCHANGED event /\ UNCHANGED pc => Same
  OBVIOUS
<1> HIDE DEF Same
<1>3. ASSUME NEW t \in Threads,
             \/ AcquireTurn(t) \/ irq_register_handler(t) \/ DrainTest(t) \/ CopyWork(t)
             \/ AdvanceHead(t) \/ RunWork(t)
      PROVE  Same
  BY <1>0, <1>1, <1>2, <1>3 DEF AcquireTurn, irq_register_handler, DrainTest, CopyWork,
                                AdvanceHead, RunWork, At
<1>4. ASSUME NEW c \in Contexts, WorkStep(c) \/ schedule_work(c) PROVE Same
  BY <1>1, <1>2, <1>4 DEF WorkStep, StoreWork, PublishWork, schedule_work, At
<1>5. ASSUME NEW t \in Threads,
             \/ install_interrupt_handler(t) \/ release_mutex(t) \/ wait_for_work_completion(t)
             \/ \E timeout \in Timeouts : acquire_mutex(t, timeout)
             \/ \E timeout \in Timeouts \cup {Forever} : wait_for_event(t, timeout)
      PROVE  Same
  BY <1>0, <1>1, <1>2, <1>5 DEF install_interrupt_handler, release_mutex, acquire_mutex,
                                wait_for_work_completion, wait_for_event, At
<1>6. ASSUME NEW c \in Contexts, NEW l \in Spinlocks, lock_spinlock(c, l) \/ unlock_spinlock(c, l)
      PROVE  Same
  BY <1>2, <1>6 DEF lock_spinlock, unlock_spinlock
<1>7. ASSUME NEW t \in Threads, SwitchTo(t) PROVE Same
  BY <1>2, <1>7 DEF SwitchTo
<1>8. irq_handler \/ IrqReturn \/ UNCHANGED vars => Same
  BY <1>2 DEF irq_handler, IrqReturn, vars
<1>9. \/ \E t \in Threads : WaitTurn(t) \/ EventTaken(t) \/ reset_event(t)
      \/ \E c \in Contexts : signal_event(c)
      \/ Same
  BY <1>0, <1>3, <1>4, <1>5, <1>6, <1>7, <1>8 DEF Next, Unlock, ThreadStep, ThreadCall
<1> QED  BY <1>9 DEF Same

\* A context's label is one of Labels.
LEMMA StepPcInv == PcInv /\ [Next]_vars => PcInv'
<1> SUFFICES ASSUME PcInv, [Next]_vars PROVE PcInv'
  OBVIOUS
<1>0. Threads \subseteq Contexts /\ Irq \in Contexts
  BY DEF Contexts
<1>1. ASSUME NEW c \in Contexts, NEW k \in Labels, Goto(c, k) PROVE PcInv'
  BY <1>1 DEF Goto, PcInv
<1>2. UNCHANGED pc => PcInv'
  BY DEF PcInv
<1>3. {"idle", "register", "acquire", "wait", "take", "store", "publish", "copy", "advance",
       "run"} \subseteq Labels
  BY DEF Labels
<1>4. ASSUME NEW t \in Threads, ThreadStep(t) PROVE PcInv'
  BY <1>0, <1>1, <1>2, <1>3, <1>4
     DEF ThreadStep, AcquireTurn, WaitTurn, EventTaken, irq_register_handler, DrainTest,
         CopyWork, AdvanceHead, RunWork, WorkStep, StoreWork, PublishWork
<1>5. ASSUME NEW t \in Threads, ThreadCall(t) PROVE PcInv'
  BY <1>0, <1>1, <1>2, <1>3, <1>5
     DEF ThreadCall, install_interrupt_handler, release_mutex, reset_event,
         wait_for_work_completion, acquire_mutex, wait_for_event
<1>6. ASSUME NEW c \in Contexts,
             \/ signal_event(c) \/ schedule_work(c) \/ WorkStep(c)
             \/ \E l \in Spinlocks : lock_spinlock(c, l) \/ unlock_spinlock(c, l)
      PROVE  PcInv'
  BY <1>1, <1>2, <1>3, <1>6 DEF signal_event, schedule_work, WorkStep, StoreWork, PublishWork,
                                lock_spinlock, unlock_spinlock
<1>7. ASSUME NEW t \in Threads, SwitchTo(t) PROVE PcInv'
  BY <1>2, <1>7 DEF SwitchTo
<1>8. irq_handler \/ IrqReturn \/ UNCHANGED vars => PcInv'
  BY <1>2 DEF irq_handler, IrqReturn, vars
<1> QED  BY <1>0, <1>4, <1>5, <1>6, <1>7, <1>8 DEF Next, Unlock

LEMMA StepEventInv == PcInv /\ EventInv /\ [Next]_vars => EventInv'
<1> SUFFICES ASSUME PcInv, EventInv, [Next]_vars PROVE EventInv'
  OBVIOUS
<1>0. Threads \subseteq Contexts
  BY DEF Contexts
<1>1. ASSUME NEW t \in Threads, WaitTurn(t) PROVE EventInv'
  <2>1. UNCHANGED <<counter, signals, taken>>
    BY <1>1 DEF WaitTurn
  <2>2. CASE /\ counter > 0 /\ Goto(t, "take")
             /\ eventRaced' = (eventRaced \/ \E u \in Threads \ {t} : pc[u] = "take")
    <3>1. eventRaced' \in BOOLEAN
      BY <2>2, Zenon
    <3>2. ASSUME ~eventRaced' PROVE ~eventRaced /\ Takers' = {t}
      <4>1. ~eventRaced /\ \A u \in Threads \ {t} : pc[u] # "take"
        BY <2>2, <3>2
      <4>2. \A u \in Threads : pc'[u] = "take" <=> u = t
        BY <1>0, <2>2, <4>1 DEF Goto, PcInv
      <4> QED  BY <4>1, <4>2 DEF Takers
    <3> QED  BY <2>1, <2>2, <3>1, <3>2 DEF EventInv
  <2>3. CASE UNCHANGED eventRaced /\ (UNCHANGED pc \/ Goto(t, "idle"))
    <3>1. \A u \in Threads : pc'[u] = "take" <=> pc[u] = "take"
      BY <1>0, <1>1, <2>3 DEF WaitTurn, At, Goto, PcInv
    <3>2. Takers' = Takers
      BY <3>1 DEF Takers
    <3> QED  BY <2>1, <2>3, <3>2 DEF EventInv
  <2> QED  BY <1>1, <2>2, <2>3 DEF WaitTurn, Signalled
<1>2. ASSUME NEW t \in Threads, EventTaken(t) PROVE EventInv'
  <2>1. /\ pc[t] = "take" /\ counter' = counter - 1 /\ taken' = taken + 1
        /\ Goto(t, "idle") /\ UNCHANGED <<signals, eventRaced>>
    BY <1>2 DEF EventTaken, At
  <2>2. \A u \in Threads : pc'[u] = "take" <=> pc[u] = "take" /\ u # t
    BY <1>0, <2>1 DEF Goto, PcInv
  <2>3. t \in Takers /\ Takers' = Takers \ {t}
    BY <2>1, <2>2 DEF Takers
  <2> QED  BY <2>1, <2>3 DEF EventInv
<1>3. ASSUME NEW t \in Threads, reset_event(t) PROVE EventInv'
  <2>1. /\ counter' = 0 /\ taken' = 0 /\ signals' = 0 /\ UNCHANGED pc
        /\ eventRaced' = (eventRaced \/ \E u \in Threads : pc[u] = "take")
    BY <1>3 DEF reset_event
  <2>2. eventRaced' \in BOOLEAN
    BY <2>1, Zenon
  <2>3. ~eventRaced' => Takers' = {}
    BY <2>1 DEF Takers
  <2> QED  BY <2>1, <2>2, <2>3 DEF EventInv
<1>4. ASSUME NEW c \in Contexts, signal_event(c) PROVE EventInv'
  BY <1>4 DEF signal_event, EventInv, Takers
<1>5. CASE UNCHANGED event /\ \A t \in Threads : pc'[t] = "take" <=> pc[t] = "take"
  <2>1. Takers' = Takers
    BY <1>5 DEF Takers
  <2> QED  BY <1>5, <2>1 DEF event, EventInv
<1> QED  BY <1>1, <1>2, <1>3, <1>4, <1>5, EventFrame

LEMMA InitPcInv == Init => PcInv
BY DEF Init, PcInv, Labels

\* A wait that succeeds has a signal of its own, unless it raced.
THEOREM EventsExact == Spec => []EventExact
<1>1. Init => EventInv
  <2> SUFFICES ASSUME Init PROVE EventInv
    OBVIOUS
  <2>1. counter = 0 /\ signals = 0 /\ taken = 0 /\ eventRaced = FALSE
    BY DEF Init
  <2>2. Takers = {}
    BY DEF Init, Takers, Contexts
  <2>3. eventRaced \in BOOLEAN
    BY <2>1, Zenon
  <2>4. {counter, signals, taken} \subseteq Int /\ counter = signals - taken /\ counter >= 0
    BY <2>1
  <2> QED  BY <2>2, <2>3, <2>4 DEF EventInv
<1>2. EventInv => EventExact
  <2> SUFFICES ASSUME EventInv, ~eventRaced
               PROVE  counter = signals - taken /\ taken + Cardinality(Takers) <= signals
    BY DEF EventExact, Takers
  <2>1. \/ Cardinality(Takers) = 0
        \/ Cardinality(Takers) = 1 /\ counter >= 1
    BY FS_EmptySet, FS_Singleton, Zenon DEF EventInv
  <2> QED  BY <2>1 DEF EventInv
<1> QED  BY <1>1, <1>2, InitPcInv, StepPcInv, StepEventInv, PTL DEF Spec

\* Deferred work: positions in the ring, without the modulus.
LEMMA Wraps ==
  ASSUME NEW a \in Int, -MAX_WORK_ITEMS <= a, a < 2 * MAX_WORK_ITEMS
  PROVE  a % MAX_WORK_ITEMS = IF a < 0 THEN a + MAX_WORK_ITEMS
                              ELSE IF a < MAX_WORK_ITEMS THEN a ELSE a - MAX_WORK_ITEMS
<1> DEFINE N == MAX_WORK_ITEMS
           q == a \div N
           r == a % N
<1>1. N \in Nat \ {0}
  BY HostAssumption
<1>2. q \in Int /\ r \in 0..(N - 1) /\ a = N * q + r
  BY <1>1
<1> HIDE DEF N, q, r
<1>3. q >= 2 => N * q >= 2 * N
  BY <1>1, <1>2
<1>4. q <= -2 => N * q <= -2 * N
  BY <1>1, <1>2
<1>5. -N <= a /\ a < 2 * N
  BY DEF N
<1>6. q \in {-1, 0, 1}
  BY <1>1, <1>2, <1>3, <1>4, <1>5
<1>7. N * q = IF q = -1 THEN -N ELSE IF q = 0 THEN 0 ELSE N
  BY <1>1, <1>6
<1>8. r = IF a < 0 THEN a + N ELSE IF a < N THEN a ELSE a - N
  BY <1>1, <1>2, <1>5, <1>6, <1>7
<1> QED  BY <1>8 DEF N, r

LEMMA RingArithmetic ==
  ASSUME NEW h \in 0..(MAX_WORK_ITEMS - 1), NEW t \in 0..(MAX_WORK_ITEMS - 1)
  PROVE  /\ After(t) = IF t = MAX_WORK_ITEMS - 1 THEN 0 ELSE t + 1
         /\ (t - h) % MAX_WORK_ITEMS = IF h <= t THEN t - h ELSE t - h + MAX_WORK_ITEMS
         /\ \A i \in 1..MAX_WORK_ITEMS :
              (h + i - 1) % MAX_WORK_ITEMS = IF h + i - 1 < MAX_WORK_ITEMS THEN h + i - 1
                                             ELSE h + i - 1 - MAX_WORK_ITEMS
<1>1. MAX_WORK_ITEMS \in Nat \ {0}
  BY HostAssumption
<1>2. After(t) = IF t = MAX_WORK_ITEMS - 1 THEN 0 ELSE t + 1
  BY <1>1, Wraps DEF After
<1>3. (t - h) % MAX_WORK_ITEMS = IF h <= t THEN t - h ELSE t - h + MAX_WORK_ITEMS
  BY <1>1, Wraps
<1>4. ASSUME NEW i \in 1..MAX_WORK_ITEMS
      PROVE  (h + i - 1) % MAX_WORK_ITEMS = IF h + i - 1 < MAX_WORK_ITEMS THEN h + i - 1
                                            ELSE h + i - 1 - MAX_WORK_ITEMS
  <2>1. PICK a \in Int : a = h + i - 1
    OBVIOUS
  <2>2. -MAX_WORK_ITEMS <= a /\ a < 2 * MAX_WORK_ITEMS /\ ~(a < 0)
    BY <1>1, <2>1
  <2>3. a % MAX_WORK_ITEMS = IF a < MAX_WORK_ITEMS THEN a ELSE a - MAX_WORK_ITEMS
    BY <2>2, Wraps
  <2> QED  BY <1>1, <2>1, <2>3
<1> QED  BY <1>2, <1>3, <1>4

\* The steps of a context inside schedule_work or the loop that drains the queue,
\* and the rest, which leave the queue and these contexts alone.
WorkAction == \/ \E c \in Contexts : schedule_work(c) \/ StoreWork(c) \/ PublishWork(c)
              \/ \E t \in Threads : DrainTest(t) \/ CopyWork(t) \/ AdvanceHead(t) \/ RunWork(t)

WorkLabels == {"store", "publish", "copy", "advance", "run"}

LEMMA WorkFrame ==
  ASSUME PcInv, [Next]_vars
  PROVE  \/ WorkAction
         \/ /\ UNCHANGED <<queue, next, item>>
            /\ \A c \in Contexts : \A k \in WorkLabels : pc'[c] = k <=> pc[c] = k
<1> DEFINE Same == /\ UNCHANGED <<queue, next, item>>
                   /\ \A c \in Contexts : \A k \in WorkLabels : pc'[c] = k <=> pc[c] = k
<1>0. Threads \subseteq Contexts /\ Irq \in Contexts
  BY DEF Contexts
<1>1. ASSUME NEW c \in Contexts, NEW k, Goto(c, k), pc[c] \notin WorkLabels, k \notin WorkLabels,
             UNCHANGED <<queue, next, item>>
      PROVE  Same
  BY <1>0, <1>1 DEF Goto, PcInv
<1>2. UNCHANGED <<queue, next, item>> /\ UNCHANGED pc => Same
  OBVIOUS
<1>3. \A k \in {"idle", "register", "acquire", "wait", "take"} : k \notin WorkLabels
  BY DEF WorkLabels
<1> HIDE DEF Same
<1>4. ASSUME NEW t \in Threads,
             AcquireTurn(t) \/ irq_register_handler(t) \/ WaitTurn(t) \/ EventTaken(t)
      PROVE  Same
  BY <1>0, <1>1, <1>2, <1>3, <1>4 DEF AcquireTurn, irq_register_handler, WaitTurn, EventTaken,
                                      At, locals
<1>5. ASSUME NEW t \in Threads, ThreadCall(t) PROVE Same
  BY <1>0, <1>1, <1>2, <1>3, <1>5
     DEF ThreadCall, install_interrupt_handler, release_mutex, acquire_mutex, reset_event,
         wait_for_work_completion, wait_for_event, At, locals
<1>6. ASSUME NEW c \in Contexts, NEW l \in Spinlocks, lock_spinlock(c, l) \/ unlock_spinlock(c, l)
      PROVE  Same
  BY <1>2, <1>6 DEF lock_spinlock, unlock_spinlock, locals
<1>7. ASSUME NEW t \in Threads, SwitchTo(t) PROVE Same
  BY <1>2, <1>7 DEF SwitchTo, locals
<1>8. irq_handler \/ IrqReturn \/ UNCHANGED vars => Same
  BY <1>2 DEF irq_handler, IrqReturn, vars, locals
<1>9. ASSUME NEW c \in Contexts, signal_event(c) PROVE Same
  BY <1>2, <1>9 DEF signal_event, locals
<1>10. WorkAction \/ Same
  BY <1>0, <1>4, <1>5, <1>6, <1>7, <1>8, <1>9
     DEF Next, Unlock, ThreadStep, WorkStep, WorkAction
<1> QED  BY <1>10 DEF Same

LEMMA RingFacts ==
  ASSUME QueueTypes
  PROVE  /\ Waiting \in 0..(MAX_WORK_ITEMS - 1)
         /\ After(work_queue_tail) \in 0..(MAX_WORK_ITEMS - 1)
         /\ After(work_queue_head) \in 0..(MAX_WORK_ITEMS - 1)
         /\ work_queue_head # work_queue_tail =>
              /\ Waiting >= 1 /\ After(work_queue_tail) # After(work_queue_head)
              /\ (work_queue_tail - After(work_queue_head)) % MAX_WORK_ITEMS = Waiting - 1
         /\ ~Full => (After(work_queue_tail) - work_queue_head) % MAX_WORK_ITEMS = Waiting + 1
         /\ (work_queue_head + 1 - 1) % MAX_WORK_ITEMS = work_queue_head
         /\ (work_queue_head + (Waiting + 1) - 1) % MAX_WORK_ITEMS = work_queue_tail
         /\ \A i \in 1..Waiting :
              /\ (work_queue_head + i - 1) % MAX_WORK_ITEMS \in 0..(MAX_WORK_ITEMS - 1)
              /\ (work_queue_head + i - 1) % MAX_WORK_ITEMS # work_queue_tail
         /\ \A i \in 1..(Waiting - 1) :
              (After(work_queue_head) + i - 1) % MAX_WORK_ITEMS
                = (work_queue_head + (i + 1) - 1) % MAX_WORK_ITEMS
<1> DEFINE N == MAX_WORK_ITEMS
           h == work_queue_head
           t == work_queue_tail
<1>1. N \in Nat \ {0} /\ h \in 0..(N - 1) /\ t \in 0..(N - 1)
  BY HostAssumption DEF QueueTypes
<1>2. Waiting = IF h <= t THEN t - h ELSE t - h + N
  BY <1>1, RingArithmetic DEF Waiting
<1>3. /\ After(t) = IF t = N - 1 THEN 0 ELSE t + 1
      /\ After(h) = IF h = N - 1 THEN 0 ELSE h + 1
  BY <1>1, RingArithmetic
<1>4. After(t) \in 0..(N - 1) /\ After(h) \in 0..(N - 1)
  BY <1>1, <1>3
<1>5. \A i \in 1..N : (h + i - 1) % N = IF h + i - 1 < N THEN h + i - 1 ELSE h + i - 1 - N
  BY <1>1, RingArithmetic
<1>6. \A i \in 1..N : (After(h) + i - 1) % N = IF After(h) + i - 1 < N THEN After(h) + i - 1
                                               ELSE After(h) + i - 1 - N
  BY <1>4, RingArithmetic
<1>7. (t - After(h)) % N = IF After(h) <= t THEN t - After(h) ELSE t - After(h) + N
  BY <1>1, <1>4, RingArithmetic
<1>8. (After(t) - h) % N = IF h <= After(t) THEN After(t) - h ELSE After(t) - h + N
  BY <1>1, <1>4, RingArithmetic
<1>9. Full <=> After(t) = h
  BY DEF Full
<1> HIDE DEF N, h, t
<1>10. Waiting \in 0..(N - 1)
  BY <1>1, <1>2
<1>11. h # t => Waiting >= 1 /\ After(t) # After(h) /\ (t - After(h)) % N = Waiting - 1
  BY <1>1, <1>2, <1>3, <1>7
<1>12. ~Full => (After(t) - h) % N = Waiting + 1
  BY <1>1, <1>2, <1>3, <1>8, <1>9
<1>13. (h + 1 - 1) % N = h
  <2>1. 1 \in 1..N
    BY <1>1
  <2>2. (h + 1 - 1) % N = IF h + 1 - 1 < N THEN h + 1 - 1 ELSE h + 1 - 1 - N
    BY <1>5, <2>1
  <2> QED  BY <1>1, <2>2
<1>14. (h + (Waiting + 1) - 1) % N = t
  <2>1. PICK j \in Int : j = Waiting + 1
    BY <1>10
  <2>2. j \in 1..N
    BY <1>1, <1>10, <2>1
  <2>3. (h + j - 1) % N = t
    BY <1>1, <1>2, <1>5, <2>1, <2>2
  <2> QED  BY <2>1, <2>3
<1>15. ASSUME NEW i \in 1..Waiting PROVE (h + i - 1) % N \in 0..(N - 1) /\ (h + i - 1) % N # t
  BY <1>1, <1>2, <1>5, <1>10
<1>16. ASSUME NEW i \in 1..(Waiting - 1)
       PROVE  (After(h) + i - 1) % N = (h + (i + 1) - 1) % N
  <2>1. PICK j \in Int : j = i + 1
    OBVIOUS
  <2>2. i \in 1..N /\ j \in 1..N
    BY <1>1, <1>10, <2>1
  <2>3. (After(h) + i - 1) % N = (h + j - 1) % N
    BY <1>1, <1>2, <1>3, <1>5, <1>6, <2>1, <2>2
  <2> QED  BY <2>1, <2>3
<1> QED  BY <1>4, <1>10, <1>11, <1>12, <1>13, <1>14, <1>15, <1>16 DEF N, h, t

\* Every earlier item has been run or is about to be: a step that touches
\* neither the ends of the queue nor a running thread changes nothing of that.
LEMMA RanKept ==
  ASSUME RanOnce, UNCHANGED <<work_queue_head, work_queue_tail, accepted, ran>>,
         \A t \in Threads : /\ pc'[t] = "run" <=> pc[t] = "run"
                            /\ pc[t] = "run" => item'[t] = item[t]
  PROVE  RanOnce'
<1>1. Running' = Running
  BY DEF Running
<1>2. Dequeued' = Dequeued
  BY DEF Dequeued, Waiting
<1>3. Started' = Started
  BY <1>1 DEF Started, Running
<1> QED  BY <1>1, <1>2, <1>3 DEF RanOnce

Sound == QueueTypes /\ PostSound /\ TakeSound /\ RingHolds /\ RanOnce

LEMMA ScheduleSound ==
  ASSUME PcInv, Sound, NEW c \in Contexts, schedule_work(c), ~workRaced'
  PROVE  Sound'
<1>0. Threads \subseteq Contexts
  BY DEF Contexts
<1>1. /\ pc[c] = "idle" /\ posted' = posted + 1
      /\ UNCHANGED <<work_queue, work_queue_head, work_queue_tail, accepted, ran>>
  BY DEF schedule_work, At
<1>2. RingHolds'
  BY <1>1 DEF Sound, RingHolds, Dequeued, Waiting
<1>3. CASE UNCHANGED <<pc, next, item>>
  <2>1. RanOnce'
    BY <1>1, <1>3, RanKept DEF Sound
  <2> QED
    BY <1>1, <1>2, <1>3, <2>1 DEF Sound, QueueTypes, PostSound, TakeSound, Posting, Taking, Full
<1>4. CASE /\ ~Full /\ Goto(c, "store")
           /\ next' = [next EXCEPT ![c] = After(work_queue_tail)]
           /\ item' = [item EXCEPT ![c] = posted + 1]
           /\ workRaced' = (workRaced \/ \E d \in Contexts \ {c} : pc[d] \in {"store", "publish"})
  <2>1. \A x \in Contexts : pc'[x] = IF x = c THEN "store" ELSE pc[x]
    BY <1>4 DEF Goto, PcInv
  <2>2. \A x \in Contexts \ {c} : item'[x] = item[x] /\ next'[x] = next[x]
    BY <1>4 DEF Sound, QueueTypes
  <2>3. QueueTypes'
    <3>1. After(work_queue_tail) \in Int
      BY RingFacts DEF Sound
    <3> QED  BY <1>1, <1>4, <3>1 DEF Sound, QueueTypes
  <2>4. Posting' = {c}
    BY <1>4, <2>1 DEF Posting
  <2>5. PostSound'
    BY <1>1, <1>4, <2>1, <2>4 DEF Sound, QueueTypes, PostSound, Full
  <2>6. Taking' = Taking
    BY <1>0, <1>1, <2>1 DEF Taking
  <2>7. TakeSound'
    BY <1>0, <1>1, <2>1, <2>2, <2>6 DEF Sound, TakeSound, Taking
  <2>8. RanOnce'
    BY <1>0, <1>1, <2>1, <2>2, RanKept DEF Sound
  <2> QED  BY <1>2, <2>3, <2>5, <2>7, <2>8 DEF Sound
<1> QED  BY <1>3, <1>4 DEF schedule_work

LEMMA StoreSound ==
  ASSUME PcInv, Sound, NEW c \in Contexts, StoreWork(c)
  PROVE  Sound'
<1>0. Threads \subseteq Contexts
  BY DEF Contexts
<1>1. /\ pc[c] = "store" /\ work_queue' = [work_queue EXCEPT ![work_queue_tail] = item[c]]
      /\ Goto(c, "publish")
      /\ UNCHANGED <<next, item, work_queue_head, work_queue_tail, posted, accepted, ran>>
  BY DEF StoreWork, At, locals
<1>2. \A x \in Contexts : pc'[x] = IF x = c THEN "publish" ELSE pc[x]
  BY <1>1 DEF Goto, PcInv
<1>3. /\ work_queue_tail \in 0..(MAX_WORK_ITEMS - 1)
      /\ \A i \in 0..(MAX_WORK_ITEMS - 1) :
           work_queue'[i] = IF i = work_queue_tail THEN item[c] ELSE work_queue[i]
  BY <1>1 DEF Sound, QueueTypes
<1>4. QueueTypes'
  BY <1>1 DEF Sound, QueueTypes
<1>5. c \in Posting /\ Posting' = Posting
  BY <1>1, <1>2 DEF Posting
<1>6. PostSound'
  BY <1>1, <1>2, <1>3, <1>5 DEF Sound, PostSound, Full
<1>7. Taking' = Taking
  BY <1>0, <1>1, <1>2 DEF Taking
<1>8. TakeSound'
  <2>1. ASSUME NEW t \in Taking
        PROVE  /\ work_queue_head # work_queue_tail
               /\ pc'[t] = "advance" => item[t] = work_queue'[work_queue_head]
    <3>1. work_queue_head # work_queue_tail /\ work_queue_head \in 0..(MAX_WORK_ITEMS - 1)
      BY DEF Sound, TakeSound, QueueTypes
    <3>2. pc'[t] = pc[t]
      BY <1>0, <1>1, <1>2 DEF Taking
    <3> QED  BY <1>3, <3>1, <3>2 DEF Sound, TakeSound
  <2> QED  BY <1>1, <1>7, <2>1 DEF Sound, TakeSound
<1>9. RingHolds'
  <2>1. Waiting' = Waiting /\ Dequeued' = Dequeued
    BY <1>1 DEF Waiting, Dequeued
  <2>2. \A i \in 1..Waiting : work_queue'[(work_queue_head + i - 1) % MAX_WORK_ITEMS]
                                = work_queue[(work_queue_head + i - 1) % MAX_WORK_ITEMS]
    BY <1>3, RingFacts DEF Sound
  <2> QED  BY <1>1, <2>1, <2>2 DEF Sound, RingHolds
<1>10. RanOnce'
  BY <1>0, <1>1, <1>2, RanKept DEF Sound
<1> QED  BY <1>4, <1>6, <1>8, <1>9, <1>10 DEF Sound

LEMMA PublishSound ==
  ASSUME PcInv, Sound, NEW c \in Contexts, PublishWork(c), ~workRaced
  PROVE  Sound'
<1>0. Threads \subseteq Contexts
  BY DEF Contexts
<1>1. /\ pc[c] = "publish" /\ work_queue_tail' = next[c]
      /\ accepted' = Append(accepted, item[c]) /\ Goto(c, "idle")
      /\ next' = [next EXCEPT ![c] = 0] /\ item' = [item EXCEPT ![c] = 0]
      /\ UNCHANGED <<work_queue, work_queue_head, posted, ran>>
  BY DEF PublishWork, At
<1>2. \A x \in Contexts : pc'[x] = IF x = c THEN "idle" ELSE pc[x]
  BY <1>1 DEF Goto, PcInv
<1>3. \A x \in Contexts \ {c} : item'[x] = item[x]
  BY <1>1 DEF Sound, QueueTypes
<1>4. c \in Posting /\ Posting' = {}
  BY <1>1, <1>2 DEF Sound, PostSound, Posting
<1>5. /\ work_queue_tail' = After(work_queue_tail) /\ ~Full
      /\ work_queue[work_queue_tail] = item[c]
  BY <1>1, <1>4 DEF Sound, PostSound
<1>6. /\ item[c] \in Int /\ accepted \in Seq(Int) /\ accepted' \in Seq(Int)
      /\ Len(accepted') = Len(accepted) + 1 /\ Len(accepted) \in Nat
      /\ accepted'[Len(accepted) + 1] = item[c]
      /\ \A i \in 1..Len(accepted) : accepted'[i] = accepted[i]
  <2>1. item[c] \in Int /\ accepted \in Seq(Int)
    BY DEF Sound, QueueTypes
  <2> QED  BY <1>1, <2>1, AppendProperties, LenProperties
<1>7. QueueTypes'
  <2>1. After(work_queue_tail) \in 0..(MAX_WORK_ITEMS - 1)
    BY RingFacts DEF Sound
  <2> QED  BY <1>1, <1>5, <1>6, <2>1 DEF Sound, QueueTypes
<1>8. PostSound'
  BY <1>4 DEF PostSound
<1>9. Taking' = Taking
  BY <1>0, <1>1, <1>2 DEF Taking
<1>10. TakeSound'
  <2>1. \A t \in Taking : t # c /\ pc'[t] = pc[t] /\ item'[t] = item[t]
    BY <1>0, <1>1, <1>2, <1>3 DEF Taking
  <2>2. work_queue_head' # work_queue_tail'
    BY <1>1, <1>5 DEF Full
  <2> QED  BY <1>1, <1>9, <2>1, <2>2 DEF Sound, TakeSound
<1>11. Waiting \in Nat /\ Waiting' = Waiting + 1
  BY <1>1, <1>5, RingFacts DEF Sound, Waiting
<1>12. Dequeued' = Dequeued /\ Dequeued \in Int /\ Dequeued + Waiting = Len(accepted)
  BY <1>6, <1>11 DEF Dequeued
<1>13. RingHolds'
  <2>1. Waiting <= Len(accepted)
    BY DEF Sound, RingHolds
  <2>2. ASSUME NEW i \in 1..(Waiting + 1)
        PROVE  work_queue[(work_queue_head + i - 1) % MAX_WORK_ITEMS] = accepted'[Dequeued + i]
    <3>1. CASE i \in 1..Waiting
      <4>1. Dequeued + i \in 1..Len(accepted)
        BY <1>11, <1>12, <2>1, <3>1
      <4> QED  BY <1>6, <3>1, <4>1 DEF Sound, RingHolds
    <3>2. CASE i = Waiting + 1
      <4>1. (work_queue_head + i - 1) % MAX_WORK_ITEMS = work_queue_tail
        BY <3>2, RingFacts DEF Sound
      <4>2. Dequeued + i = Len(accepted) + 1
        BY <1>11, <1>12, <3>2
      <4> QED  BY <1>5, <1>6, <4>1, <4>2
    <3> QED  BY <1>11, <3>1, <3>2
  <2> QED  BY <1>1, <1>6, <1>11, <1>12, <2>1, <2>2 DEF RingHolds
<1>14. RanOnce'
  <2>1. Running' = Running
    BY <1>0, <1>1, <1>2 DEF Running
  <2>2. Started' = Started
    <3>1. \A t \in Running : item'[t] = item[t]
      BY <1>0, <1>1, <1>3 DEF Running
    <3> QED  BY <1>1, <2>1, <3>1 DEF Started
  <2>3. \A i \in 1..Dequeued : accepted'[i] = accepted[i]
    BY <1>6, <1>11, <1>12
  <2>4. {accepted'[i] : i \in 1..Dequeued} = {accepted[i] : i \in 1..Dequeued}
    BY <2>3
  <2> QED  BY <1>1, <1>12, <2>1, <2>2, <2>4 DEF Sound, RanOnce
<1> QED  BY <1>7, <1>8, <1>10, <1>13, <1>14 DEF Sound

LEMMA DrainSound ==
  ASSUME PcInv, Sound, NEW t \in Threads, DrainTest(t), ~workRaced'
  PROVE  Sound'
<1>0. Threads \subseteq Contexts
  BY DEF Contexts
<1>1. /\ pc[t] = "idle"
      /\ UNCHANGED <<next, item, work_queue, work_queue_head, work_queue_tail, posted, accepted, ran>>
  BY DEF DrainTest, At
<1>2. QueueTypes' /\ RingHolds'
  BY <1>1 DEF Sound, QueueTypes, RingHolds, Dequeued, Waiting
<1>3. CASE UNCHANGED pc
  <2>1. RanOnce'
    BY <1>1, <1>3, RanKept DEF Sound
  <2> QED
    BY <1>1, <1>2, <1>3, <2>1 DEF Sound, PostSound, TakeSound, Posting, Taking, Full
<1>4. CASE /\ work_queue_head # work_queue_tail /\ Goto(t, "copy")
           /\ workRaced' = (workRaced \/ \E u \in Threads \ {t} : pc[u] \in {"copy", "advance"})
  <2>1. \A x \in Contexts : pc'[x] = IF x = t THEN "copy" ELSE pc[x]
    BY <1>4 DEF Goto, PcInv
  <2>2. Posting' = Posting
    BY <1>0, <1>1, <2>1 DEF Posting
  <2>3. PostSound'
    BY <1>0, <1>1, <2>1, <2>2 DEF Sound, PostSound, Posting, Full
  <2>4. Taking' = {t}
    BY <1>0, <1>4, <2>1 DEF Taking
  <2>5. TakeSound'
    BY <1>0, <1>1, <1>4, <2>1, <2>4 DEF TakeSound
  <2>6. RanOnce'
    BY <1>0, <1>1, <2>1, RanKept DEF Sound
  <2> QED  BY <1>2, <2>3, <2>5, <2>6 DEF Sound
<1> QED  BY <1>3, <1>4 DEF DrainTest

LEMMA CopySound ==
  ASSUME PcInv, Sound, NEW t \in Threads, CopyWork(t)
  PROVE  Sound'
<1>0. Threads \subseteq Contexts
  BY DEF Contexts
<1>1. /\ pc[t] = "copy" /\ item' = [item EXCEPT ![t] = work_queue[work_queue_head]]
      /\ Goto(t, "advance")
      /\ UNCHANGED <<next, work_queue, work_queue_head, work_queue_tail, posted, accepted, ran>>
  BY DEF CopyWork, At, queue
<1>2. \A x \in Contexts : pc'[x] = IF x = t THEN "advance" ELSE pc[x]
  BY <1>1 DEF Goto, PcInv
<1>3. \A x \in Contexts : item'[x] = IF x = t THEN work_queue[work_queue_head] ELSE item[x]
  BY <1>1 DEF Sound, QueueTypes
<1>4. QueueTypes' /\ RingHolds'
  BY <1>0, <1>1 DEF Sound, QueueTypes, RingHolds, Dequeued, Waiting
<1>5. Posting' = Posting /\ Taking' = Taking
  BY <1>0, <1>1, <1>2 DEF Posting, Taking
<1>6. PostSound'
  <2>1. \A x \in Posting : pc'[x] = pc[x] /\ item'[x] = item[x]
    BY <1>1, <1>2, <1>3 DEF Posting
  <2> QED  BY <1>1, <1>5, <2>1 DEF Sound, PostSound, Full
<1>7. TakeSound'
  <2>1. \A u \in Taking : u = t
    BY <1>1 DEF Sound, TakeSound, Taking
  <2> QED  BY <1>0, <1>1, <1>3, <1>5, <2>1 DEF Sound, TakeSound
<1>8. RanOnce'
  BY <1>0, <1>1, <1>2, <1>3, RanKept DEF Sound
<1> QED  BY <1>4, <1>6, <1>7, <1>8 DEF Sound

LEMMA AdvanceSound ==
  ASSUME PcInv, Sound, NEW t \in Threads, AdvanceHead(t)
  PROVE  Sound'
<1>0. Threads \subseteq Contexts
  BY DEF Contexts
<1>1. /\ pc[t] = "advance" /\ work_queue_head' = After(work_queue_head) /\ Goto(t, "run")
      /\ UNCHANGED <<next, item, work_queue, work_queue_tail, posted, accepted, ran>>
  BY DEF AdvanceHead, At, locals
<1>2. \A x \in Contexts : pc'[x] = IF x = t THEN "run" ELSE pc[x]
  BY <1>1 DEF Goto, PcInv
<1>3. /\ t \in Taking /\ Taking' = {} /\ work_queue_head # work_queue_tail
      /\ item[t] = work_queue[work_queue_head]
  BY <1>0, <1>1, <1>2 DEF Sound, TakeSound, Taking
<1>4. QueueTypes'
  <2>1. After(work_queue_head) \in 0..(MAX_WORK_ITEMS - 1)
    BY RingFacts DEF Sound
  <2> QED  BY <1>1, <2>1 DEF Sound, QueueTypes
<1>5. PostSound'
  <2>1. Posting' = Posting /\ \A x \in Posting : pc'[x] = pc[x]
    BY <1>0, <1>1, <1>2 DEF Posting
  <2>2. ~Full'
    BY <1>1, <1>3, RingFacts DEF Sound, Full
  <2> QED  BY <1>1, <2>1, <2>2 DEF Sound, PostSound
<1>6. TakeSound'
  BY <1>3 DEF TakeSound
<1>7. Waiting \in Nat \ {0} /\ Waiting' = Waiting - 1
  BY <1>1, <1>3, RingFacts DEF Sound, Waiting
<1>8. /\ Len(accepted) \in Nat /\ Dequeued' = Dequeued + 1 /\ Dequeued \in Nat
      /\ Waiting <= Len(accepted) /\ Dequeued + Waiting = Len(accepted)
  <2>1. Len(accepted) \in Nat /\ Waiting <= Len(accepted)
    BY LenProperties DEF Sound, QueueTypes, RingHolds
  <2> QED  BY <1>1, <1>7, <2>1 DEF Dequeued
<1>9. item[t] = accepted[Dequeued + 1]
  <2>1. 1 \in 1..Waiting
    BY <1>7
  <2>2. work_queue[(work_queue_head + 1 - 1) % MAX_WORK_ITEMS] = accepted[Dequeued + 1]
    BY <2>1 DEF Sound, RingHolds
  <2> QED  BY <1>3, <2>2, RingFacts DEF Sound
<1>10. RingHolds'
  <2>1. ASSUME NEW i \in 1..(Waiting - 1)
        PROVE  work_queue[(After(work_queue_head) + i - 1) % MAX_WORK_ITEMS]
                 = accepted[(Dequeued + 1) + i]
    <3>1. PICK j \in 1..Waiting : j = i + 1
      BY <1>7
    <3>2. (After(work_queue_head) + i - 1) % MAX_WORK_ITEMS
            = (work_queue_head + j - 1) % MAX_WORK_ITEMS
      BY <3>1, RingFacts DEF Sound
    <3>3. work_queue[(work_queue_head + j - 1) % MAX_WORK_ITEMS] = accepted[Dequeued + j]
      BY DEF Sound, RingHolds
    <3>4. Dequeued + j = (Dequeued + 1) + i
      BY <1>8, <3>1
    <3> QED  BY <3>2, <3>3, <3>4
  <2>2. Waiting - 1 <= Len(accepted)
    BY <1>7, <1>8
  <2> QED  BY <1>1, <1>7, <1>8, <2>1, <2>2 DEF RingHolds
<1>11. RanOnce'
  <2>1. t \notin Running /\ Running' = Running \cup {t}
    BY <1>0, <1>1, <1>2 DEF Running
  <2>2. IsFiniteSet(Running') /\ Cardinality(Running') = Cardinality(Running) + 1
    BY <2>1, FS_AddElement DEF Sound, RanOnce
  <2>3. Started' = Started \cup {item[t]}
    BY <1>1, <2>1 DEF Started
  <2>4. {accepted[i] : i \in 1..(Dequeued + 1)}
          = {accepted[i] : i \in 1..Dequeued} \cup {accepted[Dequeued + 1]}
    <3>1. 1..(Dequeued + 1) = (1..Dequeued) \cup {Dequeued + 1}
      BY <1>8
    <3> QED  BY <3>1
  <2>5. Cardinality(Running) \in Nat /\ Len(ran) \in Nat
    BY FS_CardinalityType, LenProperties DEF Sound, RanOnce, QueueTypes
  <2> QED  BY <1>1, <1>8, <1>9, <2>2, <2>3, <2>4, <2>5 DEF Sound, RanOnce
<1> QED  BY <1>4, <1>5, <1>6, <1>10, <1>11 DEF Sound

LEMMA RunSound ==
  ASSUME PcInv, Sound, NEW t \in Threads, RunWork(t), ~workRaced
  PROVE  Sound'
<1>0. Threads \subseteq Contexts
  BY DEF Contexts
<1>1. /\ pc[t] = "run" /\ ran' = Append(ran, item[t]) /\ item' = [item EXCEPT ![t] = 0]
      /\ Goto(t, "idle")
      /\ UNCHANGED <<next, work_queue, work_queue_head, work_queue_tail, posted, accepted>>
  BY DEF RunWork, At
<1>2. \A x \in Contexts : pc'[x] = IF x = t THEN "idle" ELSE pc[x]
  BY <1>1 DEF Goto, PcInv
<1>3. \A x \in Contexts : item'[x] = IF x = t THEN 0 ELSE item[x]
  BY <1>1 DEF Sound, QueueTypes
<1>4. /\ item[t] \in Int /\ ran' \in Seq(Int) /\ Len(ran) \in Nat /\ Len(ran') = Len(ran) + 1
      /\ ran'[Len(ran) + 1] = item[t] /\ \A i \in 1..Len(ran) : ran'[i] = ran[i]
  <2>1. item[t] \in Int /\ ran \in Seq(Int)
    BY <1>0 DEF Sound, QueueTypes
  <2> QED  BY <1>1, <2>1, AppendProperties, LenProperties
<1>5. QueueTypes' /\ RingHolds'
  <2>1. item' \in [Contexts -> Int]
    <3>1. item \in [Contexts -> Int] /\ 0 \in Int
      BY DEF Sound, QueueTypes
    <3> QED  BY <1>1, <3>1
  <2>2. QueueTypes'
    BY <1>1, <1>4, <2>1 DEF Sound, QueueTypes
  <2>3. RingHolds'
    BY <1>1 DEF Sound, RingHolds, Dequeued, Waiting
  <2> QED  BY <2>2, <2>3
<1>6. Posting' = Posting /\ Taking' = Taking
  BY <1>0, <1>1, <1>2 DEF Posting, Taking
<1>7. PostSound'
  <2>1. \A x \in Posting : pc'[x] = pc[x] /\ item'[x] = item[x]
    BY <1>1, <1>2, <1>3 DEF Posting
  <2> QED  BY <1>1, <1>6, <2>1 DEF Sound, PostSound, Full
<1>8. TakeSound'
  <2>1. \A x \in Taking : pc'[x] = pc[x] /\ item'[x] = item[x]
    BY <1>0, <1>1, <1>2, <1>3 DEF Taking
  <2> QED  BY <1>1, <1>6, <2>1 DEF Sound, TakeSound
<1>9. RanOnce'
  <2>1. t \in Running /\ Running' = Running \ {t}
    BY <1>0, <1>1, <1>2 DEF Running
  <2>2. IsFiniteSet(Running') /\ Cardinality(Running') = Cardinality(Running) - 1
    BY <2>1, FS_RemoveElement DEF Sound, RanOnce
  <2>3. {ran'[i] : i \in 1..Len(ran')} = {ran[i] : i \in 1..Len(ran)} \cup {item[t]}
    <3>1. 1..Len(ran') = (1..Len(ran)) \cup {Len(ran) + 1}
      BY <1>4
    <3> QED  BY <1>4, <3>1
  <2>4. {item'[u] : u \in Running'} \cup {item[t]} = {item[u] : u \in Running}
    <3>1. \A u \in Running' : item'[u] = item[u]
      BY <1>0, <1>3, <2>1 DEF Running
    <3> QED  BY <2>1, <3>1
  <2>5. Started' = Started
    BY <2>3, <2>4 DEF Started
  <2>6. Dequeued' = Dequeued
    BY <1>1 DEF Dequeued, Waiting
  <2>7. Cardinality(Running) \in Nat
    BY FS_CardinalityType DEF Sound, RanOnce
  <2> QED  BY <1>1, <1>4, <2>2, <2>5, <2>6, <2>7 DEF Sound, RanOnce
<1> QED  BY <1>5, <1>7, <1>8, <1>9 DEF Sound

LEMMA StepWorkInv == PcInv /\ WorkInv /\ [Next]_vars => WorkInv'
<1> SUFFICES ASSUME PcInv, WorkInv, [Next]_vars PROVE WorkInv'
  OBVIOUS
<1>1. workRaced \in BOOLEAN /\ (~workRaced => Sound)
  BY DEF WorkInv, Sound
<1>2. ASSUME WorkAction PROVE workRaced' \in BOOLEAN /\ (workRaced => workRaced')
  BY <1>1, <1>2, Zenon DEF WorkAction, schedule_work, StoreWork, PublishWork, DrainTest, CopyWork,
                    AdvanceHead, RunWork, queue
<1>3. ASSUME WorkAction, ~workRaced' PROVE Sound'
  BY <1>1, <1>2, <1>3, ScheduleSound, StoreSound, PublishSound, DrainSound, CopySound,
     AdvanceSound, RunSound DEF WorkAction
<1>4. CASE /\ UNCHANGED <<queue, next, item>>
           /\ \A c \in Contexts : \A k \in WorkLabels : pc'[c] = k <=> pc[c] = k
  <2>1. UNCHANGED <<work_queue, work_queue_head, work_queue_tail, posted, accepted, ran,
                    workRaced, next, item>>
    BY <1>4 DEF queue
  <2>2. \A c \in Contexts : /\ pc'[c] = "store" <=> pc[c] = "store"
                            /\ pc'[c] = "publish" <=> pc[c] = "publish"
                            /\ pc'[c] = "copy" <=> pc[c] = "copy"
                            /\ pc'[c] = "advance" <=> pc[c] = "advance"
                            /\ pc'[c] = "run" <=> pc[c] = "run"
    BY <1>4 DEF WorkLabels
  <2>3. Threads \subseteq Contexts
    BY DEF Contexts
  <2>4. ASSUME Sound PROVE Sound'
    <3>1. QueueTypes' /\ RingHolds'
      BY <2>1, <2>4 DEF Sound, QueueTypes, RingHolds, Dequeued, Waiting
    <3>2. Posting' = Posting /\ Taking' = Taking
      BY <2>2, <2>3 DEF Posting, Taking
    <3>3. PostSound'
      BY <2>1, <2>2, <2>4, <3>2 DEF Sound, PostSound, Full, Posting
    <3>4. TakeSound'
      BY <2>1, <2>2, <2>3, <2>4, <3>2 DEF Sound, TakeSound, Taking
    <3>5. RanOnce'
      BY <2>1, <2>2, <2>3, <2>4, RanKept DEF Sound
    <3> QED  BY <3>1, <3>3, <3>4, <3>5 DEF Sound
  <2> QED  BY <1>1, <2>1, <2>4 DEF WorkInv, Sound
<1>5. CASE WorkAction
  BY <1>2, <1>3, <1>5 DEF WorkInv, Sound
<1> QED  BY <1>4, <1>5, WorkFrame

\* Deferred work is run once and in order, unless two posts or two drains raced.
THEOREM WorkDone == Spec => []WorkExact
<1>1. Init => WorkInv
  <2> SUFFICES ASSUME Init PROVE WorkInv
    OBVIOUS
  <2>1. /\ work_queue_head = 0 /\ work_queue_tail = 0 /\ posted = 0 /\ accepted = <<>>
        /\ ran = <<>> /\ workRaced = FALSE /\ pc = [c \in Contexts |-> "idle"]
        /\ item = [c \in Contexts |-> 0] /\ next = [c \in Contexts |-> 0]
        /\ work_queue = [i \in 0..(MAX_WORK_ITEMS - 1) |-> 0]
    BY DEF Init
  <2>2. <<>> \in Seq(Int) /\ Len(<<>>) = 0
    BY EmptySeq
  <2>3. MAX_WORK_ITEMS \in Nat \ {0}
    BY HostAssumption
  <2>4. QueueTypes
    BY <2>1, <2>2, <2>3 DEF QueueTypes
  <2>5. Waiting = 0
    <3>1. 0 \in 0..(MAX_WORK_ITEMS - 1)
      BY <2>3
    <3>2. (0 - 0) % MAX_WORK_ITEMS = IF 0 <= 0 THEN 0 - 0 ELSE 0 - 0 + MAX_WORK_ITEMS
      BY <3>1, RingArithmetic
    <3> QED  BY <2>1, <3>2 DEF Waiting
  <2>6. Dequeued = 0
    BY <2>1, <2>2, <2>5 DEF Dequeued
  <2>7. Posting = {} /\ Taking = {} /\ Running = {}
    BY <2>1 DEF Posting, Taking, Running, Contexts
  <2>8. RingHolds
    BY <2>1, <2>2, <2>5 DEF RingHolds
  <2>9. RanOnce
    <3>1. IsFiniteSet(Running) /\ Cardinality(Running) = 0
      BY <2>7, FS_EmptySet, Zenon
    <3>2. 1..0 = {}
      OBVIOUS
    <3> QED  BY <2>1, <2>2, <2>6, <2>7, <3>1, <3>2 DEF RanOnce, Started
  <2>10. workRaced \in BOOLEAN
    BY <2>1, Zenon
  <2> QED  BY <2>4, <2>7, <2>8, <2>9, <2>10 DEF WorkInv, PostSound, TakeSound
<1>2. WorkInv => WorkExact
  <2> SUFFICES ASSUME WorkInv, ~workRaced
               PROVE  LET dequeued == Len(accepted) - Len(Queued) IN
                      /\ Queued = SubSeq(accepted, dequeued + 1, Len(accepted))
                      /\ Started = {accepted[i] : i \in 1..dequeued}
                      /\ Len(ran) + Cardinality(Running) = dequeued
    BY DEF WorkExact
  <2>1. QueueTypes /\ RingHolds /\ RanOnce
    BY DEF WorkInv
  <2>2. Waiting \in Nat /\ Len(accepted) \in Nat /\ Waiting <= Len(accepted)
    BY <2>1, RingFacts, LenProperties DEF RingHolds, QueueTypes
  <2>3. /\ Queued \in [1..Waiting -> Int]
        /\ \A i \in 1..Waiting : Queued[i] = accepted[Dequeued + i]
    <3>1. \A i \in 1..Waiting :
            work_queue[(work_queue_head + i - 1) % MAX_WORK_ITEMS] \in Int
      BY <2>1, RingFacts DEF QueueTypes
    <3> QED  BY <2>1, <3>1 DEF Queued, Waiting, RingHolds
  <2>4. Queued \in Seq(Int) /\ Len(Queued) = Waiting
    BY <2>2, <2>3
  <2>5. Len(accepted) - Len(Queued) = Dequeued /\ Dequeued \in Nat
    BY <2>2, <2>4 DEF Dequeued
  <2> DEFINE tail == SubSeq(accepted, Dequeued + 1, Len(accepted))
  <2>6. /\ tail \in Seq(Int) /\ Len(tail) = Waiting
        /\ \A i \in 1..Waiting : tail[i] = accepted[Dequeued + i]
    <3> DEFINE a == Dequeued + 1
               b == Len(accepted)
    <3>1. /\ a \in Int /\ b \in Int /\ b - a + 1 = Waiting /\ (a <= b <=> Waiting > 0)
          /\ \A i \in 1..Waiting : a + i - 1 = Dequeued + i
      BY <2>2, <2>5 DEF Dequeued
    <3>2. \A i \in a..b : accepted[i] \in Int
      BY <2>1, <2>5, ElementOfSeq DEF QueueTypes
    <3> HIDE DEF a, b
    <3>3. /\ SubSeq(accepted, a, b) \in Seq(Int)
          /\ Len(SubSeq(accepted, a, b)) = IF a <= b THEN b - a + 1 ELSE 0
          /\ \A i \in 1..(b - a + 1) : SubSeq(accepted, a, b)[i] = accepted[a + i - 1]
      BY <3>1, <3>2, SubSeqProperties
    <3>4. Len(SubSeq(accepted, a, b)) = Waiting
      BY <2>2, <3>1, <3>3
    <3> QED  BY <3>1, <3>3, <3>4 DEF a, b
  <2> HIDE DEF tail
  <2>7. Queued = tail
    BY <2>3, <2>4, <2>6, SeqEqual
  <2> QED  BY <2>1, <2>5, <2>7 DEF RanOnce, tail
<1> QED  BY <1>1, <1>2, InitPcInv, StepPcInv, StepWorkInv, PTL DEF Spec
==============================================================================
