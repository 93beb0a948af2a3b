------------------------------ MODULE UacpiHost ------------------------------
(***************************************************************************)
(* What src/acpi/uacpi_kernel.c gives uACPI for synchronisation: spinlocks, *)
(* mutexes, events, the queue of deferred work and the installation of an   *)
(* interrupt handler, with the dispatch of src/interrupts/irq.c.            *)
(*                                                                          *)
(* One processor.  A thread runs until an interrupt it has not masked takes *)
(* it to another thread or to the installed handler, which runs with        *)
(* interrupts off to its end.  uACPI (external) makes the calls: it never   *)
(* takes a lock twice, releases spinlocks in the reverse order, and neither *)
(* waits nor drains the queue under a spinlock or in the handler.           *)
(* owners, signals, taken, posted, accepted, ran, workRaced and eventRaced  *)
(* are history, which is not kept on once workRaced.                        *)
(***************************************************************************)
EXTENDS Integers, Sequences, FiniteSets

CONSTANTS Threads, Irq,        \* kernel threads, and the interrupt handler
          Spinlocks,
          Uses,                \* sets of kinds of objects uACPI uses together
          Timeouts,            \* finite timeouts of waits
          Forever,             \* the timeout 0xFFFF
          TURNS,               \* turns of a waiting loop per unit of timeout, 1000
          MAX_WORK_ITEMS,
          MaxLocks,            \* bound on calls of lock_spinlock
          MaxPosted,           \* bound on calls of schedule_work
          MaxSignals           \* bound on calls of signal_event

ASSUME HostAssumption ==
  /\ Irq \notin Threads /\ Timeouts \subseteq Nat /\ Forever \notin Nat
  /\ \A u \in Uses : u \subseteq {"spinlock", "mutex", "event", "work"}
  /\ {TURNS, MAX_WORK_ITEMS, MaxLocks, MaxPosted, MaxSignals} \subseteq Nat \ {0}

VARIABLES uses,                \* what uACPI uses, of Uses
          intr,                \* the interrupt flag
          current,             \* the context on the processor
          interrupted,         \* the thread the handler has interrupted
          pc, left, next, item, draining,      \* locals of each context's call
          locked, held, locks, \* spinlocks; what each context holds, with the flags; calls
          mutex, owners,
          counter, signals, taken, eventRaced,
          work_queue, work_queue_head, work_queue_tail,
          posted, accepted, ran, workRaced,
          line                 \* the interrupt line

cpu == <<uses, intr, current, interrupted>>
locals == <<left, next, item, draining>>
spin == <<locked, held, locks>>
lock == <<mutex, owners>>
event == <<counter, signals, taken, eventRaced>>
queue == <<work_queue, work_queue_head, work_queue_tail, posted, accepted, ran, workRaced>>
vars == <<cpu, pc, locals, spin, lock, event, queue, line>>

Contexts == Threads \cup {Irq}
Goto(c, l) == pc' = [pc EXCEPT ![c] = l]
At(c, l) == current = c /\ pc[c] = l

Init ==
  /\ uses \in Uses
  /\ intr = TRUE /\ current \in Threads /\ interrupted = Irq
  /\ pc = [c \in Contexts |-> "idle"]
  /\ left = [c \in Contexts |-> 0] /\ next = left /\ item = left
  /\ draining = [t \in Threads |-> FALSE]
  /\ locked = [l \in Spinlocks |-> 0] /\ held = [c \in Contexts |-> <<>>] /\ locks = 0
  /\ mutex = 0 /\ owners = {}
  /\ counter = 0 /\ signals = 0 /\ taken = 0 /\ eventRaced = FALSE
  /\ work_queue = [i \in 0..(MAX_WORK_ITEMS - 1) |-> 0]
  /\ work_queue_head = 0 /\ work_queue_tail = 0
  /\ posted = 0 /\ accepted = <<>> /\ ran = <<>> /\ workRaced = FALSE
  /\ line = "masked"
-----------------------------------------------------------------------------
\* Interrupts.

\* The timer interrupt resumes thread t, which was left with interrupts on.
SwitchTo(t) ==
  /\ intr /\ current \in Threads \ {t}
  /\ current' = t
  /\ UNCHANGED <<uses, intr, interrupted, pc, locals, spin, lock, event, queue, line>>

\* irq_handler on the line: the handler runs if one is registered; an interrupt
\* before that is acknowledged and lost.  What it is called with (the interrupt
\* frame, in the place of uACPI's ctx) is left out, as is its uninstallation, which
\* leaves it registered.
irq_handler ==
  /\ intr /\ current \in Threads /\ line = "registered"
  /\ intr' = FALSE /\ current' = Irq /\ interrupted' = current
  /\ UNCHANGED <<uses, pc, locals, spin, lock, event, queue, line>>

\* The handler returns.
IrqReturn ==
  /\ At(Irq, "idle") /\ held[Irq] = <<>>
  /\ intr' = TRUE /\ current' = interrupted /\ interrupted' = Irq
  /\ UNCHANGED <<uses, pc, locals, spin, lock, event, queue, line>>

\* uacpi_kernel_install_interrupt_handler for a line below 16: the line is
\* unmasked before the handler is known.  Without memory it changes nothing.
install_interrupt_handler(t) ==
  /\ At(t, "idle") /\ line = "masked"
  /\ line' = "unmasked" /\ Goto(t, "register")
  /\ UNCHANGED <<cpu, locals, spin, lock, event, queue>>

irq_register_handler(t) ==
  /\ At(t, "register")
  /\ line' = "registered" /\ Goto(t, "idle")
  /\ UNCHANGED <<cpu, locals, spin, lock, event, queue>>
-----------------------------------------------------------------------------
\* Spinlocks.

\* The flags uacpi_kernel_disable_interrupts returns, and its cli.
disable_interrupts == intr' = FALSE

\* Mutant: the flags are ignored.
restore_interrupts_always(flags) == intr' = TRUE

restore_interrupts(flags) == intr' = (flags \/ intr)

\* uacpi_kernel_lock_spinlock.  Its loop goes on while the swap succeeds, so it
\* ends with the lock set whether it was free or not.
lock_spinlock(c, l) ==
  /\ At(c, "idle") /\ "spinlock" \in uses /\ locks < MaxLocks
  /\ \A i \in 1..Len(held[c]) : held[c][i].lock # l
  /\ disable_interrupts
  /\ locked' = [locked EXCEPT ![l] = 1]
  /\ held' = [held EXCEPT ![c] = Append(@, [lock |-> l, flags |-> intr])]
  /\ locks' = locks + 1
  /\ UNCHANGED <<uses, current, interrupted, pc, locals, lock, event, queue, line>>

unlock_spinlock(c, l) ==
  LET top == held[c][Len(held[c])] IN
  /\ At(c, "idle") /\ held[c] # <<>> /\ top.lock = l
  /\ locked' = [locked EXCEPT ![l] = 0]
  /\ restore_interrupts(top.flags)
  /\ held' = [held EXCEPT ![c] = SubSeq(@, 1, Len(@) - 1)]
  /\ UNCHANGED <<uses, locks, current, interrupted, pc, locals, lock, event, queue, line>>
-----------------------------------------------------------------------------
\* Mutexes.  A waiter may be preempted between two turns of its loop.

\* The swap of 0 for 1 that gives t the mutex.
Swap(t) == /\ mutex = 0
           /\ mutex' = 1 /\ owners' = owners \cup {t}

acquire_mutex(t, timeout) ==
  /\ At(t, "idle") /\ "mutex" \in uses /\ held[t] = <<>> /\ t \notin owners
  /\ IF timeout = 0
     THEN Swap(t) /\ UNCHANGED <<pc, left>>
     ELSE Goto(t, "acquire") /\ left' = [left EXCEPT ![t] = timeout * TURNS] /\ UNCHANGED lock
  /\ UNCHANGED <<cpu, next, item, draining, spin, event, queue, line>>

\* Mutant: a failed turn is not counted.
TurnUncounted(t) == left' = left

\* A turn of the waiting loops that found nothing.
Turn(t) == left' = [left EXCEPT ![t] = @ - 1]

AcquireTurn(t) ==
  /\ At(t, "acquire")
  /\ \/ left[t] > 0 /\ Swap(t) /\ Goto(t, "idle") /\ left' = [left EXCEPT ![t] = 0]
     \/ left[t] > 0 /\ mutex # 0 /\ Turn(t) /\ UNCHANGED <<pc, lock>>
     \/ left[t] = 0 /\ Goto(t, "idle") /\ UNCHANGED <<left, lock>>
  /\ UNCHANGED <<cpu, next, item, draining, spin, event, queue, line>>

release_mutex(t) ==
  /\ At(t, "idle") /\ t \in owners
  /\ mutex' = 0 /\ owners' = owners \ {t}
  /\ UNCHANGED <<cpu, pc, locals, spin, event, queue, line>>
-----------------------------------------------------------------------------
\* Events: a counter that is tested and then taken from, in two steps.

wait_for_event(t, timeout) ==
  /\ At(t, "idle") /\ "event" \in uses /\ held[t] = <<>>
  /\ Goto(t, "wait")
  /\ left' = [left EXCEPT ![t] = IF timeout = Forever THEN -1 ELSE timeout * TURNS]
  /\ UNCHANGED <<cpu, next, item, draining, spin, lock, event, queue, line>>

\* Mutant: an event without a signal passes for signalled.
SignalledAtZero == counter >= 0

Signalled == counter > 0

WaitTurn(t) ==
  /\ At(t, "wait")
  /\ \/ /\ left[t] # 0 /\ Signalled /\ Goto(t, "take")
        /\ eventRaced' = (eventRaced \/ \E u \in Threads \ {t} : pc[u] = "take")
        /\ left' = [left EXCEPT ![t] = 0]
     \/ left[t] > 0 /\ ~Signalled /\ Turn(t) /\ UNCHANGED <<pc, eventRaced>>
     \/ left[t] = 0 /\ Goto(t, "idle") /\ UNCHANGED <<left, eventRaced>>
  /\ UNCHANGED <<cpu, next, item, draining, spin, lock, counter, signals, taken, queue, line>>

EventTaken(t) ==
  /\ At(t, "take")
  /\ counter' = counter - 1 /\ taken' = taken + 1
  /\ Goto(t, "idle")
  /\ UNCHANGED <<cpu, locals, spin, lock, signals, eventRaced, queue, line>>

signal_event(c) ==
  /\ At(c, "idle") /\ "event" \in uses /\ signals < MaxSignals
  /\ counter' = counter + 1 /\ signals' = signals + 1
  /\ UNCHANGED <<cpu, pc, locals, spin, lock, taken, eventRaced, queue, line>>

reset_event(t) ==
  /\ At(t, "idle") /\ counter # 0
  /\ counter' = 0 /\ signals' = 0 /\ taken' = 0
  /\ eventRaced' = (eventRaced \/ \E u \in Threads : pc[u] = "take")
  /\ UNCHANGED <<cpu, pc, locals, spin, lock, queue, line>>
-----------------------------------------------------------------------------
\* Deferred work: a ring with one slot always empty.

After(i) == (i + 1) % MAX_WORK_ITEMS

\* Mutant: nothing tells a full ring from one with room.
FullNever == FALSE

Full == After(work_queue_tail) = work_queue_head

\* uacpi_kernel_schedule_work computes the next tail and looks for room; a full
\* queue refuses the work.
schedule_work(c) ==
  /\ At(c, "idle") /\ "work" \in uses /\ posted < MaxPosted
  /\ posted' = posted + 1
  /\ \/ Full /\ UNCHANGED <<pc, next, item, workRaced>>
     \/ /\ ~Full /\ Goto(c, "store")
        /\ next' = [next EXCEPT ![c] = After(work_queue_tail)]
        /\ item' = [item EXCEPT ![c] = posted + 1]
        /\ workRaced' = (workRaced \/ \E d \in Contexts \ {c} : pc[d] \in {"store", "publish"})
  /\ UNCHANGED <<cpu, left, draining, spin, lock, event, line, work_queue,
                 work_queue_head, work_queue_tail, accepted, ran>>

StoreWork(c) ==
  /\ At(c, "store")
  /\ work_queue' = [work_queue EXCEPT ![work_queue_tail] = item[c]]
  /\ Goto(c, "publish")
  /\ UNCHANGED <<cpu, locals, spin, lock, event, line, work_queue_head, work_queue_tail,
                 posted, accepted, ran, workRaced>>

PublishWork(c) ==
  /\ At(c, "publish")
  /\ work_queue_tail' = next[c]
  /\ accepted' = IF workRaced THEN accepted ELSE Append(accepted, item[c])
  /\ Goto(c, "idle")
  /\ next' = [next EXCEPT ![c] = 0] /\ item' = [item EXCEPT ![c] = 0]
  /\ UNCHANGED <<cpu, left, draining, spin, lock, event, line, work_queue, work_queue_head,
                 posted, ran, workRaced>>

wait_for_work_completion(t) ==
  /\ At(t, "idle") /\ "work" \in uses /\ held[t] = <<>> /\ ~draining[t]
  /\ draining' = [draining EXCEPT ![t] = TRUE]
  /\ UNCHANGED <<cpu, pc, left, next, item, spin, lock, event, queue, line>>

\* The condition of its loop, tested when the last handler has returned: a
\* handler may itself make any of the calls above.
DrainTest(t) ==
  /\ At(t, "idle") /\ draining[t] /\ held[t] = <<>>
  /\ \/ /\ work_queue_head = work_queue_tail
        /\ draining' = [draining EXCEPT ![t] = FALSE]
        /\ UNCHANGED <<pc, workRaced>>
     \/ /\ work_queue_head # work_queue_tail /\ Goto(t, "copy")
        /\ workRaced' = (workRaced \/ \E u \in Threads \ {t} : pc[u] \in {"copy", "advance"})
        /\ UNCHANGED draining
  /\ UNCHANGED <<cpu, left, next, item, spin, lock, event, line, work_queue,
                 work_queue_head, work_queue_tail, posted, accepted, ran>>

CopyWork(t) ==
  /\ At(t, "copy")
  /\ item' = [item EXCEPT ![t] = work_queue[work_queue_head]]
  /\ Goto(t, "advance")
  /\ UNCHANGED <<cpu, left, next, draining, spin, lock, event, queue, line>>

AdvanceHead(t) ==
  /\ At(t, "advance")
  /\ work_queue_head' = After(work_queue_head)
  /\ Goto(t, "run")
  /\ UNCHANGED <<cpu, locals, spin, lock, event, line, work_queue, work_queue_tail,
                 posted, accepted, ran, workRaced>>

RunWork(t) ==
  /\ At(t, "run")
  /\ ran' = (IF workRaced THEN ran ELSE Append(ran, item[t])) /\ item' = [item EXCEPT ![t] = 0]
  /\ Goto(t, "idle")
  /\ UNCHANGED <<cpu, left, next, draining, spin, lock, event, line, work_queue, work_queue_head,
                 work_queue_tail, posted, accepted, workRaced>>
-----------------------------------------------------------------------------
WorkStep(c) == StoreWork(c) \/ PublishWork(c)

\* A thread inside a call goes on with it.
ThreadStep(t) ==
  \/ AcquireTurn(t) \/ WaitTurn(t) \/ EventTaken(t) \/ irq_register_handler(t)
  \/ DrainTest(t) \/ CopyWork(t) \/ AdvanceHead(t) \/ RunWork(t) \/ WorkStep(t)

ThreadCall(t) ==
  \/ install_interrupt_handler(t) \/ release_mutex(t) \/ reset_event(t)
  \/ wait_for_work_completion(t)
  \/ \E timeout \in Timeouts : acquire_mutex(t, timeout)
  \/ \E timeout \in Timeouts \cup {Forever} : wait_for_event(t, timeout)

Unlock == \E c \in Contexts, l \in Spinlocks : unlock_spinlock(c, l)

Next ==
  \/ irq_handler \/ IrqReturn \/ WorkStep(Irq) \/ Unlock
  \/ \E t \in Threads : SwitchTo(t) \/ ThreadStep(t) \/ ThreadCall(t)
  \/ \E c \in Contexts :
       \/ signal_event(c) \/ schedule_work(c)
       \/ \E l \in Spinlocks : lock_spinlock(c, l)

Spec == Init /\ [][Next]_vars

\* A spinlock is released and the handler goes on and returns; the scheduler
\* gives every thread the processor again and again, for long enough to make a
\* step of the call it is in.
FairSpec ==
  /\ Spec
  /\ WF_vars(Unlock) /\ WF_vars(WorkStep(Irq)) /\ WF_vars(IrqReturn)
  /\ \A t \in Threads : SF_vars(SwitchTo(t)) /\ SF_vars(ThreadStep(t))
-----------------------------------------------------------------------------
Holders(l) == {c \in Contexts : \E i \in 1..Len(held[c]) : held[c][i].lock = l}

\* Two contexts never hold the same spinlock, although the loop of
\* uacpi_kernel_lock_spinlock lets a second one in: interrupts stay off from
\* the outermost lock to its unlock, nested locks included.  Nor do two threads
\* hold the mutex.
Exclusion ==
  /\ \A l \in Spinlocks : Cardinality(Holders(l)) <= 1
  /\ Cardinality(owners) <= 1

Queued ==
  [i \in 1..((work_queue_tail - work_queue_head) % MAX_WORK_ITEMS) |->
     work_queue[(work_queue_head + i - 1) % MAX_WORK_ITEMS]]
Running == {t \in Threads : pc[t] = "run"}
Started == {ran[i] : i \in 1..Len(ran)} \cup {item[t] : t \in Running}

\* No deferred work is lost, run twice or reordered: the ring holds the last
\* accepted items in their order, and every earlier one has been run once or is
\* about to be, while interrupts post into a full or wrapping ring that is being
\* drained.  It is so until two posts overlap, or two threads take an item at once.
WorkExact ==
  LET dequeued == Len(accepted) - Len(Queued) IN
  ~workRaced =>
    /\ Queued = SubSeq(accepted, dequeued + 1, Len(accepted))
    /\ Started = {accepted[i] : i \in 1..dequeued}
    /\ Len(ran) + Cardinality(Running) = dequeued

\* Every wait of an event that succeeds has its own signal since the last reset,
\* until two waits overlap between their test and their decrement, or a reset
\* falls between them.
EventExact ==
  ~eventRaced => /\ counter = signals - taken
                 /\ taken + Cardinality({t \in Threads : pc[t] = "take"}) <= signals

\* A wait with a timeout and a draining of the queue end: the timeout is counted
\* in turns of a loop that a preempted thread goes on with.
WaitsEnd ==
  \A t \in Threads :
    /\ (pc[t] = "acquire" \/ (pc[t] = "wait" /\ left[t] >= 0)) ~> (pc[t] = "idle")
    /\ draining[t] ~> (~draining[t] \/ workRaced)
-----------------------------------------------------------------------------
\* The inductive invariant.

Labels == {"idle", "register", "acquire", "wait", "take", "store", "publish", "copy",
           "advance", "run"}
PcInv == pc \in [Contexts -> Labels]

\* Only the context on the processor can hold a spinlock, and then interrupts are
\* off; the flags saved by a nested lock, or in the handler, say so.
SpinInv ==
  /\ intr \in BOOLEAN /\ current \in Contexts
  /\ current = Irq => ~intr /\ interrupted \in Threads
  /\ held \in [Contexts -> Seq([lock : Spinlocks, flags : BOOLEAN])]
  /\ \A c \in Contexts : c # current \/ intr => held[c] = <<>>
  /\ \A c \in Contexts : \A i \in 1..Len(held[c]) : held[c][i].flags => i = 1 /\ c # Irq

MutexInv == \/ mutex = 0 /\ owners = {}
            \/ mutex = 1 /\ \E t \in Threads : owners = {t}

Takers == {t \in Threads : pc[t] = "take"}

\* A waiter that has seen the counter above zero is the only one.
EventInv ==
  /\ eventRaced \in BOOLEAN /\ {counter, signals, taken} \subseteq Int
  /\ ~eventRaced => /\ counter = signals - taken /\ counter >= 0
                    /\ Takers = {} \/ (counter >= 1 /\ \E t \in Threads : Takers = {t})

Posting == {c \in Contexts : pc[c] \in {"store", "publish"}}
Taking == {t \in Threads : pc[t] \in {"copy", "advance"}}
Waiting == (work_queue_tail - work_queue_head) % MAX_WORK_ITEMS
Dequeued == Len(accepted) - Waiting

QueueTypes ==
  /\ work_queue_head \in 0..(MAX_WORK_ITEMS - 1) /\ work_queue_tail \in 0..(MAX_WORK_ITEMS - 1)
  /\ work_queue \in [0..(MAX_WORK_ITEMS - 1) -> Int]
  /\ item \in [Contexts -> Int] /\ next \in [Contexts -> Int] /\ posted \in Int
  /\ accepted \in Seq(Int) /\ ran \in Seq(Int)

\* A call of schedule_work finds the slot it looked at still free.
PostSound ==
  /\ \A c, d \in Posting : c = d
  /\ \A c \in Posting : /\ next[c] = After(work_queue_tail) /\ ~Full
                        /\ pc[c] = "publish" => work_queue[work_queue_tail] = item[c]

\* A thread that found the queue not empty still finds it so.
TakeSound ==
  /\ \A t, u \in Taking : t = u
  /\ \A t \in Taking : /\ work_queue_head # work_queue_tail
                       /\ pc[t] = "advance" => item[t] = work_queue[work_queue_head]

RingHolds ==
  /\ Waiting <= Len(accepted)
  /\ \A i \in 1..Waiting :
       work_queue[(work_queue_head + i - 1) % MAX_WORK_ITEMS] = accepted[Dequeued + i]

RanOnce == /\ IsFiniteSet(Running)
           /\ Started = {accepted[i] : i \in 1..Dequeued}
           /\ Len(ran) + Cardinality(Running) = Dequeued

WorkInv == /\ workRaced \in BOOLEAN
           /\ ~workRaced => QueueTypes /\ PostSound /\ TakeSound /\ RingHolds /\ RanOnce

IInv == PcInv /\ SpinInv /\ MutexInv /\ EventInv /\ WorkInv
==============================================================================
