---------------------------- MODULE ClocksProofs ----------------------------
(***************************************************************************)
(* Proofs about Clocks, for every set of machines, word size, unit of time *)
(* and length of the waits.                                                *)
(***************************************************************************)
EXTENDS Clocks, WellFoundedInduction, TLAPS

-----------------------------------------------------------------------------
\* The invariant.

Basics ==
  /\ machine \in Machines
  /\ time \in Nat /\ time <= MaxTime
  /\ gap \in Nat /\ gap <= PollGap
  /\ hpetZero \in Nat /\ hpetZero <= time
  /\ start_tsc \in Nat
  /\ tsc_base \in Nat /\ tsc_base <= Count(machine.tsc, time)

\* What the calibration makes sure of: see LongEnough.
Calibrated(freq) ==
  freq * CalFreq > (machine.tsc * CalFreq - 20 * machine.tsc) - 10 * CalFreq

\* A source that can be read and waited on.
IsClock(c) ==
  /\ c.freq \in Nat \ {0}
  /\ \/ c.id = CLOCK_HPET /\ machine.hpet > 0 /\ c.freq = FS \div machine.hpet
     \/ c.id = CLOCK_PM_TIMER /\ machine.pm # Absent /\ c.freq = PM_TIMER_FREQ
     \/ c.id = CLOCK_TSC /\ machine.hasTsc /\ Calibrated(c.freq)

Source == [id : 0..3, now : BOOLEAN, real : BOOLEAN, freq : Nat]

\* The list and the set of ids agree, and every source with a counter is a clock.
ListSound ==
  /\ clock_list \in Seq(Source)
  /\ \A i \in 1..Len(clock_list) :
       /\ clock_list[i].id \in available_clocks
       /\ clock_list[i].id # CLOCK_RTC => IsClock(clock_list[i])
  /\ \A id \in available_clocks : \E i \in 1..Len(clock_list) : clock_list[i].id = id

Waiting == pc \in {"start", "poll"}

\* The TSC is not registered yet.
Early == \/ pc \in {"hpet", "pm_timer", "tsc", "calibrated"}
         \/ Waiting /\ sleep.then = "calibrated"

\* setup_boot_clock has run.
Booted == \/ pc \in {"lapic", "measured", "run", "crash"}
          \/ Waiting /\ sleep.then # "calibrated"

\* Which sources are there at which step of clocks_init.
Staged ==
  /\ pc \in {"hpet", "pm_timer", "tsc", "start", "poll", "calibrated", "rtc", "boot", "lapic",
             "measured", "run", "panic", "crash"}
  /\ (pc # "hpet" /\ machine.hpet > 0) => CLOCK_HPET \in available_clocks
  /\ pc \notin {"hpet", "pm_timer", "panic"} =>
       CLOCK_HPET \in available_clocks \/ CLOCK_PM_TIMER \in available_clocks
  /\ Early => available_clocks \subseteq {CLOCK_HPET, CLOCK_PM_TIMER}
  /\ pc \in {"boot", "lapic"} => gap = 0

\* A busy sleep: what it waits for, on which clock, on whose behalf.
SleepSound ==
  Waiting =>
    /\ sleep = [clock |-> sleep.clock, ticks |-> sleep.ticks, start |-> sleep.start,
                then |-> sleep.then, asked |-> sleep.asked, began |-> sleep.began]
    /\ IsClock(sleep.clock)
    /\ sleep.asked \in Nat /\ sleep.start \in Nat
    /\ sleep.ticks = ((sleep.asked * sleep.clock.freq) % Word) \div NS
    /\ sleep.began \in Nat /\ sleep.began <= time
    /\ sleep.then \in {"calibrated", "measured", "run"}
    /\ sleep.then = "calibrated" =>
         /\ sleep.asked = NS \div 10 /\ sleep.clock.id # CLOCK_TSC
         /\ sleep.clock.freq = CalFreq /\ machine.hasTsc
         /\ start_tsc = Count(machine.tsc, sleep.began) % Word
    /\ sleep.then = "measured" =>
         /\ sleep.asked = LapicNs /\ sleep.clock.id = CLOCK_HPET
         /\ lapic.started = sleep.began
         /\ pc = "start" => time - sleep.began <= gap

\* The sum that pm_timer_read keeps is the true count until a period is missed.
PmSound ==
  /\ missed \in BOOLEAN
  /\ accumulated \in Nat /\ accumulated < Word
  /\ last \in Nat
  /\ pmTrue \in Nat /\ pmTrue <= Count(PM_TIMER_FREQ, time)
  /\ machine.pm # Absent => last = pmTrue % machine.pm
  /\ ~missed => accumulated = pmTrue

\* What has been counted since the clock was read first, at ts.
Seen(ts) ==
  \/ /\ sleep.clock.id = CLOCK_PM_TIMER
     /\ Count(PM_TIMER_FREQ, ts) <= pmTrue
     /\ (accumulated - sleep.start) % Word <= pmTrue - Count(PM_TIMER_FREQ, ts)
  \/ sleep.clock.id = CLOCK_HPET /\ sleep.start = TicksAt(CLOCK_HPET, ts) % Word
  \/ sleep.clock.id = CLOCK_TSC /\ sleep.start = (Count(machine.tsc, ts) - tsc_base) % Word

\* The loop saw too few ticks when it last came round, at tp.
NotOver(ts, tp) ==
  /\ time - tp <= gap
  /\ tp = ts \/ TicksAt(CLOCK_HPET, tp) - TicksAt(CLOCK_HPET, ts) < sleep.ticks

PollSound ==
  pc = "poll" =>
    \E ts \in sleep.began..time :
      /\ hpetZero <= ts
      /\ Seen(ts)
      /\ sleep.then = "measured" =>
           ts - sleep.began <= PollGap /\ \E tp \in ts..time : NotOver(ts, tp)

LapicSound ==
  /\ lapic = [started |-> lapic.started, count |-> lapic.count]
  /\ lapic.started \in Nat /\ lapic.count \in Nat

\* What a finished measurement knows.
MeasureSound ==
  /\ pc = "calibrated" =>
       /\ machine.hasTsc
       /\ \E t1 \in 0..time :
            /\ start_tsc = Count(machine.tsc, t1) % Word
            /\ 10 * ((time - t1) * CalFreq) > FS * (CalFreq - 20)
  /\ pc = "measured" =>
       LET hf == FS \div machine.hpet
           passed == time - lapic.started
       IN /\ passed \in Nat /\ machine.hpet > 0
          /\ passed * hf * NS > FS * (LapicNs * hf - 2 * NS)
          /\ (passed - gap) * NS <= LapicNs * FS + 2 * PollGap * NS
  /\ TickPeriod

\* The count at boot of the clock that ns_since_boot reads, and its nanoseconds.
Origin(id) == IF id = CLOCK_TSC THEN tsc_base ELSE 0
BootSound ==
  /\ Booted => boot # NULL
  /\ boot # NULL =>
       /\ ~Early /\ pc \notin {"rtc", "boot"}
       /\ IsClock(boot)
       /\ boot.ticksAtBoot \in Nat /\ boot.ticksAtBoot <= TrueTicks(boot.id)
       /\ Origin(boot.id) <= boot.ticksAtBoot
       /\ boot.base \in Nat
       /\ (boot.id = CLOCK_PM_TIMER => ~missed) =>
            boot.base = (((boot.ticksAtBoot - Origin(boot.id)) * NS) % Word) \div boot.freq

\* The counter of c was read at the present time.
Fresh(c) == c.id = CLOCK_PM_TIMER =>
              last = pm_timer_read_raw /\ pmTrue = Count(PM_TIMER_FREQ, time)

\* A reply is what the same call would return now.
ReplySound ==
  /\ reply.kind # "none" => pc \in {"run", "crash"}
  /\ reply.kind = "elapsed" => reply.ns = ns_since_boot /\ Fresh(boot)
  /\ reply.kind = "monotonic" => reply.ns = CLOCK_NS(get_best_clock)

RtcSound ==
  pc = "boot" \/ Booted => base_rtc = rtc_to_timespec(machine.date, machine.format)

-----------------------------------------------------------------------------
\* Arithmetic of counters.

LEMMA Least ==
  ASSUME NEW S \in SUBSET Nat, S # {}
  PROVE  \E m \in S : \A k \in S : m <= k
<1> DEFINE R == OpToRel(<, Nat)
<1>1. R = {ss \in Nat \X Nat : ss[1] < ss[2]} /\ IsWellFoundedOn(R, Nat)
  BY NatLessThanWellFounded DEF OpToRel
<1> HIDE DEF R
<1>2. PICK m \in S : \A k \in S : ~(<<k, m>> \in R)
  BY <1>1, WFMin
<1>3. \A k \in S : ~(k < m)
  BY <1>1, <1>2
<1> QED  BY <1>2, <1>3

LEMMA Division ==
  ASSUME NEW a \in Int, NEW b \in Nat \ {0}
  PROVE  /\ a \div b \in Int /\ a % b \in Nat /\ a % b < b
         /\ a = (b * (a \div b)) + (a % b)
         /\ a \in Nat => a \div b \in Nat
BY SMT

LEMMA DivisionUnique ==
  ASSUME NEW a \in Int, NEW b \in Nat \ {0}, NEW q \in Int, NEW r \in Nat,
         r < b, a = (b * q) + r
  PROVE  a \div b = q /\ a % b = r
BY SMT

LEMMA Scale ==
  ASSUME NEW a \in Int, NEW b \in Int, NEW k \in Nat
  PROVE  /\ a <= b => a * k <= b * k
         /\ (a < b /\ k > 0) => a * k < b * k
         /\ (a * k < b * k) => a < b
BY SMT

LEMMA Distribute ==
  ASSUME NEW a \in Int, NEW b \in Int, NEW k \in Int
  PROVE  /\ k * (a + b) = (k * a) + (k * b)
         /\ k * (a - b) = (k * a) - (k * b)
         /\ k * a \in Int /\ k * b \in Int
BY SMT

LEMMA ModSmall ==
  ASSUME NEW a \in Nat, NEW w \in Nat \ {0}, a < w
  PROVE  a % w = a
BY SMT

LEMMA ModLe ==
  ASSUME NEW a \in Nat, NEW w \in Nat \ {0}
  PROVE  a % w \in Nat /\ a % w <= a /\ a % w < w
<1>1. a \div w \in Nat /\ w * (a \div w) >= 0 /\ a % w \in Nat /\ a % w < w
      /\ a = (w * (a \div w)) + (a % w)
  BY Division
<1> QED  BY <1>1

\* A difference taken modulo w is that of the counters themselves.
LEMMA ModSub ==
  ASSUME NEW a \in Int, NEW b \in Int, NEW w \in Nat \ {0}
  PROVE  ((a % w) - (b % w)) % w = (a - b) % w
<1> DEFINE p == a \div w
           q == b \div w
           d == (a % w) - (b % w)
           e == d \div w
<1>1. /\ p \in Int /\ q \in Int /\ a % w \in Nat /\ b % w \in Nat
      /\ a = (w * p) + (a % w) /\ b = (w * q) + (b % w)
  BY Division
<1>2. d \in Int
  BY <1>1
<1>3. e \in Int /\ d % w \in Nat /\ d % w < w /\ d = (w * e) + (d % w)
  <2> HIDE DEF d
  <2> QED  BY <1>2, Division DEF e
<1> HIDE DEF p, q, e
<1>4. w * (p - q) = (w * p) - (w * q) /\ p - q \in Int /\ w * p \in Int /\ w * q \in Int
  BY <1>1, Distribute
<1>5. a - b = (w * ((p - q) + e)) + (d % w) /\ (p - q) + e \in Int
  <2> DEFINE s == p - q
  <2>1. s \in Int /\ w * s = (w * p) - (w * q)
    BY <1>4
  <2> HIDE DEF s
  <2>2. w * (s + e) = (w * s) + (w * e) /\ w * e \in Int
    BY <1>3, <2>1, Distribute
  <2>3. a - b = (w * s) + d
    <3> DEFINE wp == w * p
               wq == w * q
               r == a % w
               t == b % w
    <3>1. /\ wp \in Int /\ wq \in Int /\ r \in Int /\ t \in Int
          /\ a = wp + r /\ b = wq + t /\ w * s = wp - wq /\ d = r - t
      BY <1>1, <1>4, <2>1
    <3> HIDE DEF wp, wq, r, t, d
    <3> QED  BY <3>1
  <2>4. a - b = (w * (s + e)) + (d % w) /\ s + e \in Int
    <3> HIDE DEF d
    <3> QED  BY <1>2, <1>3, <2>1, <2>2, <2>3
  <2> QED  BY <2>4 DEF s
<1>6. (a - b) % w = d % w
  <2> HIDE DEF d
  <2> QED  BY <1>3, <1>5, DivisionUnique
<1> QED  BY <1>6 DEF d

LEMMA ModSubRight ==
  ASSUME NEW a \in Int, NEW b \in Int, NEW w \in Nat \ {0}
  PROVE  (a - (b % w)) % w = (a - b) % w /\ ((a % w) - b) % w = (a - b) % w
<1>1. b % w \in Int /\ a % w \in Int /\ a % w \in Nat /\ b % w \in Nat /\ a % w < w /\ b % w < w
  BY Division
<1>2. (b % w) % w = b % w /\ (a % w) % w = a % w
  BY <1>1, ModSmall
<1>3. /\ ((a % w) - ((b % w) % w)) % w = (a - (b % w)) % w
      /\ (((a % w) % w) - (b % w)) % w = ((a % w) - b) % w
  BY <1>1, ModSub
<1>4. ((a % w) - (b % w)) % w = (a - b) % w
  BY ModSub
<1> QED  BY <1>2, <1>3, <1>4

-----------------------------------------------------------------------------
\* The counters of the machine.

LEMMA Units ==
  /\ FS \in Nat \ {0} /\ NS \in Nat \ {0} /\ Word \in Nat \ {0} /\ Word32 \in Nat \ {0}
  /\ PM_TIMER_FREQ \in Nat \ {0} /\ PollGap \in Nat \ {0} /\ MaxTime \in Nat \ {0}
  /\ PollGap <= MaxTime /\ LapicNs \in Nat
BY UnitAssumption

LEMMA TheMachine ==
  ASSUME machine \in Machines
  PROVE  /\ machine.hpet \in Int /\ machine.tsc \in Nat /\ machine.lapic \in Nat
         /\ machine.pm # Absent => machine.pm \in Nat \ {0} /\ Word32 % machine.pm = 0
         /\ machine.hpet > 0 =>
              /\ machine.hpet \in Nat \ {0} /\ FS \div machine.hpet \in Nat \ {0}
              /\ FS = machine.hpet * (FS \div machine.hpet)
         /\ CalFreq \in Nat \ {0}
<1>1. /\ machine.hpet \in Int /\ machine.tsc \in Nat /\ machine.lapic \in Nat
      /\ machine.pm # Absent => machine.pm \in Nat \ {0} /\ Word32 % machine.pm = 0
      /\ machine.hpet > 0 => machine.hpet \in Nat \ {0} /\ FS % machine.hpet = 0
  BY MachineAssumption, UnitAssumption DEF Absent
<1>2. ASSUME machine.hpet > 0
      PROVE  /\ FS \div machine.hpet \in Nat \ {0}
             /\ FS = machine.hpet * (FS \div machine.hpet)
  <2> DEFINE h == machine.hpet
             q == FS \div h
  <2>1. h \in Nat \ {0} /\ FS \in Nat \ {0} /\ FS % h = 0
    BY <1>1, <1>2, Units
  <2> HIDE DEF h
  <2>2. q \in Nat /\ FS = (h * q) + (FS % h)
    BY <2>1, Division
  <2>3. FS = h * q
    BY <2>1, <2>2
  <2>4. q # 0
    BY <2>1, <2>2, <2>3
  <2> QED  BY <2>2, <2>3, <2>4 DEF h
<1>3. CalFreq \in Nat \ {0}
  BY <1>2, Units DEF CalFreq, CalibrationRate
<1> QED  BY <1>1, <1>2, <1>3

LEMMA Counting ==
  ASSUME NEW f \in Nat, NEW t \in Nat
  PROVE  /\ Count(f, t) \in Nat
         /\ FS * Count(f, t) <= t * f
         /\ t * f < FS * (Count(f, t) + 1)
<1>1. FS \in Nat \ {0} /\ t * f \in Nat
  BY Units
<1>2. /\ Count(f, t) \in Nat /\ (t * f) % FS \in Nat /\ (t * f) % FS < FS
      /\ t * f = (FS * Count(f, t)) + ((t * f) % FS)
  <2> DEFINE a == t * f
  <2>1. a \in Nat
    BY <1>1
  <2> HIDE DEF a
  <2>2. a \div FS \in Nat /\ a % FS \in Nat /\ a % FS < FS /\ a = (FS * (a \div FS)) + (a % FS)
    BY <1>1, <2>1, Division
  <2> QED  BY <2>2 DEF a, Count
<1> DEFINE c == Count(f, t)
           a == t * f
           m == (t * f) % FS
<1>3. FS * (c + 1) = (FS * c) + (FS * 1) /\ FS * c \in Int
  BY <1>1, <1>2, Distribute
<1>4. c \in Nat /\ a \in Nat /\ m \in Nat /\ m < FS /\ a = (FS * c) + m
  BY <1>1, <1>2
<1> HIDE DEF c, a, m
<1>5. FS * c <= a /\ a < FS * (c + 1)
  BY <1>1, <1>3, <1>4
<1> QED  BY <1>2, <1>5 DEF c, a

\* Two readings and the time between them.
LEMMA CountingOn ==
  ASSUME NEW f \in Nat, NEW s \in Nat, NEW t \in Nat, s <= t
  PROVE  LET d == Count(f, t) - Count(f, s) IN
         /\ d \in Nat
         /\ (t - s) * f > FS * (d - 1)
         /\ (t - s) * f < FS * (d + 1)
<1> DEFINE a == Count(f, t)
           b == Count(f, s)
           x == t * f
           y == s * f
<1>0. a \in Nat /\ b \in Nat
  BY Counting
<1>1. FS \in Nat \ {0} /\ a \in Nat /\ b \in Nat /\ x \in Nat /\ y \in Nat
  BY <1>0, Units
<1>2. FS * a <= x /\ x < FS * (a + 1) /\ FS * b <= y /\ y < FS * (b + 1)
  BY Counting
<1>3. y <= x
  BY Scale
<1>4. (t - s) * f = x - y
  BY SMT
<1> HIDE DEF a, b, x, y
<1>5. /\ FS * (a + 1) = (FS * a) + FS /\ FS * (b + 1) = (FS * b) + FS
      /\ FS * a \in Int /\ FS * b \in Int
  BY <1>1, Distribute
<1>6. b < a + 1
  <2>1. FS * b < FS * (a + 1)
    BY <1>1, <1>2, <1>3, <1>5
  <2>2. b * FS < (a + 1) * FS
    BY <1>1, <2>1
  <2> QED  BY <1>1, <2>2, Scale
<1>7. a - b \in Nat
  BY <1>1, <1>6
<1>8. /\ FS * ((a - b) - 1) = (FS * (a - b)) - FS /\ FS * ((a - b) + 1) = (FS * (a - b)) + FS
      /\ FS * (a - b) = (FS * a) - (FS * b)
  BY <1>1, <1>7, Distribute
<1>9. x - y > FS * ((a - b) - 1) /\ x - y < FS * ((a - b) + 1)
  BY <1>1, <1>2, <1>5, <1>8
<1> QED  BY <1>4, <1>7, <1>9 DEF a, b

-----------------------------------------------------------------------------
\* What each step may change.

\* No step changes the machine, and few the time, the resets and the list.
Framed ==
  /\ machine' = machine
  /\ (time' = time \/ Tick)
  /\ hpetZero' = hpetZero \/ HpetInit
  /\ start_tsc' = start_tsc \/ TscInit \/ TscDone
  /\ tsc_base' = tsc_base \/ TscDone
  /\ UNCHANGED <<clock_list, available_clocks>>
       \/ HpetInit \/ PmTimerInit \/ TscDone \/ RtcInit

LEMMA Frame ==
  ASSUME [Next]_vars
  PROVE  Framed
<1>1. CASE UNCHANGED vars
  BY <1>1 DEF vars, counters, Framed
<1>2. CASE HpetInit
  BY <1>2 DEF HpetInit, Framed
<1>3. CASE PmTimerInit
  BY <1>3 DEF PmTimerInit, counters, Framed
<1>4. CASE TscInit
  BY <1>4 DEF TscInit, Framed
<1>5. CASE TscDone
  BY <1>5 DEF TscDone, Framed
<1>6. CASE RtcInit
  BY <1>6 DEF RtcInit, counters, Framed
<1>7. CASE SetupBootClock
  BY <1>7 DEF SetupBootClock, ReadEffect, counters, Framed
<1>8. CASE LapicStart
  BY <1>8 DEF LapicStart, counters, Framed
<1>9. CASE LapicProgram
  BY <1>9 DEF LapicProgram, counters, Framed
<1>10. CASE SleepStart
  BY <1>10 DEF SleepStart, ReadEffect, Framed
<1>11. CASE SleepPoll
  BY <1>11 DEF SleepPoll, ReadEffect, Framed
<1>12. CASE Tick
  BY <1>12 DEF Tick, counters, Framed
<1>13. CASE KmainAbandoned
  BY <1>13 DEF KmainAbandoned, counters, Framed
<1>14. CASE ReadElapsed
  BY <1>14 DEF ReadElapsed, ReadEffect, Framed
<1>15. CASE GettimeRealtime
  BY <1>15 DEF GettimeRealtime, counters, Framed
<1>16. CASE \E s \in Seconds : GettimeMonotonic(s)
  BY <1>16 DEF GettimeMonotonic, ReadEffect, Framed
<1>17. CASE \E s \in Sleeps : do_sys_nanosleep(s)
  BY <1>17 DEF do_sys_nanosleep, counters, Framed
<1> QED  BY <1>1, <1>2, <1>3, <1>4, <1>5, <1>6, <1>7, <1>8, <1>9, <1>10, <1>11, <1>12, <1>13,
            <1>14, <1>15, <1>16, <1>17 DEF Next, KernelStep

LEMMA RdtscFacts ==
  ASSUME Basics
  PROVE  Rdtsc \in Nat /\ Rdtsc < Word /\ Rdtsc <= Count(machine.tsc, time)
<1>1. Count(machine.tsc, time) \in Nat
  BY TheMachine, Counting DEF Basics
<1> QED  BY <1>1, Units, ModLe DEF Rdtsc

LEMMA InitBasics == Init => Basics
<1> SUFFICES ASSUME Init PROVE Basics
  OBVIOUS
<1>1. time \in Nat /\ machine.tsc \in Nat
  BY Units, TheMachine DEF Init
<1>2. Count(machine.tsc, time) \in Nat
  BY <1>1, Counting
<1> QED  BY <1>1, <1>2, Units DEF Init, Basics

LEMMA GapStep ==
  ASSUME Basics, [Next]_vars
  PROVE  gap' \in Nat /\ gap' <= PollGap
<1> USE Units DEF Basics
<1>1. gap' = gap \/ gap' = 0 \/ Tick
  BY DEF Next, KernelStep, vars, HpetInit, PmTimerInit, TscInit, TscDone, RtcInit,
     SetupBootClock, LapicStart, LapicProgram, SleepStart, SleepPoll, KmainAbandoned,
     ReadElapsed, GettimeRealtime, GettimeMonotonic, do_sys_nanosleep
<1>2. CASE Tick
  BY <1>2 DEF Tick
<1> QED  BY <1>1, <1>2

LEMMA StepBasics == Basics /\ [Next]_vars => Basics'
<1> SUFFICES ASSUME Basics, [Next]_vars PROVE Basics'
  OBVIOUS
<1>1. Framed
  BY Frame
<1>2. machine' = machine /\ machine \in Machines
  BY <1>1 DEF Framed, Basics
<1>3. machine.tsc \in Nat
  BY <1>2, TheMachine
<1>4. /\ time' \in Nat /\ time' <= MaxTime /\ time <= time'
      /\ hpetZero' \in Nat /\ hpetZero' <= time'
  BY <1>1, Units DEF Framed, Basics, Tick, HpetInit, counters
<1>5. start_tsc' \in Nat
  <2>1. CASE TscInit
    BY <2>1, RdtscFacts DEF TscInit, Basics
  <2>2. CASE TscDone
    BY <2>2 DEF TscDone
  <2> QED  BY <1>1, <2>1, <2>2 DEF Framed, Basics
<1>6. tsc_base' \in Nat /\ tsc_base' <= Count(machine.tsc, time')
  <2>1. /\ Count(machine.tsc, time) \in Nat /\ Count(machine.tsc, time') \in Nat
        /\ Count(machine.tsc, time') - Count(machine.tsc, time) \in Nat
    BY <1>3, <1>4, Counting, CountingOn DEF Basics
  <2>2. tsc_base' \in Nat /\ tsc_base' <= Count(machine.tsc, time)
    <3>1. CASE TscDone
      BY <3>1, RdtscFacts DEF TscDone
    <3> QED  BY <1>1, <3>1 DEF Framed, Basics
  <2> QED  BY <2>1, <2>2
<1>7. Count(machine.tsc, time)' = Count(machine.tsc, time')
  BY <1>2 DEF Count
<1> QED  BY <1>2, <1>4, <1>5, <1>6, <1>7, GapStep DEF Basics

-----------------------------------------------------------------------------
\* The list of sources.

LEMMA GetClock ==
  ASSUME ListSound, NEW id, id # CLOCK_RTC
  PROVE  /\ id \in available_clocks =>
              /\ IsClock(get_clock(id)) /\ get_clock(id).id = id
              /\ \E i \in 1..Len(clock_list) : get_clock(id) = clock_list[i]
         /\ id \notin available_clocks => get_clock(id) = NULL
<1> DEFINE Found == {i \in 1..Len(clock_list) : clock_list[i].id = id}
<1>1. id \notin available_clocks => get_clock(id) = NULL
  BY DEF get_clock
<1>2. ASSUME id \in available_clocks
      PROVE  /\ IsClock(get_clock(id)) /\ get_clock(id).id = id
             /\ \E i \in 1..Len(clock_list) : get_clock(id) = clock_list[i]
  <2>1. Found # {} /\ Found \in SUBSET Nat
    BY <1>2 DEF ListSound
  <2>2. Min(Found) \in Found
    <3> HIDE DEF Found
    <3>1. PICK m \in Found : \A k \in Found : m <= k
      BY <2>1, Least
    <3> QED  BY <3>1 DEF Min
  <2>3. get_clock(id) = clock_list[Min(Found)]
    BY <1>2, <2>1 DEF get_clock
  <2>4. PICK i \in 1..Len(clock_list) : i = Min(Found) /\ clock_list[i].id = id
    BY <2>2
  <2>5. get_clock(id) = clock_list[i]
    BY <2>3, <2>4
  <2>6. clock_list[i].id # CLOCK_RTC => IsClock(clock_list[i])
    BY <2>4 DEF ListSound
  <2> QED  BY <2>4, <2>5, <2>6
<1> QED  BY <1>1, <1>2

LEMMA ClockIds ==
  ASSUME NEW c, IsClock(c)
  PROVE  /\ c # NULL /\ c.id \in {CLOCK_TSC, CLOCK_HPET, CLOCK_PM_TIMER}
         /\ c.freq \in Nat \ {0}
         /\ c.id = CLOCK_HPET => machine.hpet > 0 /\ c.freq = FS \div machine.hpet
         /\ c.id = CLOCK_PM_TIMER => machine.pm # Absent /\ c.freq = PM_TIMER_FREQ
         /\ c.id = CLOCK_TSC => machine.hasTsc /\ Calibrated(c.freq)
<1>1. c.id \in {CLOCK_TSC, CLOCK_HPET, CLOCK_PM_TIMER}
  BY DEF IsClock
<1>2. c # NULL
  <2> SUFFICES ASSUME c = NULL PROVE FALSE
    OBVIOUS
  <2>1. c.id = -1
    BY DEF NULL, Absent
  <2> QED  BY <1>1, <2>1 DEF CLOCK_TSC, CLOCK_HPET, CLOCK_PM_TIMER
<1> QED  BY <1>1, <1>2 DEF IsClock, CLOCK_TSC, CLOCK_HPET, CLOCK_PM_TIMER

LEMMA BestClock ==
  ASSUME ListSound, CLOCK_HPET \in available_clocks \/ CLOCK_PM_TIMER \in available_clocks
  PROVE  /\ IsClock(get_best_clock) /\ get_best_clock # NULL
         /\ get_best_clock.id \in available_clocks
         /\ get_best_clock.id = CLOCK_PM_TIMER => CLOCK_HPET \notin available_clocks
<1> USE DEF CLOCK_TSC, CLOCK_HPET, CLOCK_PM_TIMER, CLOCK_RTC
<1>1. CASE CLOCK_TSC \in available_clocks
  <2>1. get_best_clock = get_clock(CLOCK_TSC)
    BY <1>1 DEF get_best_clock
  <2>2. IsClock(get_clock(CLOCK_TSC)) /\ get_clock(CLOCK_TSC).id = CLOCK_TSC
    BY <1>1, GetClock
  <2> QED  BY <1>1, <2>1, <2>2, ClockIds
<1>2. CASE CLOCK_TSC \notin available_clocks /\ CLOCK_HPET \in available_clocks
  <2>1. get_best_clock = get_clock(CLOCK_HPET)
    BY <1>2 DEF get_best_clock
  <2>2. IsClock(get_clock(CLOCK_HPET)) /\ get_clock(CLOCK_HPET).id = CLOCK_HPET
    BY <1>2, GetClock
  <2> QED  BY <1>2, <2>1, <2>2, ClockIds
<1>3. CASE CLOCK_TSC \notin available_clocks /\ CLOCK_HPET \notin available_clocks
  <2>1. get_best_clock = get_clock(CLOCK_PM_TIMER) /\ CLOCK_PM_TIMER \in available_clocks
    BY <1>3 DEF get_best_clock
  <2>2. IsClock(get_clock(CLOCK_PM_TIMER)) /\ get_clock(CLOCK_PM_TIMER).id = CLOCK_PM_TIMER
    BY <2>1, GetClock
  <2> QED  BY <1>3, <2>1, <2>2, ClockIds
<1> QED  BY <1>1, <1>2, <1>3

\* A clock stays one: nothing it depends on changes.
LEMMA ClockStays ==
  ASSUME machine' = machine, NEW c, IsClock(c)
  PROVE  IsClock(c)'
BY DEF IsClock, Calibrated, CalFreq

LEMMA RegisterSound ==
  ASSUME ListSound, machine' = machine, NEW source \in Source, Register(source),
         source.id # CLOCK_RTC => IsClock(source)
  PROVE  ListSound'
<1>1. /\ clock_list' = Append(clock_list, source) /\ clock_list \in Seq(Source)
      /\ available_clocks' = available_clocks \cup {source.id}
  BY DEF Register, ListSound
<1>2. /\ clock_list' \in Seq(Source) /\ Len(clock_list') = Len(clock_list) + 1
      /\ Len(clock_list) \in Nat
      /\ \A i \in 1..Len(clock_list) : clock_list'[i] = clock_list[i]
      /\ clock_list'[Len(clock_list) + 1] = source
  BY <1>1
<1>3. ASSUME NEW i \in 1..Len(clock_list')
      PROVE  /\ clock_list'[i].id \in available_clocks'
             /\ clock_list'[i].id # CLOCK_RTC => IsClock(clock_list[i])'
  <2>1. CASE i \in 1..Len(clock_list)
    <3>1. clock_list[i].id \in available_clocks
          /\ (clock_list[i].id # CLOCK_RTC => IsClock(clock_list[i]))
      BY <2>1 DEF ListSound
    <3>2. clock_list'[i] = clock_list[i]
      BY <1>2, <2>1
    <3>3. ASSUME clock_list'[i].id # CLOCK_RTC
          PROVE  IsClock(clock_list[i])'
      <4>1. IsClock(clock_list'[i])
        BY <3>1, <3>2, <3>3
      <4> QED  BY <4>1 DEF IsClock, Calibrated, CalFreq
    <3> QED  BY <1>1, <3>1, <3>2, <3>3
  <2>2. CASE i = Len(clock_list) + 1
    <3>1. clock_list'[i] = source
      BY <1>2, <2>2
    <3>2. ASSUME clock_list'[i].id # CLOCK_RTC
          PROVE  IsClock(clock_list[i])'
      <4>1. IsClock(clock_list'[i])
        BY <3>1, <3>2
      <4> QED  BY <4>1 DEF IsClock, Calibrated, CalFreq
    <3> QED  BY <1>1, <3>1, <3>2
  <2> QED  BY <1>2, <2>1, <2>2
<1>4. ASSUME NEW id \in available_clocks'
      PROVE  \E i \in 1..Len(clock_list') : clock_list'[i].id = id
  <2>1. CASE id = source.id
    <3>1. Len(clock_list) + 1 \in 1..Len(clock_list')
      BY <1>2
    <3> QED  BY <1>2, <2>1, <3>1
  <2>2. CASE id \in available_clocks
    <3>1. PICK i \in 1..Len(clock_list) : clock_list[i].id = id
      BY <2>2 DEF ListSound
    <3>2. i \in 1..Len(clock_list') /\ clock_list'[i].id = id
      BY <1>2, <3>1
    <3> QED  BY <3>2
  <2> QED  BY <1>1, <2>1, <2>2
<1> QED  BY <1>2, <1>3, <1>4 DEF ListSound

-----------------------------------------------------------------------------
\* The calibration of the TSC.

LEMMA CalibrationSums ==
  ASSUME NEW fs \in Nat \ {0}, NEW c \in Nat \ {0}, NEW f \in Nat, NEW e \in Nat, NEW d \in Nat,
         e * f < fs * (d + 1), 10 * (e * c) > fs * (c - 20)
  PROVE  (10 * d) * c > (f * c - 20 * f) - 10 * c
<1> DEFINE p == e * f
           q == e * c
<1>1. p \in Nat /\ q \in Nat /\ p * c = q * f
  BY SMT
<1>2. p < fs * (d + 1) /\ fs * (c - 20) < 10 * q
  OBVIOUS
<1> HIDE DEF p, q
<1>3. fs * (d + 1) \in Int /\ fs * (c - 20) \in Int /\ (10 * q) \in Int
  BY <1>1
<1>4. p * c < (fs * (d + 1)) * c /\ (fs * (c - 20)) * f <= (10 * q) * f
  BY <1>1, <1>2, <1>3, Scale
<1>5. (10 * q) * f = 10 * (q * f) /\ q * f \in Nat
  BY <1>1
<1>6. (fs * (d + 1)) * c = ((d + 1) * c) * fs /\ (fs * (c - 20)) * f = ((c - 20) * f) * fs
  BY SMT
<1>7. (10 * ((d + 1) * c)) * fs = 10 * (((d + 1) * c) * fs)
  BY SMT
<1> DEFINE x == (c - 20) * f
           y == (d + 1) * c
<1>8. x \in Int /\ y \in Int
  OBVIOUS
<1>9. x * fs < (10 * y) * fs
  <2> HIDE DEF x, y
  <2>1. x * fs \in Int /\ y * fs \in Int
    BY <1>8
  <2>2. p * c < y * fs /\ x * fs <= 10 * (q * f) /\ (10 * y) * fs = 10 * (y * fs)
    BY <1>4, <1>5, <1>6, <1>7 DEF x, y
  <2>3. p * c = q * f /\ q * f \in Nat
    BY <1>1, <1>5
  <2> QED  BY <2>1, <2>2, <2>3
<1>10. x < 10 * y
  <2> HIDE DEF x, y
  <2>1. 10 * y \in Int
    BY <1>8
  <2> QED  BY <1>8, <1>9, <2>1, Scale
<1>11. x = (f * c) - (20 * f) /\ y = (d * c) + c /\ (10 * d) * c = 10 * (d * c) /\ d * c \in Nat
       /\ f * c \in Nat
  BY SMT
<1> QED
  <2> DEFINE m == d * c
             n == f * c
  <2>1. x = n - (20 * f) /\ y = m + c /\ (10 * d) * c = 10 * m /\ m \in Nat /\ n \in Nat
    BY <1>11
  <2>2. 10 * m > (n - 20 * f) - 10 * c
    <3> HIDE DEF x, y, m, n
    <3> QED  BY <1>8, <1>10, <2>1
  <2> QED  BY <2>1, <2>2

\* Below what MaxTime counts, ten times the TSC fits in a word.
LEMMA TscFits ==
  ASSUME Basics
  PROVE  10 * Count(machine.tsc, time) < Word
<1> DEFINE c == Count(machine.tsc, time)
           p == machine.tsc * MaxTime
<1>1. /\ machine.tsc \in Nat /\ time \in Nat /\ time <= MaxTime /\ MaxTime \in Nat
      /\ FS \in Nat \ {0} /\ Word \in Nat /\ machine \in Machines
  BY TheMachine, Units DEF Basics
<1>2. c \in Nat /\ FS * c <= time * machine.tsc
  BY <1>1, Counting
<1>3. time * machine.tsc <= MaxTime * machine.tsc
  BY <1>1, Scale
<1>4. MaxTime * machine.tsc = p /\ p \in Nat /\ 10 * p < Word * FS
  BY <1>1, WidthAssumption
<1> HIDE DEF p, c
<1>5. FS * c \in Nat /\ time * machine.tsc \in Nat
  BY <1>1, <1>2
<1>6. 10 * (FS * c) < Word * FS
  <2> DEFINE r == FS * c
             s == time * machine.tsc
  <2>1. r \in Nat /\ s \in Nat /\ r <= s /\ s <= p /\ p \in Nat /\ 10 * p < Word * FS
        /\ Word * FS \in Nat
    BY <1>1, <1>2, <1>3, <1>4, <1>5
  <2> HIDE DEF r, s
  <2>2. 10 * r < Word * FS
    BY <2>1
  <2> QED  BY <2>2 DEF r
<1>7. 10 * (FS * c) = (10 * c) * FS
  BY <1>1, <1>2
<1>8. (10 * c) * FS < Word * FS /\ 10 * c \in Int /\ Word \in Int /\ FS \in Nat
  BY <1>1, <1>2, <1>6, <1>7
<1>9. 10 * c < Word
  <2> DEFINE d == 10 * c
  <2>1. d \in Int /\ d * FS < Word * FS /\ Word \in Int /\ FS \in Nat
    BY <1>8
  <2> HIDE DEF d
  <2>2. d < Word
    BY <2>1, Scale
  <2> QED  BY <2>2 DEF d
<1> QED  BY <1>9 DEF c

LEMMA CalibrationSound ==
  ASSUME Basics, NEW t1 \in 0..time, start_tsc = Count(machine.tsc, t1) % Word,
         10 * ((time - t1) * CalFreq) > FS * (CalFreq - 20)
  PROVE  LET freq == (((Rdtsc - start_tsc) % Word) * 10) % Word IN
         freq \in Nat /\ Calibrated(freq)
<1> DEFINE a == Count(machine.tsc, time)
           b == Count(machine.tsc, t1)
           d == a - b
<1>1. /\ machine.tsc \in Nat /\ time \in Nat /\ t1 \in Nat /\ t1 <= time /\ time - t1 \in Nat
      /\ FS \in Nat \ {0} /\ Word \in Nat \ {0} /\ CalFreq \in Nat \ {0}
  BY TheMachine, Units DEF Basics
<1>2. a \in Nat /\ b \in Nat
  BY <1>1, Counting
<1>3. d \in Nat /\ (time - t1) * machine.tsc < FS * (d + 1)
  BY <1>1, CountingOn
<1>4. (Rdtsc - start_tsc) % Word = d % Word
  <2>1. Rdtsc = a % Word /\ start_tsc = b % Word
    BY DEF Rdtsc
  <2>2. ((a % Word) - (b % Word)) % Word = (a - b) % Word
    <3> HIDE DEF a, b
    <3>1. a \in Int /\ b \in Int /\ Word \in Nat \ {0}
      BY <1>1, <1>2
    <3> QED  BY <3>1, ModSub, Zenon
  <2> QED  BY <2>1, <2>2
<1>5. 10 * d < Word /\ d < Word
  <2>1. 10 * a < Word
    BY TscFits
  <2> HIDE DEF a, b
  <2> QED  BY <1>1, <1>2, <1>3, <2>1
<1>6. (((Rdtsc - start_tsc) % Word) * 10) % Word = 10 * d
  <2> HIDE DEF d
  <2>1. d % Word = d
    BY <1>1, <1>3, <1>5, ModSmall
  <2>2. d * 10 = 10 * d /\ 10 * d \in Nat
    BY <1>3
  <2>3. (10 * d) % Word = 10 * d
    BY <1>1, <1>5, <2>2, ModSmall
  <2> QED  BY <1>4, <2>1, <2>2, <2>3
<1>7. (10 * d) * CalFreq > (machine.tsc * CalFreq - 20 * machine.tsc) - 10 * CalFreq
  <2> DEFINE e == time - t1
  <2>1. e \in Nat /\ e * machine.tsc < FS * (d + 1) /\ 10 * (e * CalFreq) > FS * (CalFreq - 20)
    BY <1>1, <1>3
  <2> HIDE DEF d, e
  <2> QED  BY <1>1, <1>3, <2>1, CalibrationSums
<1>8. 10 * d \in Nat
  BY <1>3
<1> QED  BY <1>6, <1>7, <1>8 DEF Calibrated

-----------------------------------------------------------------------------
\* The steps of clocks_init and the list.

LEMMA InitList == Init => ListSound
<1> SUFFICES ASSUME Init PROVE ListSound
  OBVIOUS
<1>1. clock_list = <<>> /\ available_clocks = {}
  BY DEF Init
<1>2. clock_list \in Seq(Source) /\ Len(clock_list) = 0
  BY <1>1
<1> QED  BY <1>1, <1>2 DEF ListSound

LEMMA StepList == Basics /\ ListSound /\ MeasureSound /\ [Next]_vars => ListSound'
<1> SUFFICES ASSUME Basics, ListSound, MeasureSound, [Next]_vars PROVE ListSound'
  OBVIOUS
<1> USE DEF CLOCK_TSC, CLOCK_HPET, CLOCK_PM_TIMER, CLOCK_RTC
<1>1. Framed /\ machine' = machine /\ machine \in Machines
  BY Frame DEF Framed, Basics
<1>2. CASE UNCHANGED <<clock_list, available_clocks>>
  <2>1. \A c : IsClock(c) => IsClock(c)'
    BY <1>1, ClockStays
  <2> QED  BY <1>2, <2>1, <1>1 DEF ListSound, IsClock, Calibrated, CalFreq
<1>3. CASE HpetInit
  <2>1. CASE UNCHANGED <<clock_list, available_clocks>>
    BY <1>2, <2>1
  <2>2. CASE machine.hpet > 0 /\ register_clock_source(CLOCK_HPET, FS \div machine.hpet)
    <3> DEFINE c == [id |-> CLOCK_HPET, now |-> TRUE, real |-> FALSE,
                     freq |-> FS \div machine.hpet]
    <3>1. FS \div machine.hpet \in Nat \ {0}
      BY <1>1, <2>2, TheMachine
    <3>2. c \in Source /\ IsClock(c)
      BY <2>2, <3>1 DEF Source, IsClock
    <3>3. Register(c)
      BY <2>2 DEF register_clock_source
    <3> HIDE DEF c
    <3> QED  BY <1>1, <3>2, <3>3, RegisterSound
  <2> QED  BY <1>3, <2>1, <2>2 DEF HpetInit, unlisted
<1>4. CASE PmTimerInit
  <2>1. CASE UNCHANGED <<clock_list, available_clocks>>
    BY <1>2, <2>1
  <2>2. CASE machine.pm # Absent /\ register_clock_source(CLOCK_PM_TIMER, PM_TIMER_FREQ)
    <3> DEFINE c == [id |-> CLOCK_PM_TIMER, now |-> TRUE, real |-> FALSE,
                     freq |-> PM_TIMER_FREQ]
    <3>1. c \in Source /\ IsClock(c)
      BY <2>2, Units DEF Source, IsClock
    <3>2. Register(c)
      BY <2>2 DEF register_clock_source
    <3> HIDE DEF c
    <3> QED  BY <1>1, <3>1, <3>2, RegisterSound
  <2> QED  BY <1>4, <2>1, <2>2 DEF PmTimerInit, unlisted
<1>5. CASE TscDone
  <2> DEFINE freq == (((Rdtsc - start_tsc) % Word) * 10) % Word
  <2>1. CASE UNCHANGED <<clock_list, available_clocks>>
    BY <1>2, <2>1
  <2>2. CASE freq # 0 /\ register_clock_source(CLOCK_TSC, freq)
    <3> DEFINE c == [id |-> CLOCK_TSC, now |-> TRUE, real |-> FALSE, freq |-> freq]
    <3>1. PICK t1 \in 0..time : /\ start_tsc = Count(machine.tsc, t1) % Word
                                /\ 10 * ((time - t1) * CalFreq) > FS * (CalFreq - 20)
      BY <1>5 DEF TscDone, MeasureSound
    <3>2. freq \in Nat /\ Calibrated(freq)
      BY <3>1, CalibrationSound
    <3> HIDE DEF freq
    <3>3. machine.hasTsc
      BY <1>5 DEF TscDone, MeasureSound
    <3>4. c \in Source /\ IsClock(c)
      BY <2>2, <3>2, <3>3 DEF Source, IsClock
    <3>5. Register(c)
      BY <2>2 DEF register_clock_source
    <3> HIDE DEF c
    <3> QED  BY <1>1, <3>4, <3>5, RegisterSound
  <2> QED  BY <1>5, <2>1, <2>2 DEF TscDone, unlisted
<1>6. CASE RtcInit
  <2> DEFINE c == [id |-> CLOCK_RTC, now |-> FALSE, real |-> TRUE, freq |-> 0]
  <2>1. c \in Source /\ c.id = CLOCK_RTC
    BY DEF Source
  <2>2. Register(c)
    BY <1>6 DEF RtcInit, register_time_source
  <2> HIDE DEF c
  <2> QED  BY <1>1, <2>1, <2>2, RegisterSound
<1> QED  BY <1>1, <1>2, <1>3, <1>4, <1>5, <1>6 DEF Framed

-----------------------------------------------------------------------------
\* Reading a clock.

\* A remainder of a multiple of p keeps the remainder by p.
LEMMA ModMod ==
  ASSUME NEW a \in Int, NEW w \in Nat \ {0}, NEW p \in Nat \ {0}, w % p = 0
  PROVE  (a % w) % p = a % p
<1> DEFINE k == w \div p
           q == a \div w
           r == a % w
           u == r \div p
<1>1. k \in Nat /\ w = p * k
  BY Division
<1>2. q \in Int /\ r \in Nat /\ a = (w * q) + r
  BY Division
<1>3. u \in Int /\ r % p \in Nat /\ r % p < p /\ r = (p * u) + (r % p)
  <2> HIDE DEF r
  <2>1. r \in Int
    BY <1>2
  <2> QED  BY <2>1, Division
<1> HIDE DEF k, q, r, u
<1>4. w * q = p * (k * q) /\ k * q \in Int
  BY <1>1, <1>2
<1> DEFINE v == k * q
<1>5. v \in Int /\ w * q = p * v
  BY <1>4
<1> HIDE DEF v
<1>6. p * (v + u) = (p * v) + (p * u) /\ p * v \in Int /\ p * u \in Int /\ v + u \in Int
  BY <1>3, <1>5, Distribute
<1>7. a = (p * (v + u)) + (r % p)
  <2> DEFINE x == p * v
             y == p * u
             z == r % p
  <2>1. x \in Int /\ y \in Int /\ z \in Int /\ a = x + r /\ r = y + z /\ p * (v + u) = x + y
    BY <1>2, <1>3, <1>5, <1>6
  <2>2. a = (x + y) + z
    <3> HIDE DEF x, y, z
    <3> QED  BY <2>1
  <2> QED  BY <2>1, <2>2
<1>8. a % p = r % p
  <2> DEFINE s == v + u
             z == r % p
  <2>1. s \in Int /\ z \in Nat /\ z < p /\ a = (p * s) + z
    BY <1>3, <1>6, <1>7
  <2> HIDE DEF s, z
  <2>2. a % p = z
    BY <2>1, DivisionUnique
  <2> QED  BY <2>2 DEF z
<1> QED  BY <1>8 DEF r

LEMMA PmDelta ==
  ASSUME Basics, PmSound, machine.pm # Absent
  PROVE  LET d == Count(PM_TIMER_FREQ, time) - pmTrue IN
         /\ d \in Nat
         /\ Delta(pm_timer_read_raw) \in Nat
         /\ Delta(pm_timer_read_raw) <= d
         /\ d < machine.pm => Delta(pm_timer_read_raw) = d
<1> DEFINE c == Count(PM_TIMER_FREQ, time)
           d == c - pmTrue
           p == machine.pm
<1>1. /\ p \in Nat \ {0} /\ Word32 % p = 0 /\ Word32 \in Nat \ {0}
      /\ time \in Nat /\ PM_TIMER_FREQ \in Nat
  BY TheMachine, Units DEF Basics
<1>2. c \in Nat
  BY <1>1, Counting
<1>3. pmTrue \in Nat /\ pmTrue <= c /\ last = pmTrue % p
  BY DEF PmSound
<1>4. Delta(pm_timer_read_raw) = (((c % p) - (pmTrue % p)) % Word32) % p
  BY <1>3 DEF Delta, pm_timer_read_raw
<1> HIDE DEF c, p
<1>5. d \in Nat
  BY <1>2, <1>3
<1>6. c % p \in Int /\ pmTrue % p \in Int /\ c \in Int /\ pmTrue \in Int
  BY <1>1, <1>2, <1>3
<1>7. (((c % p) - (pmTrue % p)) % Word32) % p = ((c % p) - (pmTrue % p)) % p
  <2> DEFINE x == (c % p) - (pmTrue % p)
  <2>1. x \in Int
    BY <1>6
  <2> HIDE DEF x
  <2>2. (x % Word32) % p = x % p
    BY <1>1, <2>1, ModMod
  <2> QED  BY <2>2 DEF x
<1>8. ((c % p) - (pmTrue % p)) % p = (c - pmTrue) % p
  BY <1>1, <1>6, ModSub, Zenon
<1>9. Delta(pm_timer_read_raw) = d % p
  BY <1>4, <1>7, <1>8
<1>10. d % p \in Nat /\ d % p <= d /\ (d < p => d % p = d)
  <2> HIDE DEF d
  <2> QED  BY <1>1, <1>5, ModLe, ModSmall
<1> QED  BY <1>5, <1>9, <1>10 DEF c, p

LEMMA NowIs ==
  ASSUME NEW c
  PROVE  /\ c.id = CLOCK_TSC => now(c) = tsc_read
         /\ c.id = CLOCK_HPET => now(c) = hpet_read
         /\ c.id = CLOCK_PM_TIMER => now(c) = pm_timer_read
BY DEF now, CLOCK_TSC, CLOCK_HPET, CLOCK_PM_TIMER

LEMMA TicksAtIs ==
  ASSUME NEW t
  PROVE  /\ TicksAt(CLOCK_TSC, t) = Count(machine.tsc, t)
         /\ TicksAt(CLOCK_HPET, t) = (t - hpetZero) \div machine.hpet
         /\ TicksAt(CLOCK_PM_TIMER, t) = Count(PM_TIMER_FREQ, t)
BY DEF TicksAt, CLOCK_TSC, CLOCK_HPET, CLOCK_PM_TIMER

LEMMA PmRead ==
  ASSUME Basics, PmSound, machine.pm # Absent
  PROVE  /\ pm_timer_read \in Nat /\ pm_timer_read < Word
         /\ (~missed /\ Count(PM_TIMER_FREQ, time) - pmTrue < machine.pm) =>
              pm_timer_read = Count(PM_TIMER_FREQ, time)
<1> DEFINE c == Count(PM_TIMER_FREQ, time)
           e == Delta(pm_timer_read_raw)
           s == accumulated + e
<1>1. /\ e \in Nat /\ accumulated \in Nat /\ c - pmTrue \in Nat /\ pmTrue \in Nat
      /\ c - pmTrue < machine.pm => e = c - pmTrue
      /\ ~missed => accumulated = pmTrue
      /\ Word \in Nat \ {0}
  BY PmDelta, Units DEF PmSound
<1>2. c \in Nat /\ c < Word
  <2>1. /\ time \in Nat /\ time <= MaxTime /\ FS \in Nat \ {0} /\ PM_TIMER_FREQ \in Nat
        /\ MaxTime \in Nat /\ PM_TIMER_FREQ * MaxTime < Word * FS
    BY Units, WidthAssumption DEF Basics
  <2>2. c \in Nat /\ FS * c <= time * PM_TIMER_FREQ
    BY <2>1, Counting
  <2>3. time * PM_TIMER_FREQ <= MaxTime * PM_TIMER_FREQ
    BY <2>1, Scale
  <2> HIDE DEF c
  <2>4. c * FS < Word * FS
    <3> DEFINE x == FS * c
               y == time * PM_TIMER_FREQ
               z == MaxTime * PM_TIMER_FREQ
               w == Word * FS
    <3>1. x \in Int /\ y \in Int /\ z \in Int /\ w \in Int /\ x <= y /\ y <= z /\ z < w
          /\ c * FS = x
      BY <1>1, <2>1, <2>2, <2>3
    <3>2. x < w
      <4> HIDE DEF x, y, z, w
      <4> QED  BY <3>1
    <3> QED  BY <3>1, <3>2
  <2>5. c < Word
    BY <1>1, <2>1, <2>2, <2>4, Scale
  <2> QED  BY <2>2, <2>5
<1>3. pm_timer_read = s % Word
  BY DEF pm_timer_read
<1>4. s \in Nat
  BY <1>1
<1>5. (~missed /\ c - pmTrue < machine.pm) => s = c
  <2> HIDE DEF c, e
  <2> QED  BY <1>1, <1>2
<1> HIDE DEF s
<1>6. s % Word \in Nat /\ s % Word < Word /\ (s < Word => s % Word = s)
  BY <1>1, <1>4, ModLe, ModSmall
<1> QED  BY <1>2, <1>3, <1>5, <1>6

LEMMA NowNat ==
  ASSUME Basics, PmSound, NEW c, IsClock(c)
  PROVE  now(c) \in Nat /\ now(c) < Word
<1> USE Units
<1>1. CASE c.id = CLOCK_TSC
  <2>1. Rdtsc - tsc_base \in Int
    BY RdtscFacts DEF Basics
  <2>2. tsc_read \in Nat /\ tsc_read < Word
    BY <2>1, Division DEF tsc_read
  <2> QED  BY <1>1, <2>2, NowIs
<1>2. CASE c.id = CLOCK_HPET
  <2>1. machine.hpet \in Nat \ {0} /\ time - hpetZero \in Nat
    BY <1>2, ClockIds, TheMachine DEF Basics
  <2>2. (time - hpetZero) \div machine.hpet \in Nat
    BY <2>1, Division
  <2>3. hpet_read \in Nat /\ hpet_read < Word
    BY <2>2, ModLe DEF hpet_read
  <2> QED  BY <1>2, <2>3, NowIs
<1>3. CASE c.id = CLOCK_PM_TIMER
  BY <1>3, NowIs, PmRead, ClockIds
<1> QED  BY <1>1, <1>2, <1>3, ClockIds

LEMMA ReadSound ==
  ASSUME Basics, PmSound, NEW c, IsClock(c), machine' = machine, time' = time, ReadEffect(c)
  PROVE  PmSound'
<1>1. CASE c.id # CLOCK_PM_TIMER
  BY <1>1 DEF ReadEffect, PmSound, Count
<1>2. CASE c.id = CLOCK_PM_TIMER
  <2> DEFINE n == Count(PM_TIMER_FREQ, time)
  <2>1. machine.pm # Absent
    BY <1>2, ClockIds
  <2>2. /\ accumulated' = pm_timer_read /\ last' = pm_timer_read_raw /\ pmTrue' = n
        /\ missed' = (missed \/ n - pmTrue >= machine.pm)
    BY <1>2, TicksAtIs DEF ReadEffect, TrueTicks
  <2>3. n \in Nat /\ Count(PM_TIMER_FREQ, time)' = n /\ last' = n % machine.pm
    BY <2>2, Units, Counting DEF Basics, Count, pm_timer_read_raw
  <2>4. machine.pm \in Nat \ {0} /\ pmTrue \in Nat /\ missed \in BOOLEAN
    BY <2>1, TheMachine DEF Basics, PmSound
  <2>5. last' \in Nat
    BY <2>3, <2>4, ModLe
  <2>6. missed' \in BOOLEAN
    BY <2>2
  <2>7. ~missed' => accumulated' = pmTrue'
    <3>1. ~missed' => ~missed /\ n - pmTrue < machine.pm
      <4>1. n - pmTrue \in Int /\ machine.pm \in Int
        BY <2>3, <2>4
      <4>2. ~(n - pmTrue >= machine.pm) => n - pmTrue < machine.pm
        BY <4>1
      <4> QED  BY <2>2, <4>2, Zenon
    <3> QED  BY <2>1, <2>2, <3>1, PmRead
  <2>8. accumulated' \in Nat /\ accumulated' < Word
    BY <2>1, <2>2, PmRead
  <2>9. pmTrue' \in Nat /\ pmTrue' <= Count(PM_TIMER_FREQ, time)'
    BY <2>2, <2>3
  <2> QED  BY <2>2, <2>3, <2>5, <2>6, <2>7, <2>8, <2>9 DEF PmSound
<1> QED  BY <1>1, <1>2

LEMMA InitPm == Init => PmSound
<1> SUFFICES ASSUME Init PROVE PmSound
  OBVIOUS
<1>1. time \in Nat /\ machine \in Machines
  BY Units DEF Init
<1>2. Count(PM_TIMER_FREQ, time) \in Nat
  BY <1>1, Units, Counting
<1>3. machine.pm # Absent => 0 % machine.pm = 0
  <2>1. ASSUME machine.pm # Absent PROVE 0 % machine.pm = 0
    <3>1. machine.pm \in Nat \ {0} /\ 0 \in Nat
      BY <1>1, <2>1, TheMachine
    <3>2. 0 < machine.pm
      BY <3>1
    <3> QED  BY <3>1, <3>2, ModSmall
  <2> QED  BY <2>1
<1>4. /\ accumulated = 0 /\ last = 0 /\ pmTrue = 0 /\ missed = FALSE
  BY DEF Init
<1>5. 0 \in Nat /\ 0 < Word /\ 0 <= Count(PM_TIMER_FREQ, time)
  BY <1>2, Units
<1> QED  BY <1>3, <1>4, <1>5, Zenon DEF PmSound

Sound == Basics /\ ListSound /\ Staged /\ SleepSound /\ PmSound /\ BootSound /\ LapicSound

\* The clocks that are read are clocks.
LEMMA ReadClocks ==
  ASSUME Sound
  PROVE  /\ Waiting => IsClock(sleep.clock)
         /\ pc \notin {"hpet", "pm_timer", "panic"} =>
              IsClock(get_best_clock) /\ get_best_clock # NULL
         /\ pc = "run" => boot # NULL /\ IsClock(boot)
<1>1. Waiting => IsClock(sleep.clock)
  BY DEF Sound, SleepSound
<1>2. pc \notin {"hpet", "pm_timer", "panic"} => IsClock(get_best_clock) /\ get_best_clock # NULL
  BY BestClock DEF Sound, Staged
<1>3. pc = "run" => boot # NULL /\ IsClock(boot)
  BY DEF Sound, BootSound, Booted
<1> QED  BY <1>1, <1>2, <1>3

LEMMA QuietPm ==
  ASSUME Basics, PmSound, machine' = machine, Basics', time <= time',
         UNCHANGED <<accumulated, last, pmTrue, missed>>
  PROVE  PmSound'
<1>1. /\ Count(PM_TIMER_FREQ, time) \in Nat /\ Count(PM_TIMER_FREQ, time') \in Nat
      /\ Count(PM_TIMER_FREQ, time') - Count(PM_TIMER_FREQ, time) \in Nat
  BY Units, Counting, CountingOn DEF Basics
<1>2. Count(PM_TIMER_FREQ, time)' = Count(PM_TIMER_FREQ, time')
  BY DEF Count
<1>3. pmTrue <= Count(PM_TIMER_FREQ, time')
  BY <1>1 DEF PmSound
<1> QED  BY <1>2, <1>3 DEF PmSound

LEMMA StepPm == Sound /\ [Next]_vars => PmSound'
<1> SUFFICES ASSUME Sound, [Next]_vars PROVE PmSound'
  OBVIOUS
<1>1. /\ Basics /\ PmSound /\ Basics' /\ machine' = machine /\ Framed
      /\ (time' = time \/ Tick)
  BY Frame, StepBasics DEF Sound, Framed
<1>2. ASSUME UNCHANGED <<accumulated, last, pmTrue, missed>>
      PROVE  PmSound'
  <2>1. time <= time'
    BY <1>1 DEF Basics, Tick
  <2> QED  BY <1>1, <1>2, <2>1, QuietPm
<1>3. ASSUME NEW c, IsClock(c), ReadEffect(c), time' = time
      PROVE  PmSound'
  BY <1>1, <1>3, ReadSound
<1>4. CASE SetupBootClock
  <2>1. IsClock(get_best_clock) /\ get_best_clock # NULL
    BY <1>4, ReadClocks DEF SetupBootClock
  <2> QED  BY <1>3, <1>4, <2>1 DEF SetupBootClock
<1>5. CASE SleepStart
  <2>1. IsClock(sleep.clock)
    BY <1>5, ReadClocks DEF SleepStart, Waiting
  <2> QED  BY <1>3, <1>5, <2>1 DEF SleepStart
<1>6. CASE SleepPoll
  <2>1. IsClock(sleep.clock)
    BY <1>6, ReadClocks DEF SleepPoll, Waiting
  <2> QED  BY <1>3, <1>6, <2>1 DEF SleepPoll
<1>7. CASE ReadElapsed
  <2>1. IsClock(boot)
    BY <1>7, ReadClocks DEF ReadElapsed
  <2> QED  BY <1>3, <1>7, <2>1 DEF ReadElapsed
<1>8. CASE \E s \in Seconds : GettimeMonotonic(s)
  <2>1. IsClock(get_best_clock)
    BY <1>8, ReadClocks DEF GettimeMonotonic
  <2> QED  BY <1>3, <1>8, <2>1 DEF GettimeMonotonic
<1>9. CASE \/ HpetInit \/ PmTimerInit \/ TscInit \/ TscDone \/ RtcInit \/ LapicStart
           \/ LapicProgram \/ Tick \/ KmainAbandoned \/ GettimeRealtime \/ UNCHANGED vars
           \/ \E s \in Sleeps : do_sys_nanosleep(s)
  <2>1. UNCHANGED <<accumulated, last, pmTrue, missed>>
    BY <1>9 DEF HpetInit, PmTimerInit, TscInit, TscDone, RtcInit, LapicStart, LapicProgram, Tick,
       KmainAbandoned, GettimeRealtime, vars, do_sys_nanosleep, counters
  <2> QED  BY <1>2, <2>1
<1> QED  BY <1>4, <1>5, <1>6, <1>7, <1>8, <1>9 DEF Next, KernelStep

-----------------------------------------------------------------------------
\* The stages of clocks_init and the busy sleeps.

\* What busy_sleep_ns leaves.
Asleep(c, ns, then) ==
  /\ pc' = "start"
  /\ sleep' = [clock |-> c, ticks |-> ((ns * c.freq) % Word) \div NS, start |-> 0,
               then |-> then, asked |-> ns, began |-> time]

LEMMA SleepBegins ==
  ASSUME NEW c, NEW ns, NEW then
  PROVE  /\ busy_sleep_ns(c, ns, then) =>
              (c = NULL /\ pc' = "crash" /\ UNCHANGED sleep) \/ (c # NULL /\ Asleep(c, ns, then))
         /\ (busy_sleep_best_ns(ns, then) /\ get_best_clock # NULL) =>
              Asleep(get_best_clock, ns, then)
BY DEF busy_sleep_ns, busy_sleep_best_ns, Asleep

LEMMA StepStaged == Sound /\ [Next]_vars => Staged'
<1> SUFFICES ASSUME Sound, [Next]_vars PROVE Staged'
  OBVIOUS
<1>1. machine' = machine /\ machine.hpet \in Int
  BY Frame, TheMachine DEF Framed, Sound, Basics
<1>2. Staged
  BY DEF Sound
<1>3. Waiting => sleep.then \in {"calibrated", "measured", "run"}
  BY DEF Sound, SleepSound
<1> USE DEF CLOCK_TSC, CLOCK_HPET, CLOCK_PM_TIMER, CLOCK_RTC
<1>4. CASE UNCHANGED vars
  BY <1>2, <1>4 DEF vars, Staged, Early, Waiting
<1>5. CASE HpetInit
  BY <1>1, <1>2, <1>5 DEF HpetInit, Staged, Early, Waiting, register_clock_source, Register, unlisted,
     Absent
<1>6. CASE PmTimerInit
  BY <1>1, <1>2, <1>6 DEF PmTimerInit, Staged, Early, Waiting, register_clock_source, Register,
     unlisted
<1>7. CASE TscInit
  <2>1. get_best_clock # NULL
    BY <1>7, ReadClocks DEF TscInit
  <2>2. CASE machine.hasTsc
    <3>0. busy_sleep_best_ns(NS \div 10, "calibrated")
      BY <1>7, <2>2 DEF TscInit
    <3>1. Asleep(get_best_clock, NS \div 10, "calibrated")
      BY <2>1, <3>0, SleepBegins, Zenon
    <3>2. pc' = "start" /\ sleep'.then = "calibrated"
      BY <3>1 DEF Asleep
    <3> QED  BY <1>1, <1>2, <1>7, <3>2 DEF TscInit, Staged, Early, Waiting
  <2>3. CASE ~machine.hasTsc
    BY <1>1, <1>2, <1>7, <2>3 DEF TscInit, Staged, Early, Waiting
  <2> QED  BY <2>2, <2>3
<1>8. CASE TscDone
  BY <1>1, <1>2, <1>8 DEF TscDone, Staged, Early, Waiting, register_clock_source, Register, unlisted
<1>9. CASE RtcInit
  BY <1>1, <1>2, <1>9 DEF RtcInit, Staged, Early, Waiting, register_time_source, Register
<1>10. CASE SetupBootClock
  BY <1>1, <1>2, <1>10 DEF SetupBootClock, Staged, Early, Waiting
<1>11. CASE LapicStart
  <2>1. pc' = "crash" \/ (pc' = "start" /\ sleep'.then = "measured")
    BY <1>11, SleepBegins DEF LapicStart, Asleep
  <2> QED  BY <1>1, <1>2, <1>11, <2>1 DEF LapicStart, Staged, Early, Waiting
<1>12. CASE LapicProgram
  BY <1>1, <1>2, <1>12 DEF LapicProgram, Staged, Early, Waiting
<1>13. CASE SleepStart
  <2>1. sleep'.then = sleep.then
    BY <1>13 DEF SleepStart, Sound, SleepSound, Waiting
  <2> QED  BY <1>1, <1>2, <1>3, <1>13, <2>1 DEF SleepStart, Staged, Early, Waiting
<1>14. CASE SleepPoll
  BY <1>1, <1>2, <1>3, <1>14 DEF SleepPoll, Staged, Early, Waiting
<1>15. CASE Tick
  BY <1>1, <1>2, <1>15 DEF Tick, Staged, Early, Waiting
<1>16. CASE KmainAbandoned
  BY <1>1, <1>2, <1>16 DEF KmainAbandoned, Staged, Early, Waiting
<1>17. CASE ReadElapsed
  BY <1>1, <1>2, <1>17 DEF ReadElapsed, Staged, Early, Waiting
<1>18. CASE GettimeRealtime
  BY <1>1, <1>2, <1>18 DEF GettimeRealtime, Staged, Early, Waiting
<1>19. CASE \E s \in Seconds : GettimeMonotonic(s)
  BY <1>1, <1>2, <1>19 DEF GettimeMonotonic, Staged, Early, Waiting
<1>20. CASE \E s \in Sleeps : do_sys_nanosleep(s)
  <2>1. PICK s \in Sleeps : do_sys_nanosleep(s)
    BY <1>20
  <2>2. get_best_clock # NULL
    BY <2>1, ReadClocks DEF do_sys_nanosleep
  <2>3. busy_sleep_best_ns(timespec_to_nsec(s), "run")
    BY <2>1 DEF do_sys_nanosleep
  <2>4. Asleep(get_best_clock, timespec_to_nsec(s), "run")
    BY <2>2, <2>3, SleepBegins, Zenon
  <2>5. pc' = "start" /\ sleep'.then = "run"
    BY <2>4 DEF Asleep
  <2> QED  BY <1>1, <1>2, <2>1, <2>5 DEF do_sys_nanosleep, Staged, Early, Waiting
<1> QED  BY <1>4, <1>5, <1>6, <1>7, <1>8, <1>9, <1>10, <1>11, <1>12, <1>13, <1>14, <1>15, <1>16,
            <1>17, <1>18, <1>19, <1>20 DEF Next, KernelStep

LEMMA AsleepSound ==
  ASSUME Sound, machine' = machine, time' = time, gap' \in Nat, NEW c, IsClock(c), NEW ns \in Nat,
         NEW then \in {"calibrated", "measured", "run"}, Asleep(c, ns, then),
         then = "calibrated" => /\ ns = NS \div 10 /\ c.id # CLOCK_TSC
                                /\ c.freq = CalFreq /\ machine.hasTsc
                                /\ start_tsc' = Count(machine.tsc, time) % Word,
         then = "measured" => ns = LapicNs /\ c.id = CLOCK_HPET /\ lapic'.started = time
  PROVE  SleepSound'
<1>1. IsClock(c)'
  BY ClockStays
<1>2. /\ pc' = "start" /\ sleep'.clock = c /\ sleep'.ticks = ((ns * c.freq) % Word) \div NS
      /\ sleep'.start = 0 /\ sleep'.then = then /\ sleep'.asked = ns /\ sleep'.began = time
  BY DEF Asleep
<1>3. sleep' = [clock |-> sleep'.clock, ticks |-> sleep'.ticks, start |-> sleep'.start,
                then |-> sleep'.then, asked |-> sleep'.asked, began |-> sleep'.began]
  BY <1>2 DEF Asleep
<1>4. CalFreq' = CalFreq /\ Count(machine.tsc, sleep.began)' = Count(machine.tsc, time)
  BY <1>2 DEF CalFreq, Count
<1>5. time \in Nat /\ time - time = 0 /\ time <= time /\ 0 <= gap'
  BY DEF Sound, Basics
<1>6. IsClock(sleep.clock)'
  BY <1>1, <1>2 DEF IsClock, Calibrated, CalFreq
<1>7. /\ sleep'.asked \in Nat /\ sleep'.start \in Nat
      /\ sleep'.ticks = ((sleep'.asked * sleep'.clock.freq) % Word) \div NS
      /\ sleep'.began \in Nat /\ sleep'.began <= time'
      /\ sleep'.then \in {"calibrated", "measured", "run"}
  BY <1>2, <1>5
<1>8. sleep'.then = "calibrated" =>
         /\ sleep'.asked = NS \div 10 /\ sleep'.clock.id # CLOCK_TSC
         /\ sleep'.clock.freq = CalFreq' /\ machine'.hasTsc
         /\ start_tsc' = Count(machine.tsc, sleep.began)' % Word
  BY <1>2, <1>4
<1>9. sleep'.then = "measured" =>
         /\ sleep'.asked = LapicNs /\ sleep'.clock.id = CLOCK_HPET
         /\ lapic'.started = sleep'.began
         /\ pc' = "start" => time' - sleep'.began <= gap'
  BY <1>2, <1>5
<1> QED  BY <1>3, <1>6, <1>7, <1>8, <1>9 DEF SleepSound

LEMMA Durations ==
  ASSUME NEW s \in Sleeps
  PROVE  timespec_to_nsec(s) \in Nat
<1>1. s.tv_sec \in Nat /\ s.tv_nsec \in Nat /\ NS \in Nat /\ Word \in Nat \ {0}
  BY UnitAssumption, Units
<1> DEFINE x == s.tv_sec * NS + s.tv_nsec
<1>2. x \in Int
  BY <1>1
<1> HIDE DEF x
<1>3. x % Word \in Nat
  BY <1>1, <1>2, Division
<1> QED  BY <1>3 DEF x, timespec_to_nsec

\* The clock that calibrates the TSC.
LEMMA CalibratingClock ==
  ASSUME Sound, pc = "tsc"
  PROVE  get_best_clock.id # CLOCK_TSC /\ get_best_clock.freq = CalFreq
<1> USE DEF CLOCK_TSC, CLOCK_HPET, CLOCK_PM_TIMER
<1>1. /\ IsClock(get_best_clock) /\ get_best_clock.id \in available_clocks
      /\ get_best_clock.id = CLOCK_PM_TIMER => CLOCK_HPET \notin available_clocks
  BY BestClock DEF Sound, Staged
<1>2. get_best_clock.id \in {CLOCK_HPET, CLOCK_PM_TIMER}
  BY <1>1 DEF Sound, Staged, Early
<1>3. CASE get_best_clock.id = CLOCK_HPET
  BY <1>1, <1>3, ClockIds DEF CalFreq, CalibrationRate
<1>4. CASE get_best_clock.id = CLOCK_PM_TIMER
  <2>1. ~(machine.hpet > 0)
    BY <1>1, <1>4 DEF Sound, Staged
  <2> QED  BY <1>1, <1>4, <2>1, ClockIds DEF CalFreq, CalibrationRate
<1> QED  BY <1>2, <1>3, <1>4

LEMMA StepSleep == Sound /\ [Next]_vars => SleepSound'
<1> SUFFICES ASSUME Sound, [Next]_vars PROVE SleepSound'
  OBVIOUS
<1>1. /\ Basics /\ Basics' /\ SleepSound /\ machine' = machine
      /\ (time' = time \/ Tick) /\ gap' \in Nat
  BY Frame, StepBasics DEF Framed, Sound, Basics
<1>2. ASSUME ~Waiting' PROVE SleepSound'
  BY <1>2 DEF SleepSound
<1>3. CASE UNCHANGED vars
  BY <1>1, <1>3 DEF vars, counters, SleepSound, Waiting, IsClock, Calibrated, CalFreq, Count
<1>4. CASE TscInit
  <2>1. get_best_clock # NULL /\ IsClock(get_best_clock) /\ pc = "tsc"
    BY <1>4, ReadClocks DEF TscInit
  <2>2. CASE machine.hasTsc
    <3>1. Asleep(get_best_clock, NS \div 10, "calibrated")
      <4>1. busy_sleep_best_ns(NS \div 10, "calibrated")
        BY <1>4, <2>2 DEF TscInit
      <4> QED  BY <2>1, <4>1, SleepBegins, Zenon
    <3>2. get_best_clock.id # CLOCK_TSC /\ get_best_clock.freq = CalFreq
      BY <2>1, CalibratingClock
    <3>3. start_tsc' = Count(machine.tsc, time) % Word /\ time' = time
      BY <1>4, <2>2 DEF TscInit, Rdtsc
    <3>4. NS \div 10 \in Nat
      BY Units
    <3> DEFINE ns == NS \div 10
    <3>5. /\ ns \in Nat /\ Asleep(get_best_clock, ns, "calibrated") /\ ns = NS \div 10
      BY <3>1, <3>4
    <3> HIDE DEF ns
    <3> QED  BY <1>1, <2>1, <2>2, <3>2, <3>3, <3>5, AsleepSound
  <2>3. CASE ~machine.hasTsc
    BY <1>2, <1>4, <2>3 DEF TscInit, Waiting
  <2> QED  BY <2>2, <2>3
<1>5. CASE LapicStart
  <2> DEFINE c == get_clock(CLOCK_HPET)
  <2>1. CASE pc' = "crash"
    BY <1>2, <2>1 DEF Waiting
  <2>2. CASE c # NULL /\ Asleep(c, LapicNs, "measured")
    <3>1. IsClock(c) /\ c.id = CLOCK_HPET
      BY <2>2, GetClock DEF Sound, CLOCK_HPET, CLOCK_RTC
    <3>2. lapic'.started = time /\ time' = time
      BY <1>5 DEF LapicStart, Sound, LapicSound
    <3> HIDE DEF c
    <3> QED  BY <1>1, <2>2, <3>1, <3>2, AsleepSound, Units
  <2>3. busy_sleep_ns(c, LapicNs, "measured")
    BY <1>5 DEF LapicStart
  <2> HIDE DEF c
  <2> QED  BY <2>1, <2>2, <2>3, SleepBegins
<1>6. CASE \E s \in Sleeps : do_sys_nanosleep(s)
  <2>1. PICK s \in Sleeps : do_sys_nanosleep(s)
    BY <1>6
  <2>2. get_best_clock # NULL /\ IsClock(get_best_clock) /\ time' = time
    BY <2>1, ReadClocks DEF do_sys_nanosleep
  <2>3. busy_sleep_best_ns(timespec_to_nsec(s), "run")
    BY <2>1 DEF do_sys_nanosleep
  <2>4. Asleep(get_best_clock, timespec_to_nsec(s), "run")
    BY <2>2, <2>3, SleepBegins, Zenon
  <2>5. timespec_to_nsec(s) \in Nat
    BY Durations
  <2> QED  BY <1>1, <2>2, <2>4, <2>5, AsleepSound
<1>7. CASE SleepStart
  <2>1. pc = "start" /\ Waiting /\ IsClock(sleep.clock) /\ pc' = "poll" /\ time' = time
    BY <1>7, <1>1 DEF SleepStart, Waiting, SleepSound
  <2>2. now(sleep.clock) \in Nat
    BY <2>1, NowNat DEF Sound
  <2>3. /\ sleep'.clock = sleep.clock /\ sleep'.ticks = sleep.ticks
        /\ sleep'.start = now(sleep.clock) /\ sleep'.then = sleep.then
        /\ sleep'.asked = sleep.asked /\ sleep'.began = sleep.began
        /\ sleep' = [clock |-> sleep'.clock, ticks |-> sleep'.ticks, start |-> sleep'.start,
                     then |-> sleep'.then, asked |-> sleep'.asked, began |-> sleep'.began]
    BY <1>1, <1>7, <2>1 DEF SleepStart, SleepSound
  <2>4. start_tsc' = start_tsc /\ lapic' = lapic
    BY <1>7 DEF SleepStart, ReadEffect
  <2>5. IsClock(sleep.clock)'
    BY <1>1, <2>1, <2>3 DEF IsClock, Calibrated, CalFreq
  <2> QED  BY <1>1, <2>1, <2>2, <2>3, <2>4, <2>5 DEF SleepSound, CalFreq, Count
<1>8. CASE SleepPoll
  <2>1. CASE UNCHANGED <<pc, sleep>>
    <3>1. start_tsc' = start_tsc /\ lapic' = lapic /\ time' = time /\ pc = "poll"
      BY <1>8 DEF SleepPoll, ReadEffect
    <3> QED  BY <1>1, <2>1, <3>1 DEF SleepSound, Waiting, IsClock, Calibrated, CalFreq, Count
  <2>2. CASE pc' = sleep.then
    <3>1. sleep.then \in {"calibrated", "measured", "run"}
      BY <1>1, <1>8 DEF SleepPoll, SleepSound, Waiting
    <3> QED  BY <1>2, <2>2, <3>1 DEF Waiting
  <2> QED  BY <1>8, <2>1, <2>2 DEF SleepPoll
<1>9. CASE Tick
  <2>1. CASE ~Waiting
    BY <1>2, <1>9, <2>1 DEF Tick, Waiting
  <2>2. CASE Waiting
    <3>1. /\ UNCHANGED <<machine, pc, sleep, lapic, start_tsc>> /\ time' = time + 1
          /\ gap' = gap + 1 /\ time \in Nat /\ gap \in Nat
      BY <1>1, <1>9, <2>2 DEF Tick, Waiting, counters, Basics
    <3>2. sleep.began \in Nat /\ sleep.began <= time
      BY <1>1, <2>2 DEF SleepSound
    <3>3. sleep.began <= time' /\ (time - sleep.began <= gap => time' - sleep.began <= gap')
      BY <3>1, <3>2
    <3> QED  BY <1>1, <2>2, <3>1, <3>3 DEF SleepSound, Waiting, IsClock, Calibrated, CalFreq, Count
  <2> QED  BY <2>1, <2>2
<1>10. CASE \/ HpetInit \/ PmTimerInit \/ TscDone \/ RtcInit \/ SetupBootClock
            \/ LapicProgram \/ KmainAbandoned \/ GettimeRealtime \/ ReadElapsed
            \/ \E s \in Seconds : GettimeMonotonic(s)
  <2>1. ~Waiting'
    BY <1>10 DEF HpetInit, PmTimerInit, TscDone, RtcInit, SetupBootClock, LapicProgram,
       KmainAbandoned, GettimeRealtime, ReadElapsed, GettimeMonotonic, Waiting
  <2> QED  BY <1>2, <2>1
<1> QED  BY <1>3, <1>4, <1>5, <1>6, <1>7, <1>8, <1>9, <1>10 DEF Next, KernelStep

-----------------------------------------------------------------------------
\* The LAPIC timer.

LEMMA LapicTicksFacts ==
  ASSUME Basics, time - lapic.started \in Nat
  PROVE  LET passed == Count(machine.lapic, time - lapic.started) IN
         /\ passed \in Nat /\ LapicTicks \in Nat /\ LapicTicks <= passed
         /\ passed < Word32 => LapicTicks = passed
<1>1. Count(machine.lapic, time - lapic.started) \in Nat
  BY TheMachine, Counting DEF Basics
<1> QED  BY <1>1, Units DEF LapicTicks, lapic_currcnt

LEMMA StepLapic == Sound /\ MeasureSound /\ [Next]_vars => LapicSound'
<1> SUFFICES ASSUME Sound, MeasureSound, [Next]_vars PROVE LapicSound'
  OBVIOUS
<1>1. CASE UNCHANGED lapic
  BY <1>1 DEF Sound, LapicSound
<1>2. CASE LapicStart
  BY <1>2 DEF LapicStart, Sound, LapicSound, Basics
<1>3. CASE LapicProgram
  <2>1. LapicTicks \in Nat
    BY <1>3, LapicTicksFacts DEF LapicProgram, MeasureSound, Sound
  <2> QED  BY <1>1, <1>3, <2>1 DEF LapicProgram, LapicSound
<1>4. CASE KmainAbandoned
  BY <1>4 DEF KmainAbandoned, LapicSound
<1> QED  BY <1>1, <1>2, <1>3, <1>4 DEF Next, KernelStep, vars, HpetInit, PmTimerInit, TscInit,
            TscDone, RtcInit, SetupBootClock, SleepStart, SleepPoll, Tick, ReadElapsed,
            GettimeRealtime, GettimeMonotonic, do_sys_nanosleep

-----------------------------------------------------------------------------
\* What the ticks of a clock say about time.

LEMMA HpetCounting ==
  ASSUME NEW h \in Nat \ {0}, NEW z \in Nat, NEW s \in Nat, NEW t \in Nat, z <= s, s <= t
  PROVE  LET d == ((t - z) \div h) - ((s - z) \div h) IN
         /\ d \in Nat /\ (t - z) \div h \in Nat /\ (s - z) \div h \in Nat
         /\ t - s > h * (d - 1)
         /\ t - s < h * (d + 1)
<1> DEFINE x == t - z
           y == s - z
           a == x \div h
           b == y \div h
           m == x % h
           n == y % h
<1>1. x \in Nat /\ y \in Nat /\ y <= x /\ t - s = x - y
  OBVIOUS
<1>2. /\ a \in Nat /\ b \in Nat /\ m \in Nat /\ n \in Nat /\ m < h /\ n < h
      /\ x = (h * a) + m /\ y = (h * b) + n
  <2> HIDE DEF x, y
  <2> QED  BY <1>1, Division
<1> HIDE DEF x, y, a, b, m, n
<1> DEFINE p == h * a
           q == h * b
<1>3. p \in Int /\ q \in Int /\ h * (a + 1) = p + h /\ x = p + m /\ y = q + n
  BY <1>2, Distribute
<1>4. q < h * (a + 1)
  <2> HIDE DEF p, q
  <2> QED  BY <1>1, <1>2, <1>3
<1>5. b < a + 1
  <2>1. b * h < (a + 1) * h
    BY <1>2, <1>4
  <2> QED  BY <1>2, <2>1, Scale
<1>6. a - b \in Nat
  BY <1>2, <1>5
<1>7. h * ((a - b) - 1) = (p - q) - h /\ h * ((a - b) + 1) = (p - q) + h
  <2>1. h * (a - b) = p - q
    BY <1>2, Distribute
  <2> DEFINE d == a - b
  <2>2. d \in Int /\ h * d = p - q
    BY <1>6, <2>1
  <2> HIDE DEF p, q, d
  <2>3. h * (d - 1) = (h * d) - (h * 1) /\ h * (d + 1) = (h * d) + (h * 1)
    BY <2>2, Distribute
  <2>4. h * (d - 1) = (p - q) - h /\ h * (d + 1) = (p - q) + h
    BY <2>2, <2>3
  <2> QED  BY <2>4 DEF d
<1>8. x - y > (p - q) - h /\ x - y < (p - q) + h
  <2> HIDE DEF p, q
  <2> QED  BY <1>2, <1>3
<1> QED  BY <1>1, <1>2, <1>6, <1>7, <1>8 DEF a, b, x, y

\* The true rate of a clock.
RateOf(id) == IF id = CLOCK_TSC THEN machine.tsc
              ELSE IF id = CLOCK_HPET THEN FS \div machine.hpet ELSE PM_TIMER_FREQ

LEMMA TicksOn ==
  ASSUME Basics, NEW id \in {CLOCK_TSC, CLOCK_HPET, CLOCK_PM_TIMER},
         id = CLOCK_HPET => machine.hpet > 0,
         NEW s \in Nat, NEW t \in Nat, hpetZero <= s, s <= t
  PROVE  LET d == TicksAt(id, t) - TicksAt(id, s) IN
         /\ d \in Nat /\ TicksAt(id, s) \in Nat /\ TicksAt(id, t) \in Nat
         /\ RateOf(id) \in Nat
         /\ (t - s) * RateOf(id) > FS * (d - 1)
         /\ (t - s) * RateOf(id) < FS * (d + 1)
<1> USE DEF CLOCK_TSC, CLOCK_HPET, CLOCK_PM_TIMER
<1>1. CASE id = CLOCK_TSC
  <2>1. machine.tsc \in Nat
    BY TheMachine DEF Basics
  <2>2. RateOf(id) = machine.tsc
    BY <1>1 DEF RateOf
  <2>3. TicksAt(id, t) = Count(machine.tsc, t) /\ TicksAt(id, s) = Count(machine.tsc, s)
    BY <1>1, TicksAtIs
  <2> QED  BY <2>1, <2>2, <2>3, Counting, CountingOn
<1>2. CASE id = CLOCK_PM_TIMER
  <2>1. RateOf(id) = PM_TIMER_FREQ /\ PM_TIMER_FREQ \in Nat
    BY <1>2, Units DEF RateOf
  <2>2. TicksAt(id, t) = Count(PM_TIMER_FREQ, t) /\ TicksAt(id, s) = Count(PM_TIMER_FREQ, s)
    BY <1>2, TicksAtIs
  <2> QED  BY <2>1, <2>2, Counting, CountingOn
<1>3. CASE id = CLOCK_HPET
  <2> DEFINE h == machine.hpet
             r == FS \div h
             d == TicksAt(id, t) - TicksAt(id, s)
             e == t - s
  <2>1. h \in Nat \ {0} /\ r \in Nat \ {0} /\ FS = h * r /\ RateOf(id) = r /\ hpetZero \in Nat
    BY <1>3, TheMachine DEF Basics, RateOf
  <2>2. TicksAt(id, t) = (t - hpetZero) \div h /\ TicksAt(id, s) = (s - hpetZero) \div h
    BY <1>3, TicksAtIs
  <2>3. /\ d \in Nat /\ TicksAt(id, s) \in Nat /\ TicksAt(id, t) \in Nat
        /\ e > h * (d - 1) /\ e < h * (d + 1) /\ e \in Nat
    <3> HIDE DEF h
    <3>1. LET g == ((t - hpetZero) \div h) - ((s - hpetZero) \div h) IN
          /\ g \in Nat /\ (t - hpetZero) \div h \in Nat /\ (s - hpetZero) \div h \in Nat
          /\ t - s > h * (g - 1)
          /\ t - s < h * (g + 1)
      BY <2>1, HpetCounting
    <3>2. e \in Nat
      OBVIOUS
    <3> QED  BY <2>2, <3>1, <3>2
  <2> HIDE DEF h, r, d, e
  <2>4. h * (d - 1) \in Int /\ h * (d + 1) \in Int
    BY <2>1, <2>3
  <2>5. (h * (d - 1)) * r < e * r /\ e * r < (h * (d + 1)) * r
    BY <2>1, <2>3, <2>4, Scale
  <2>6. (h * (d - 1)) * r = FS * (d - 1) /\ (h * (d + 1)) * r = FS * (d + 1)
    BY <2>1, <2>3
  <2>7. FS * (d - 1) < e * r /\ e * r < FS * (d + 1)
    BY <2>5, <2>6
  <2>8. e * r > FS * (d - 1)
    BY <2>1, <2>3, <2>7
  <2> QED  BY <2>1, <2>3, <2>7, <2>8 DEF d, e
<1> QED  BY <1>1, <1>2, <1>3

\* k ticks of a clock are a ns, less two of them.
LEMMA TicksToTime ==
  ASSUME NEW x \in Nat, NEW fs \in Nat, NEW ns \in Nat \ {0}, NEW k \in Nat, NEW af \in Nat,
         x > fs * (k - 1), af < ns * (k + 1), fs > 0
  PROVE  x * ns > fs * (af - 2 * ns)
<1> DEFINE p == fs * (k - 1)
           q == ns * (k - 1)
<1>1. p \in Int /\ q \in Int /\ p * ns = q * fs
  BY SMT
<1>2. p < x
  OBVIOUS
<1>3. ns * (k + 1) = (ns * k) + ns /\ q = (ns * k) - ns /\ ns * k \in Int
  BY Distribute
<1>4. af - 2 * ns < q
  <2> DEFINE nk == ns * k
  <2>1. nk \in Int /\ af < nk + ns /\ q = nk - ns
    BY <1>3
  <2> HIDE DEF nk, q
  <2> QED  BY <2>1
<1> HIDE DEF p, q
<1>5. p * ns < x * ns
  BY <1>1, <1>2, Scale
<1> DEFINE y == af - 2 * ns
<1>6. y \in Int /\ y < q
  BY <1>4
<1> HIDE DEF y
<1>7. y * fs < q * fs
  BY <1>1, <1>6, Scale
<1>8. fs * y < x * ns
  <2> DEFINE u == p * ns
             v == x * ns
             w == y * fs
  <2>1. u \in Int /\ v \in Int /\ w \in Int /\ u < v /\ w < u /\ fs * y = w
    BY <1>1, <1>5, <1>6, <1>7
  <2>2. w < v
    <3> HIDE DEF u, v, w
    <3> QED  BY <2>1
  <2> QED  BY <2>1, <2>2
<1>9. fs * y \in Int /\ x * ns \in Int
  BY <1>6
<1> QED  BY <1>8, <1>9 DEF y

\* The same on a clock whose frequency f was measured.
LEMMA MeasuredToTime ==
  ASSUME NEW x \in Nat, NEW fs \in Nat, NEW ns \in Nat, NEW a \in Nat, NEW f \in Nat,
         NEW c \in Nat \ {0}, NEW k \in Int,
         x * ns > fs * ((a * f) - 2 * ns), f * c > k
  PROVE  (x * ns) * c > fs * ((a * k) - (2 * ns) * c)
<1> DEFINE p == x * ns
           y == (a * f) - 2 * ns
           q == fs * y
<1>1. p \in Int /\ y \in Int /\ q \in Int /\ q < p
  BY SMT
<1>2. q * c < p * c
  <2> HIDE DEF p, q
  <2> QED  BY <1>1, Scale
<1>3. q * c = (y * c) * fs
  <2> HIDE DEF y
  <2> QED  BY <1>1
<1>4. y * c = (a * (f * c)) - (2 * ns) * c
  BY SMT
<1>5. a * k <= a * (f * c)
  <2> DEFINE m == f * c
  <2>1. m \in Int /\ k <= m
    BY SMT
  <2> HIDE DEF m
  <2>2. k * a <= m * a
    BY <2>1, Scale
  <2>3. a * k = k * a /\ a * m = m * a
    BY <2>1
  <2>4. a * k <= a * m
    BY <2>2, <2>3
  <2> QED  BY <2>4 DEF m
<1> DEFINE z == (a * k) - (2 * ns) * c
           v == y * c
<1>6. z \in Int /\ v \in Int /\ z <= v
  <2> DEFINE m == a * (f * c)
             n == (2 * ns) * c
             o == a * k
  <2>1. m \in Int /\ n \in Int /\ o \in Int /\ o <= m /\ v = m - n /\ z = o - n
    BY <1>4, <1>5
  <2> HIDE DEF m, n, o, v, z
  <2> QED  BY <2>1
<1>7. z * fs <= v * fs
  <2> HIDE DEF z, v
  <2> QED  BY <1>6, Scale
<1>8. fs * z < p * c
  <2> DEFINE u == p * c
             w == z * fs
             o == v * fs
  <2>1. u \in Int /\ w \in Int /\ o \in Int /\ fs * z = w
    <3> HIDE DEF p, z, v
    <3> QED  BY <1>1, <1>6
  <2>2. w <= o /\ o < u
    BY <1>2, <1>3, <1>7
  <2>3. w < u
    <3> HIDE DEF u, w, o
    <3> QED  BY <2>1, <2>2
  <2> QED  BY <2>1, <2>3
<1>9. fs * z \in Int /\ p * c \in Int
  <2> HIDE DEF p, z
  <2> QED  BY <1>1, <1>6
<1> QED
  <2> HIDE DEF z, p
  <2>1. p * c > fs * z
    BY <1>8, <1>9
  <2> QED  BY <2>1 DEF z, p

-----------------------------------------------------------------------------
\* The waiting loop.

LEMMA ModAdd ==
  ASSUME NEW a \in Int, NEW e \in Nat, NEW w \in Nat \ {0}
  PROVE  (a + e) % w <= (a % w) + e
<1>1. a % w \in Nat
  BY Division
<1>2. ((a % w) - (0 - e)) % w = (a - (0 - e)) % w
  <2>1. 0 - e \in Int
    OBVIOUS
  <2> QED  BY <2>1, ModSubRight
<1>3. (a % w) - (0 - e) = (a % w) + e /\ a - (0 - e) = a + e /\ (a % w) + e \in Nat
  BY <1>1
<1>4. ((a % w) + e) % w <= (a % w) + e
  BY <1>3, ModLe
<1> QED  BY <1>2, <1>3, <1>4

\* What the loop compares with the ticks it waits for is never more than passed.
LEMMA PolledTicks ==
  ASSUME Sound, Waiting, NEW ts \in sleep.began..time, hpetZero <= ts, Seen(ts)
  PROVE  LET id == sleep.clock.id
             d == TrueTicks(id) - TicksAt(id, ts)
             seen == (now(sleep.clock) - sleep.start) % Word
         IN /\ d \in Nat /\ seen \in Nat /\ seen <= d
            /\ (id = CLOCK_HPET /\ d < Word) => seen = d
<1> DEFINE id == sleep.clock.id
           a == TicksAt(id, time)
           b == TicksAt(id, ts)
           seen == (now(sleep.clock) - sleep.start) % Word
<1> USE DEF CLOCK_TSC, CLOCK_HPET, CLOCK_PM_TIMER
<1>1. /\ Basics /\ PmSound /\ IsClock(sleep.clock) /\ time \in Nat /\ ts \in Nat /\ ts <= time
      /\ sleep.start \in Nat /\ Word \in Nat \ {0}
  BY Units DEF Sound, SleepSound, Basics
<1>2. id \in {CLOCK_TSC, CLOCK_HPET, CLOCK_PM_TIMER} /\ (id = CLOCK_HPET => machine.hpet > 0)
  BY <1>1, ClockIds
<1>3. a - b \in Nat /\ a \in Nat /\ b \in Nat
  BY <1>1, <1>2, TicksOn
<1>4. seen = (a - b) % Word \/ (id = CLOCK_PM_TIMER /\ seen \in Nat /\ seen <= a - b)
  <2>1. CASE id = CLOCK_HPET
    <3>1. now(sleep.clock) = a % Word /\ sleep.start = b % Word
      BY <2>1, NowIs, TicksAtIs DEF hpet_read, Seen
    <3>2. ((a % Word) - (b % Word)) % Word = (a - b) % Word
      <4> HIDE DEF a, b
      <4>1. a \in Int /\ b \in Int
        BY <1>3
      <4> QED  BY <1>1, <4>1, ModSub, Zenon
    <3> QED  BY <3>1, <3>2
  <2>2. CASE id = CLOCK_TSC
    <3>1. tsc_base \in Int /\ a = Count(machine.tsc, time) /\ b = Count(machine.tsc, ts)
      BY <1>1, <2>2, TicksAtIs DEF Basics
    <3>2. now(sleep.clock) = ((a % Word) - tsc_base) % Word /\ sleep.start = (b - tsc_base) % Word
      BY <2>2, <3>1, NowIs DEF tsc_read, Rdtsc, Seen
    <3> HIDE DEF a, b
    <3>3. ((a % Word) - tsc_base) % Word = (a - tsc_base) % Word
      <4>1. a \in Int
        BY <1>3
      <4> QED  BY <1>1, <3>1, <4>1, ModSubRight, Zenon
    <3> DEFINE x == a - tsc_base
               y == b - tsc_base
    <3>4. x \in Int /\ y \in Int /\ x - y = a - b
      BY <1>3, <3>1
    <3>5. seen = ((x % Word) - (y % Word)) % Word
      BY <3>2, <3>3
    <3> HIDE DEF x, y
    <3>6. ((x % Word) - (y % Word)) % Word = (x - y) % Word
      BY <1>1, <3>4, ModSub, Zenon
    <3> QED  BY <3>4, <3>5, <3>6
  <2>3. CASE id = CLOCK_PM_TIMER
    <3> DEFINE e == Delta(pm_timer_read_raw)
               u == accumulated - sleep.start
    <3>1. /\ a = Count(PM_TIMER_FREQ, time) /\ b = Count(PM_TIMER_FREQ, ts)
          /\ now(sleep.clock) = (accumulated + e) % Word
      BY <2>3, NowIs, TicksAtIs DEF pm_timer_read
    <3>2. machine.pm # Absent
      BY <1>1, <2>3, ClockIds
    <3>3. e \in Nat /\ e <= a - pmTrue /\ pmTrue \in Nat /\ accumulated \in Nat
      BY <1>1, <3>1, <3>2, PmDelta DEF PmSound
    <3>4. u % Word <= pmTrue - b
      BY <2>3, <3>1 DEF Seen
    <3> HIDE DEF a, b, e
    <3>5. u \in Int /\ (accumulated + e) - sleep.start = u + e /\ accumulated + e \in Int
      BY <1>1, <3>3
    <3>6. seen = (u + e) % Word
      <4> DEFINE g == accumulated + e
      <4>1. g \in Int /\ sleep.start \in Int /\ g - sleep.start = u + e
        BY <1>1, <3>5
      <4>2. seen = ((g % Word) - sleep.start) % Word
        BY <3>1
      <4> HIDE DEF g
      <4>3. ((g % Word) - sleep.start) % Word = (g - sleep.start) % Word
        BY <1>1, <4>1, ModSubRight, Zenon
      <4> QED  BY <4>1, <4>2, <4>3
    <3> HIDE DEF u
    <3>7. (u + e) % Word <= (u % Word) + e /\ u % Word \in Nat /\ (u + e) % Word \in Nat
      <4>1. u + e \in Int
        BY <3>3, <3>5
      <4> QED  BY <1>1, <3>3, <3>5, <4>1, ModAdd, Division
    <3>8. (u + e) % Word <= a - b
      BY <1>3, <3>3, <3>4, <3>7
    <3> QED  BY <2>3, <3>6, <3>7, <3>8
  <2> QED  BY <1>2, <2>1, <2>2, <2>3
<1> DEFINE d == a - b
<1>5. d \in Nat /\ (seen = d % Word \/ (id = CLOCK_PM_TIMER /\ seen \in Nat /\ seen <= d))
  BY <1>3, <1>4
<1> HIDE DEF d, seen
<1>6. d % Word \in Nat /\ d % Word <= d /\ (d < Word => d % Word = d)
  BY <1>1, <1>5, ModLe, ModSmall
<1>7. d \in Nat /\ seen \in Nat /\ seen <= d /\ ((id = CLOCK_HPET /\ d < Word) => seen = d)
  BY <1>5, <1>6
<1> QED  BY <1>7 DEF d, seen, TrueTicks

\* The ticks a sleep waits for, when the product does not overflow.
LEMMA TicksAsked ==
  ASSUME Sound, Waiting, sleep.asked * sleep.clock.freq < Word
  PROVE  /\ sleep.ticks \in Nat
         /\ NS * sleep.ticks <= sleep.asked * sleep.clock.freq
         /\ sleep.asked * sleep.clock.freq < NS * (sleep.ticks + 1)
<1> DEFINE x == sleep.asked * sleep.clock.freq
           k == x \div NS
<1>1. sleep.asked \in Nat /\ sleep.clock.freq \in Nat /\ NS \in Nat \ {0} /\ Word \in Nat \ {0}
  BY Units, ClockIds DEF Sound, SleepSound
<1>2. x \in Nat /\ x < Word
  BY <1>1
<1>3. sleep.ticks = (x % Word) \div NS
  BY DEF Sound, SleepSound
<1> HIDE DEF x
<1>4. x % Word = x
  BY <1>1, <1>2, ModSmall
<1>5. k \in Nat /\ x % NS \in Nat /\ x % NS < NS /\ x = (NS * k) + (x % NS)
  <2>1. x \in Int
    BY <1>2
  <2> QED  BY <1>1, <1>2, <2>1, Division, Zenon
<1>6. sleep.ticks = k
  BY <1>3, <1>4
<1> HIDE DEF k
<1>7. NS * (k + 1) = (NS * k) + NS /\ NS * k \in Int
  BY <1>1, <1>5, Distribute
<1>8. NS * k <= x /\ x < NS * (k + 1)
  <2> DEFINE m == x % NS
             p == NS * k
  <2>1. m \in Nat /\ m < NS /\ p \in Int /\ x = p + m /\ NS * (k + 1) = p + NS
    BY <1>5, <1>7
  <2>2. p <= x /\ x < p + NS
    <3> HIDE DEF m, p
    <3> QED  BY <1>1, <1>2, <2>1
  <2> QED  BY <2>1, <2>2
<1> QED  BY <1>5, <1>6, <1>8 DEF x

LEMMA SleepIsLong ==
  ASSUME Sound, PollSound, pc = "poll", SleepOver, sleep.asked * sleep.clock.freq < Word
  PROVE  LongEnough(sleep.clock, sleep.asked, time - sleep.began)
<1> DEFINE id == sleep.clock.id
           f == sleep.clock.freq
           e == time - sleep.began
           k == sleep.ticks
           r == RateOf(id)
           a == sleep.asked
<1> USE DEF CLOCK_TSC, CLOCK_HPET, CLOCK_PM_TIMER
<1>1. PICK ts \in sleep.began..time : hpetZero <= ts /\ Seen(ts)
  BY DEF PollSound
<1>2. /\ Basics /\ Waiting /\ IsClock(sleep.clock) /\ a \in Nat /\ f \in Nat
      /\ sleep.began \in Nat /\ time \in Nat /\ ts \in Nat /\ ts <= time /\ sleep.began <= ts
      /\ NS \in Nat \ {0} /\ FS \in Nat \ {0}
  BY <1>1, Units, ClockIds DEF Sound, SleepSound, Basics, Waiting
<1>3. id \in {CLOCK_TSC, CLOCK_HPET, CLOCK_PM_TIMER} /\ (id = CLOCK_HPET => machine.hpet > 0)
  BY <1>2, ClockIds
<1>4. /\ k \in Nat /\ a * f < NS * (k + 1) /\ a * f \in Nat
  BY <1>2, TicksAsked
<1> DEFINE d == TrueTicks(id) - TicksAt(id, ts)
<1>5. d \in Nat /\ k <= d
  <2> DEFINE seen == (now(sleep.clock) - sleep.start) % Word
  <2>1. d \in Nat /\ seen \in Nat /\ seen <= d
    BY <1>1, <1>2, PolledTicks
  <2>2. ~(seen < k)
    BY DEF SleepOver
  <2> HIDE DEF d, seen, k
  <2> QED  BY <1>4, <2>1, <2>2
<1>6. r \in Nat /\ (time - ts) * r > FS * (d - 1)
  BY <1>1, <1>2, <1>3, TicksOn DEF TrueTicks
<1>7. e * r > FS * (k - 1) /\ e * r \in Nat /\ e \in Nat
  <2> DEFINE g == time - ts
  <2>1. g \in Nat /\ e \in Nat /\ g <= e /\ g * r > FS * (d - 1)
    BY <1>2, <1>6
  <2> HIDE DEF g, e, d, r, k
  <2>2. g * r <= e * r /\ g * r \in Nat /\ e * r \in Nat
    BY <1>6, <2>1, Scale
  <2>3. (k - 1) * FS <= (d - 1) * FS /\ (k - 1) * FS \in Int /\ (d - 1) * FS \in Int
    <3> DEFINE u == k - 1
               v == d - 1
    <3>1. u \in Int /\ v \in Int /\ u <= v
      BY <1>4, <1>5
    <3> HIDE DEF u, v
    <3>2. u * FS <= v * FS /\ u * FS \in Int /\ v * FS \in Int
      BY <1>2, <3>1, Scale
    <3> QED  BY <3>2 DEF u, v
  <2>4. FS * (k - 1) = (k - 1) * FS /\ FS * (d - 1) = (d - 1) * FS
    BY <1>2, <1>4, <1>5
  <2> DEFINE u == (k - 1) * FS
             v == (d - 1) * FS
             x == g * r
             y == e * r
  <2>5. u \in Int /\ v \in Int /\ x \in Nat /\ y \in Nat /\ u <= v /\ x <= y /\ x > v
        /\ FS * (k - 1) = u
    BY <2>1, <2>2, <2>3, <2>4
  <2>6. y > u
    <3> HIDE DEF u, v, x, y
    <3> QED  BY <2>5
  <2> QED  BY <2>1, <2>5, <2>6
<1>8. (e * r) * NS > FS * ((a * f) - 2 * NS)
  <2> DEFINE x == e * r
             af == a * f
  <2>1. x \in Nat /\ x > FS * (k - 1) /\ af \in Nat /\ af < NS * (k + 1) /\ FS > 0 /\ FS \in Nat
    BY <1>2, <1>4, <1>7
  <2>2. x * NS > FS * (af - 2 * NS)
    <3> HIDE DEF x, af, k
    <3> QED  BY <1>2, <1>4, <2>1, TicksToTime
  <2> QED  BY <2>2
<1>9. CASE id # CLOCK_TSC
  <2>1. r = f
    BY <1>2, <1>3, <1>9, ClockIds DEF RateOf
  <2> QED  BY <1>8, <1>9, <2>1 DEF LongEnough
<1>10. CASE id = CLOCK_TSC
  <2> DEFINE K == (machine.tsc * CalFreq - 20 * machine.tsc) - 10 * CalFreq
             x == e * r
             C == CalFreq
  <2>1. r = machine.tsc /\ machine.tsc \in Nat /\ C \in Nat \ {0}
    BY <1>2, <1>10, TheMachine DEF RateOf, Basics
  <2>2. f * C > K
    BY <1>2, <1>10, ClockIds DEF Calibrated
  <2>3. K \in Int
    BY <2>1
  <2>4. x \in Nat /\ x * NS > FS * ((a * f) - 2 * NS)
    BY <1>7, <1>8
  <2>5. (x * NS) * C > FS * ((a * K) - (2 * NS) * C)
    <3> HIDE DEF x, C, K, a, f
    <3> QED  BY <1>2, <2>1, <2>2, <2>3, <2>4, MeasuredToTime
  <2> QED  BY <1>10, <2>1, <2>5 DEF LongEnough
<1> QED  BY <1>9, <1>10

\* The HPET does not come round within MaxTime.
LEMMA HpetFits ==
  ASSUME Basics, machine.hpet > 0, NEW ts \in Nat, hpetZero <= ts, ts <= time
  PROVE  /\ TicksAt(CLOCK_HPET, time) \in Nat /\ TicksAt(CLOCK_HPET, ts) \in Nat
         /\ TicksAt(CLOCK_HPET, time) < Word
         /\ TicksAt(CLOCK_HPET, time) - TicksAt(CLOCK_HPET, ts) \in Nat
<1> DEFINE h == machine.hpet
           x == time - hpetZero
           a == x \div h
<1>1. /\ time \in Nat /\ time <= MaxTime /\ hpetZero \in Nat /\ hpetZero <= time
      /\ h \in Nat \ {0} /\ MaxTime \in Nat /\ Word \in Nat \ {0} /\ MaxTime < Word * h
  BY TheMachine, Units, WidthAssumption DEF Basics
<1>2. a = TicksAt(CLOCK_HPET, time)
  BY TicksAtIs
<1>3. /\ a - TicksAt(CLOCK_HPET, ts) \in Nat /\ TicksAt(CLOCK_HPET, ts) \in Nat
  BY <1>1, <1>2, TicksOn
<1>4. x \in Nat /\ x <= MaxTime
  BY <1>1
<1> HIDE DEF h, x
<1>5. a \in Nat /\ x % h \in Nat /\ x = (h * a) + (x % h)
  <2>1. x \in Int
    BY <1>4
  <2> QED  BY <1>1, <1>4, <2>1, Division, Zenon
<1> HIDE DEF a
<1>6. a * h < Word * h
  <2> DEFINE p == h * a
             m == x % h
             w == Word * h
  <2>1. p \in Int /\ m \in Nat /\ w \in Int /\ x = p + m /\ MaxTime < w /\ a * h = p
    BY <1>1, <1>5
  <2>2. p < w
    <3> HIDE DEF p, m, w
    <3> QED  BY <1>1, <1>4, <2>1
  <2> QED  BY <2>1, <2>2
<1>7. a < Word
  BY <1>1, <1>5, <1>6, Scale
<1> QED  BY <1>2, <1>3, <1>5, <1>7

LEMMA PollBegins ==
  ASSUME Sound, SleepStart, machine' = machine
  PROVE  PollSound'
<1> USE DEF CLOCK_TSC, CLOCK_HPET, CLOCK_PM_TIMER
<1>1. /\ pc = "start" /\ Waiting /\ IsClock(sleep.clock) /\ pc' = "poll" /\ time' = time
      /\ gap' = 0 /\ hpetZero' = hpetZero /\ tsc_base' = tsc_base /\ Basics /\ PmSound
      /\ time \in Nat /\ hpetZero \in Nat /\ hpetZero <= time /\ Word \in Nat \ {0}
  BY Units DEF SleepStart, ReadEffect, Waiting, Sound, SleepSound, Basics
<1>2. /\ sleep'.clock = sleep.clock /\ sleep'.ticks = sleep.ticks
      /\ sleep'.start = now(sleep.clock) /\ sleep'.then = sleep.then
      /\ sleep'.began = sleep.began
  BY <1>1 DEF SleepStart, Sound, SleepSound
<1>3. sleep.began \in Nat /\ sleep.began <= time
  BY <1>1 DEF Sound, SleepSound
<1>4. time \in sleep'.began..time'
  BY <1>1, <1>2, <1>3
<1>5. sleep'.then = "measured" => time - sleep'.began <= PollGap
  <2>1. sleep.then = "measured" => time - sleep.began <= gap
    BY <1>1 DEF Sound, SleepSound
  <2>2. gap \in Nat /\ gap <= PollGap /\ PollGap \in Nat
    BY <1>1, Units DEF Basics
  <2> QED  BY <1>1, <1>2, <1>3, <2>1, <2>2
<1>6. NotOver(time, time)' /\ time' \in time'..time'
  BY <1>1 DEF NotOver
<1>7. Seen(time)'
  <2>1. CASE sleep.clock.id = CLOCK_HPET
    <3>1. sleep'.start = TicksAt(CLOCK_HPET, time) % Word
      BY <1>2, <2>1, NowIs, TicksAtIs DEF hpet_read
    <3>2. TicksAt(CLOCK_HPET, time)' = TicksAt(CLOCK_HPET, time)
      BY <1>1 DEF TicksAt
    <3> QED  BY <1>2, <2>1, <3>1, <3>2 DEF Seen
  <2>2. CASE sleep.clock.id = CLOCK_TSC
    <3> DEFINE a == Count(machine.tsc, time)
    <3>0. machine.tsc \in Nat /\ tsc_base \in Nat
      BY <1>1, TheMachine DEF Basics
    <3>1. a \in Int /\ tsc_base \in Int
      <4>1. a \in Nat
        BY <1>1, <3>0, Counting, Zenon
      <4> HIDE DEF a
      <4> QED  BY <3>0, <4>1
    <3>2. sleep'.start = ((a % Word) - tsc_base) % Word
      BY <1>2, <2>2, NowIs DEF tsc_read, Rdtsc
    <3>3. Count(machine.tsc, time)' = a
      BY <1>1 DEF Count
    <3> HIDE DEF a
    <3>4. ((a % Word) - tsc_base) % Word = (a - tsc_base) % Word
      BY <1>1, <3>1, ModSubRight, Zenon
    <3> QED  BY <1>1, <1>2, <2>2, <3>2, <3>3, <3>4 DEF Seen
  <2>3. CASE sleep.clock.id = CLOCK_PM_TIMER
    <3> DEFINE n == Count(PM_TIMER_FREQ, time)
    <3>1. accumulated' = pm_timer_read /\ pmTrue' = n
      BY <2>3, TicksAtIs DEF SleepStart, ReadEffect, TrueTicks
    <3>2. sleep'.start = pm_timer_read
      BY <1>2, <2>3, NowIs
    <3>3. pm_timer_read \in Nat /\ n \in Nat
      <4>1. machine.pm # Absent
        BY <1>1, <2>3, ClockIds
      <4> QED  BY <1>1, <4>1, PmRead, Counting, Units
    <3>4. Count(PM_TIMER_FREQ, time)' = n
      BY <1>1 DEF Count
    <3>5. accumulated' - sleep'.start = 0 /\ 0 % Word = 0 /\ n - n = 0 /\ n <= n
      <4>1. 0 \in Nat /\ 0 < Word
        BY <1>1
      <4>2. 0 % Word = 0
        BY <1>1, <4>1, ModSmall
      <4> HIDE DEF n
      <4> QED  BY <3>1, <3>2, <3>3, <4>2
    <3> HIDE DEF n
    <3>6. (accumulated' - sleep'.start) % Word <= pmTrue' - n
      BY <3>1, <3>5
    <3> QED  BY <1>2, <2>3, <3>1, <3>4, <3>5, <3>6 DEF Seen
  <2> QED  BY <1>1, <2>1, <2>2, <2>3, ClockIds
<1>8. hpetZero' <= time' /\ Seen(time)' /\ NotOver(time, time)' /\ time' \in sleep'.began..time'
      /\ (sleep'.then = "measured" => time' - sleep'.began <= PollGap)
  BY <1>1, <1>4, <1>5, <1>6, <1>7
<1>9. PICK u : u = time'
  OBVIOUS
<1>10. Seen(u)' /\ NotOver(u, u)' /\ u \in sleep'.began..time' /\ hpetZero' <= u
       /\ u \in u..time' /\ (sleep'.then = "measured" => u - sleep'.began <= PollGap)
  <2>1. Seen(u)' /\ NotOver(u, u)'
    BY <1>8, <1>9 DEF Seen, NotOver
  <2> QED  BY <1>6, <1>8, <1>9, <2>1
<1> QED  BY <1>1, <1>10 DEF PollSound

LEMMA PollGoesOn ==
  ASSUME Sound, PollSound, SleepPoll, UNCHANGED <<pc, sleep>>, ~SleepOver, machine' = machine
  PROVE  PollSound'
<1> USE DEF CLOCK_TSC, CLOCK_HPET, CLOCK_PM_TIMER
<1>1. /\ pc = "poll" /\ Waiting /\ IsClock(sleep.clock) /\ pc' = "poll" /\ time' = time
      /\ gap' = 0 /\ hpetZero' = hpetZero /\ tsc_base' = tsc_base /\ Basics /\ PmSound
      /\ time \in Nat /\ sleep' = sleep
  BY DEF SleepPoll, ReadEffect, Waiting, Sound, SleepSound, Basics
<1>2. PICK ts \in sleep.began..time :
        /\ hpetZero <= ts
        /\ Seen(ts)
        /\ sleep.then = "measured" => ts - sleep.began <= PollGap
  BY <1>1 DEF PollSound
<1>3. ts \in Nat /\ ts <= time
  <2>1. sleep.began \in Nat
    BY <1>1 DEF Sound, SleepSound
  <2> QED  BY <1>1, <1>2, <2>1
<1> DEFINE id == sleep.clock.id
           d == TrueTicks(id) - TicksAt(id, ts)
           seen == (now(sleep.clock) - sleep.start) % Word
<1>4. d \in Nat /\ seen \in Nat /\ seen <= d /\ ((id = CLOCK_HPET /\ d < Word) => seen = d)
  BY <1>1, <1>2, PolledTicks
<1>5. Seen(ts)'
  <2>1. CASE id = CLOCK_PM_TIMER
    <3> DEFINE n == Count(PM_TIMER_FREQ, time)
               b == Count(PM_TIMER_FREQ, ts)
    <3>1. accumulated' = pm_timer_read /\ pmTrue' = n
      BY <2>1, TicksAtIs DEF SleepPoll, ReadEffect, TrueTicks
    <3>2. seen = (pm_timer_read - sleep.start) % Word /\ d = n - b
      BY <2>1, NowIs, TicksAtIs DEF TrueTicks
    <3>3. n \in Nat /\ b \in Nat /\ Count(PM_TIMER_FREQ, ts)' = b
      BY <1>1, <1>3, Counting, Units DEF Count
    <3>4. b <= pmTrue' /\ (accumulated' - sleep.start) % Word <= pmTrue' - b
      <4>1. b <= n
        <5> HIDE DEF n, b
        <5> QED  BY <1>4, <3>2, <3>3
      <4> QED  BY <1>4, <3>1, <3>2, <4>1
    <3> QED  BY <1>1, <2>1, <3>3, <3>4 DEF Seen
  <2>2. CASE id # CLOCK_PM_TIMER
    <3>1. TicksAt(CLOCK_HPET, ts)' = TicksAt(CLOCK_HPET, ts)
          /\ Count(machine.tsc, ts)' = Count(machine.tsc, ts)
      BY <1>1 DEF TicksAt, Count
    <3> QED  BY <1>1, <1>2, <2>2, <3>1 DEF Seen
  <2> QED  BY <2>1, <2>2
<1>6. sleep.then = "measured" => NotOver(ts, time)' /\ time \in ts..time
  <2> SUFFICES ASSUME sleep.then = "measured" PROVE NotOver(ts, time)' /\ time \in ts..time
    OBVIOUS
  <2>1. id = CLOCK_HPET
    BY <1>1 DEF Sound, SleepSound
  <2>2. machine.hpet > 0
    BY <1>1, <2>1, ClockIds
  <2>3. /\ TicksAt(CLOCK_HPET, time) \in Nat /\ TicksAt(CLOCK_HPET, ts) \in Nat
        /\ TicksAt(CLOCK_HPET, time) < Word
    BY <1>1, <1>2, <1>3, <2>2, HpetFits
  <2>4. d = TicksAt(CLOCK_HPET, time) - TicksAt(CLOCK_HPET, ts) /\ d < Word
    BY <2>1, <2>3, Units DEF TrueTicks
  <2>5. d < sleep.ticks
    BY <1>4, <2>1, <2>4 DEF SleepOver
  <2>6. TicksAt(CLOCK_HPET, time)' = TicksAt(CLOCK_HPET, time)
        /\ TicksAt(CLOCK_HPET, ts)' = TicksAt(CLOCK_HPET, ts)
    BY <1>1 DEF TicksAt
  <2>7. time' - time' <= gap'
    BY <1>1
  <2> QED  BY <1>1, <1>3, <2>4, <2>5, <2>6, <2>7 DEF NotOver
<1>7. PICK u : u = time'
  OBVIOUS
<1>8. sleep'.then = "measured" => NotOver(ts, u)' /\ u \in ts..time'
  <2>1. NotOver(ts, time)' => NotOver(ts, u)'
    BY <1>7 DEF NotOver
  <2> QED  BY <1>1, <1>6, <1>7, <2>1
<1> QED  BY <1>1, <1>2, <1>5, <1>8 DEF PollSound

LEMMA StepPoll == Sound /\ PollSound /\ [Next]_vars => PollSound'
<1> SUFFICES ASSUME Sound, PollSound, [Next]_vars PROVE PollSound'
  OBVIOUS
<1>1. Basics /\ Basics' /\ machine' = machine
  BY Frame, StepBasics DEF Framed, Sound
<1>2. ASSUME pc' # "poll" PROVE PollSound'
  BY <1>2 DEF PollSound
<1>3. CASE UNCHANGED vars
  BY <1>3 DEF vars, counters, PollSound, Seen, NotOver, TicksAt, Count
<1>4. CASE SleepStart
  BY <1>1, <1>4, PollBegins
<1>5. CASE SleepPoll
  <2>1. CASE SleepOver
    <3>1. sleep.then \in {"calibrated", "measured", "run"} /\ pc' = sleep.then
      BY <1>5, <2>1 DEF SleepPoll, Sound, SleepSound, Waiting
    <3> QED  BY <1>2, <3>1
  <2>2. CASE ~SleepOver
    <3>1. UNCHANGED <<pc, sleep>>
      BY <1>5, <2>2 DEF SleepPoll
    <3> QED  BY <1>1, <1>5, <2>2, <3>1, PollGoesOn
  <2> QED  BY <2>1, <2>2
<1>6. CASE Tick
  <2>1. CASE pc # "poll"
    BY <1>2, <1>6, <2>1 DEF Tick
  <2>2. CASE pc = "poll"
    <3>1. /\ UNCHANGED <<machine, pc, sleep, hpetZero, tsc_base, accumulated, pmTrue>>
          /\ time' = time + 1 /\ gap' = gap + 1 /\ time \in Nat /\ gap \in Nat
      BY <1>1, <1>6, <2>2 DEF Tick, counters, Basics
    <3>2. sleep.began \in Nat
      BY <2>2 DEF Sound, SleepSound, Waiting
    <3>3. PICK ts \in sleep.began..time :
            /\ hpetZero <= ts
            /\ Seen(ts)
            /\ sleep.then = "measured" =>
                 ts - sleep.began <= PollGap /\ \E tp \in ts..time : NotOver(ts, tp)
      BY <2>2 DEF PollSound
    <3>4. Seen(ts)' /\ ts \in sleep'.began..time'
      BY <3>1, <3>2, <3>3 DEF Seen, TicksAt, Count
    <3>5. ASSUME NEW tp \in ts..time, NotOver(ts, tp)
          PROVE  NotOver(ts, tp)' /\ tp \in ts..time'
      <4>1. tp \in Int /\ time - tp <= gap
        BY <3>2, <3>3, <3>5 DEF NotOver
      <4>2. time' - tp <= gap' /\ tp \in ts..time'
        BY <3>1, <3>2, <3>3, <4>1
      <4>3. TicksAt(CLOCK_HPET, tp)' = TicksAt(CLOCK_HPET, tp)
            /\ TicksAt(CLOCK_HPET, ts)' = TicksAt(CLOCK_HPET, ts)
        BY <3>1 DEF TicksAt
      <4> QED  BY <3>1, <3>5, <4>2, <4>3 DEF NotOver
    <3> QED  BY <3>1, <3>3, <3>4, <3>5 DEF PollSound
  <2> QED  BY <2>1, <2>2
<1>7. CASE \/ HpetInit \/ PmTimerInit \/ TscInit \/ TscDone \/ RtcInit \/ SetupBootClock
           \/ LapicStart \/ LapicProgram \/ KmainAbandoned \/ GettimeRealtime \/ ReadElapsed
           \/ (\E s \in Seconds : GettimeMonotonic(s)) \/ \E s \in Sleeps : do_sys_nanosleep(s)
  <2>1. pc' # "poll"
    BY <1>7 DEF HpetInit, PmTimerInit, TscInit, TscDone, RtcInit, SetupBootClock, LapicProgram,
       LapicStart, KmainAbandoned, GettimeRealtime, ReadElapsed, GettimeMonotonic,
       do_sys_nanosleep, busy_sleep_best_ns, busy_sleep_ns
  <2> QED  BY <1>2, <2>1
<1> QED  BY <1>3, <1>4, <1>5, <1>6, <1>7 DEF Next, KernelStep

\* A sleep for the calibration is a tenth of a second, to two ticks.
LEMMA CalibrationWait ==
  ASSUME Sound, PollSound, pc = "poll", SleepOver, sleep.then = "calibrated"
  PROVE  10 * ((time - sleep.began) * CalFreq) > FS * (CalFreq - 20)
<1> DEFINE e == time - sleep.began
           f == CalFreq
           a == NS \div 10
<1>1. /\ sleep.asked = a /\ sleep.clock.id # CLOCK_TSC /\ sleep.clock.freq = f
      /\ e \in Nat /\ f \in Nat \ {0} /\ machine \in Machines
  BY TheMachine DEF Sound, SleepSound, Waiting, Basics
<1>2. a \in Nat \ {0} /\ NS = 10 * a /\ FS \in Nat \ {0} /\ NS \in Nat
  BY Units, UnitAssumption
<1>3. a * f < Word
  BY <1>1, WidthAssumption DEF CalFreq
<1>4. (e * f) * NS > FS * ((a * f) - 2 * NS)
  <2>1. LongEnough(sleep.clock, sleep.asked, e)
    BY <1>1, <1>3, SleepIsLong
  <2> QED  BY <1>1, <2>1 DEF LongEnough
<1> HIDE DEF e, f, a
<1>5. (e * f) * NS = (10 * (e * f)) * a /\ (a * f) - 2 * NS = (f - 20) * a
  BY <1>1, <1>2
<1> DEFINE x == 10 * (e * f)
           y == f - 20
<1>6. x \in Int /\ y \in Int /\ x * a > FS * (y * a)
  BY <1>1, <1>4, <1>5
<1> HIDE DEF x, y
<1> DEFINE z == FS * y
<1>7. z \in Int /\ FS * (y * a) = z * a
  BY <1>2, <1>6
<1>8. z * a < x * a
  <2>1. x * a \in Int /\ z * a \in Int
    BY <1>2, <1>6, <1>7
  <2> QED  BY <1>6, <1>7, <2>1
<1> HIDE DEF z
<1>9. z < x
  BY <1>2, <1>6, <1>7, <1>8, Scale
<1> QED  BY <1>6, <1>7, <1>9 DEF x, y, z, e, f

\* The measurement of the LAPIC timer took its time and not much longer.
LEMMA MeasureWait ==
  ASSUME Sound, PollSound, pc = "poll", SleepOver, sleep.then = "measured"
  PROVE  LET hf == FS \div machine.hpet
             passed == time - sleep.began
         IN /\ passed \in Nat /\ machine.hpet > 0
            /\ passed * hf * NS > FS * (LapicNs * hf - 2 * NS)
            /\ passed * NS <= LapicNs * FS + 2 * PollGap * NS
<1> DEFINE h == machine.hpet
           hf == FS \div h
           k == sleep.ticks
<1> USE DEF CLOCK_TSC, CLOCK_HPET
<1>1. /\ Basics /\ Waiting /\ IsClock(sleep.clock)
      /\ sleep.asked = LapicNs /\ sleep.clock.id = CLOCK_HPET
      /\ sleep.began \in Nat /\ sleep.began <= time /\ time \in Nat /\ machine \in Machines
      /\ hpetZero \in Nat /\ gap \in Nat /\ gap <= PollGap
  BY DEF Sound, SleepSound, Waiting, Basics
<1>2. machine.hpet > 0 /\ sleep.clock.freq = hf
  BY <1>1, ClockIds
<1>3. h \in Nat \ {0} /\ hf \in Nat \ {0} /\ FS = h * hf /\ FS \in Nat \ {0} /\ NS \in Nat \ {0}
      /\ LapicNs \in Nat /\ PollGap \in Nat /\ Word \in Nat
  BY <1>1, <1>2, TheMachine, Units
<1>4. LapicNs * hf < Word
  <2>1. LapicNs * hf + PollGap + 1 < Word
    BY <1>1, <1>2, WidthAssumption
  <2> DEFINE x == LapicNs * hf
  <2>2. x \in Nat /\ x + PollGap + 1 < Word
    BY <1>3, <2>1
  <2> HIDE DEF x
  <2>3. x < Word
    BY <1>3, <2>2
  <2> QED  BY <2>3 DEF x
<1>5. (time - sleep.began) * hf * NS > FS * (LapicNs * hf - 2 * NS)
  <2>1. LongEnough(sleep.clock, sleep.asked, time - sleep.began)
    BY <1>1, <1>2, <1>4, SleepIsLong
  <2> QED  BY <1>1, <1>2, <2>1 DEF LongEnough
<1>6. k \in Nat /\ NS * k <= LapicNs * hf
  BY <1>1, <1>2, <1>4, TicksAsked
<1>7. PICK ts \in sleep.began..time :
        /\ hpetZero <= ts /\ ts - sleep.began <= PollGap /\ \E tp \in ts..time : NotOver(ts, tp)
  BY DEF PollSound
<1>8. PICK tp \in ts..time : NotOver(ts, tp)
  BY <1>7
<1>9. ts \in Nat /\ tp \in Nat /\ sleep.began <= ts /\ ts <= tp /\ tp <= time
  BY <1>1, <1>7, <1>8
<1>10. time - tp <= PollGap
  BY <1>1, <1>3, <1>8, <1>9 DEF NotOver
<1>11. tp - ts <= h * k
  <2>1. CASE tp = ts
    <3>1. h * k \in Nat
      BY <1>3, <1>6
    <3> QED  BY <1>9, <2>1, <3>1
  <2>2. CASE tp # ts
    <3> DEFINE d == ((tp - hpetZero) \div h) - ((ts - hpetZero) \div h)
    <3>1. d < k
      BY <1>8, <2>2, TicksAtIs DEF NotOver
    <3>2. d \in Nat /\ tp - ts < h * (d + 1)
      <4> HIDE DEF h
      <4> QED  BY <1>1, <1>3, <1>7, <1>9, HpetCounting
    <3> HIDE DEF d, h, k
    <3>3. d + 1 \in Int /\ d + 1 <= k
      BY <1>6, <3>1, <3>2
    <3>4. (d + 1) * h <= k * h
      BY <1>3, <1>6, <3>3, Scale
    <3>5. h * (d + 1) = (d + 1) * h /\ h * k = k * h /\ h * k \in Int /\ h * (d + 1) \in Int
      BY <1>3, <1>6, <3>2
    <3> QED  BY <1>9, <3>2, <3>4, <3>5
  <2> QED  BY <2>1, <2>2
<1> HIDE DEF h, hf, k
<1>12. (h * k) * NS <= LapicNs * FS
  <2> DEFINE x == NS * k
             y == LapicNs * hf
  <2>1. x \in Int /\ y \in Int /\ x <= y
    BY <1>3, <1>6
  <2>2. (h * k) * NS = x * h /\ LapicNs * FS = y * h
    BY <1>3, <1>6
  <2> HIDE DEF x, y
  <2>3. x * h <= y * h
    BY <1>3, <2>1, Scale
  <2> QED  BY <2>2, <2>3
<1>13. (time - sleep.began) * NS <= LapicNs * FS + 2 * PollGap * NS
  <2> DEFINE x == time - sleep.began
             m == h * k
             g == 2 * PollGap
  <2>1. x \in Int /\ m \in Int /\ g \in Int /\ x <= m + g
    <3>1. m \in Int
      BY <1>3, <1>6
    <3> HIDE DEF m
    <3>2. tp - ts <= m
      BY <1>11 DEF m
    <3> QED  BY <1>1, <1>3, <1>7, <1>9, <1>10, <3>1, <3>2
  <2>2. m * NS <= LapicNs * FS
    BY <1>12
  <2> HIDE DEF x, m, g
  <2>3. x * NS <= (m + g) * NS
    <3> DEFINE n == m + g
    <3>1. n \in Int /\ x <= n
      BY <2>1
    <3> HIDE DEF n
    <3>2. x * NS <= n * NS
      BY <1>3, <2>1, <3>1, Scale
    <3> QED  BY <3>2 DEF n
  <2>4. (m + g) * NS = (m * NS) + (g * NS)
    BY <1>3, <2>1
  <2>5. m * NS \in Int /\ g * NS \in Int /\ x * NS \in Int /\ LapicNs * FS \in Int
    BY <1>3, <2>1
  <2>6. x * NS <= LapicNs * FS + (g * NS)
    <3> DEFINE o == m * NS
               p == g * NS
               q == x * NS
               r == LapicNs * FS
    <3>1. o \in Int /\ p \in Int /\ q \in Int /\ r \in Int /\ q <= o + p /\ o <= r
      BY <2>2, <2>3, <2>4, <2>5
    <3>2. q <= r + p
      <4> HIDE DEF o, p, q, r
      <4> QED  BY <3>1
    <3> QED  BY <3>2
  <2> QED  BY <2>6 DEF x, g
<1> QED  BY <1>1, <1>2, <1>5, <1>13 DEF h, hf

\* What lapic_timer_start programs is within TickPeriod.
LEMMA CountSums ==
  ASSUME NEW fs \in Nat \ {0}, NEW ns \in Nat \ {0}, NEW hf \in Nat \ {0}, NEW l \in Nat,
         NEW e \in Nat, NEW c \in Nat, NEW L \in Nat, NEW b \in Nat,
         fs * c <= e * l, e * l < fs * (c + 1),
         (e * hf) * ns > fs * (L * hf - 2 * ns), e * ns <= b
  PROVE  /\ c * hf * ns > L * l * hf - 2 * l * ns - hf * ns
         /\ c * (fs * ns) <= l * b
<1>1. c * (fs * ns) <= l * b
  <2> DEFINE p == fs * c
             q == e * l
             r == e * ns
  <2>1. p \in Int /\ q \in Int /\ r \in Int /\ p <= q /\ r <= b
    BY SMT
  <2>2. c * (fs * ns) = p * ns /\ q * ns = r * l /\ l * b = b * l
    BY SMT
  <2> HIDE DEF p, q, r
  <2>3. p * ns <= q * ns /\ r * l <= b * l
    BY <2>1, Scale
  <2>4. p * ns \in Int /\ q * ns \in Int /\ r * l \in Int /\ b * l \in Int
    BY <2>1
  <2> DEFINE u == p * ns
             v == q * ns
             w == b * l
  <2>5. u \in Int /\ v \in Int /\ w \in Int /\ u <= v /\ v <= w /\ c * (fs * ns) = u /\ l * b = w
    BY <2>2, <2>3, <2>4
  <2>6. u <= w
    <3> HIDE DEF u, v, w
    <3> QED  BY <2>5
  <2> QED  BY <2>5, <2>6
<1>2. L * l * hf - 2 * l * ns - hf * ns < c * hf * ns
  <2> DEFINE p == e * l
             g == hf * ns
             y == L * hf - 2 * ns
             q == (e * hf) * ns
  <2>1. p \in Int /\ g \in Nat \ {0} /\ y \in Int /\ q \in Int /\ fs * (c + 1) \in Int
        /\ p < fs * (c + 1) /\ fs * y < q /\ fs * y \in Int
    BY SMT
  <2>2. p * g = q * l
    BY SMT
  <2> HIDE DEF p, y, q, g
  <2>3. p * g < (fs * (c + 1)) * g
    BY <2>1, Scale
  <2>4. (fs * y) * l <= q * l
    <3> DEFINE z == fs * y
    <3>1. z \in Int /\ z <= q
      BY <2>1
    <3> HIDE DEF z
    <3>2. z * l <= q * l
      BY <2>1, <3>1, Scale
    <3> QED  BY <3>2 DEF z
  <2>5. (fs * (c + 1)) * g = ((c + 1) * g) * fs /\ (fs * y) * l = (y * l) * fs
    BY <2>1
  <2> DEFINE u == y * l
             v == (c + 1) * g
  <2>6. u \in Int /\ v \in Int
    BY <2>1
  <2>7. u * fs < v * fs
    <3> DEFINE a == u * fs
               o == v * fs
               m == p * g
    <3>1. a \in Int /\ o \in Int /\ m \in Int
      <4> HIDE DEF u, v
      <4> QED  BY <2>1, <2>6
    <3>2. m < o /\ a <= m
      BY <2>2, <2>3, <2>4, <2>5
    <3>3. a < o
      <4> HIDE DEF a, o, m
      <4> QED  BY <3>1, <3>2
    <3> QED  BY <3>3
  <2>8. u < v
    <3> HIDE DEF u, v
    <3> QED  BY <2>6, <2>7, Scale
  <2>9. v = (c * g) + g /\ c * g \in Int
    BY <2>1
  <2>10. u = ((L * l) * hf) - ((2 * l) * ns)
    BY DEF y
  <2>11. c * g = (c * hf) * ns
    BY DEF g
  <2> DEFINE s == (L * l) * hf
             t == (2 * l) * ns
             w == (c * hf) * ns
  <2>12. s \in Int /\ t \in Int /\ w \in Int
    BY SMT
  <2>13. (s - t) - g < w
    <3> HIDE DEF s, t, w, u, v
    <3>1. u = s - t /\ v = w + g
      BY <2>9, <2>10, <2>11 DEF s, t, w
    <3> QED  BY <2>1, <2>6, <2>8, <2>12, <3>1
  <2> QED  BY <2>13 DEF g
<1>3. c * hf * ns \in Int /\ L * l * hf - 2 * l * ns - hf * ns \in Int
  BY SMT
<1> DEFINE x == c * hf * ns
           y == L * l * hf - 2 * l * ns - hf * ns
<1>4. x > y
  <2>1. x \in Int /\ y \in Int /\ y < x
    BY <1>2, <1>3
  <2> HIDE DEF x, y
  <2> QED  BY <2>1
<1> QED  BY <1>1, <1>4

LEMMA Programmed ==
  ASSUME Sound, MeasureSound, LapicProgram, machine' = machine
  PROVE  TickPeriod'
<1> DEFINE h == machine.hpet
           hf == FS \div h
           e == time - lapic.started
           c == Count(machine.lapic, e)
           b == LapicNs * FS + 3 * PollGap * NS
<1>1. /\ e \in Nat /\ h > 0 /\ e * hf * NS > FS * (LapicNs * hf - 2 * NS)
      /\ (e - gap) * NS <= LapicNs * FS + 2 * PollGap * NS
      /\ Basics /\ machine \in Machines /\ gap \in Nat /\ gap <= PollGap
  BY DEF LapicProgram, MeasureSound, Sound, Basics
<1>2. /\ hf \in Nat \ {0} /\ FS \in Nat \ {0} /\ NS \in Nat \ {0} /\ machine.lapic \in Nat
      /\ LapicNs \in Nat /\ PollGap \in Nat /\ Word32 \in Nat \ {0}
  BY <1>1, TheMachine, Units
<1>3. c \in Nat /\ FS * c <= e * machine.lapic /\ e * machine.lapic < FS * (c + 1)
  <2> HIDE DEF e
  <2> QED  BY <1>1, <1>2, Counting
<1>4. e * NS <= b /\ b \in Nat
  <2> DEFINE x == (e - gap) * NS
             y == gap * NS
             z == PollGap * NS
             w == LapicNs * FS
             d == e - gap
  <2>1. x \in Int /\ y \in Int /\ z \in Int /\ w \in Nat /\ z >= 0
    <3> HIDE DEF e
    <3> QED  BY <1>1, <1>2
  <2>2. e * NS = x + y
    <3> HIDE DEF e
    <3> QED  BY <1>1, <1>2
  <2>3. y <= z
    BY <1>1, <1>2, Scale
  <2>4. 2 * PollGap * NS = 2 * z /\ 3 * PollGap * NS = 3 * z
    BY <1>2
  <2>5. x <= w + 2 * z
    BY <1>1, <2>4
  <2>6. x + y <= w + 3 * z /\ w + 3 * z \in Nat
    <3> HIDE DEF x, y, z, w
    <3> QED  BY <2>1, <2>3, <2>5
  <2> QED  BY <2>2, <2>4, <2>6
<1>5. /\ c * hf * NS > LapicNs * machine.lapic * hf - 2 * machine.lapic * NS - hf * NS
      /\ c * (FS * NS) <= machine.lapic * b
  <2> DEFINE l == machine.lapic
  <2>1. l \in Nat /\ FS * c <= e * l /\ e * l < FS * (c + 1)
    BY <1>2, <1>3
  <2>2. (e * hf) * NS > FS * (LapicNs * hf - 2 * NS)
    BY <1>1
  <2> HIDE DEF e, c, b, hf, l
  <2>3. /\ c * hf * NS > LapicNs * l * hf - 2 * l * NS - hf * NS
        /\ c * (FS * NS) <= l * b
    BY <1>1, <1>2, <1>3, <1>4, <2>1, <2>2, CountSums
  <2> QED  BY <2>3 DEF l
<1>6. c < Word32
  <2>1. machine.lapic * b < Word32 * (FS * NS)
    BY <1>1, WidthAssumption
  <2> DEFINE g == FS * NS
             m == machine.lapic * b
  <2>2. g \in Nat \ {0} /\ m \in Nat /\ m < Word32 * g /\ c * g <= m
    <3> HIDE DEF b, c
    <3> QED  BY <1>2, <1>4, <1>5, <2>1
  <2> HIDE DEF c, g, m
  <2>3. c * g < Word32 * g
    <3>1. c * g \in Int /\ Word32 * g \in Int
      BY <1>2, <1>3, <2>2
    <3> QED  BY <2>2, <3>1
  <2> QED  BY <1>2, <1>3, <2>2, <2>3, Scale
<1>7. LapicTicks = c
  BY <1>1, <1>6, LapicTicksFacts
<1>8. CASE LapicTicks = 0
  BY <1>8, <1>7 DEF LapicProgram, MeasureSound, TickPeriod
<1>9. CASE LapicTicks # 0
  <2>1. lapic'.count = c
    BY <1>7, <1>9 DEF LapicProgram
  <2> QED  BY <1>5, <2>1 DEF TickPeriod
<1> QED  BY <1>8, <1>9

LEMMA StepMeasure == Sound /\ PollSound /\ MeasureSound /\ [Next]_vars => MeasureSound'
<1> SUFFICES ASSUME Sound, PollSound, MeasureSound, [Next]_vars PROVE MeasureSound'
  OBVIOUS
<1>1. Basics /\ Basics' /\ machine' = machine /\ LapicSound
  BY Frame, StepBasics DEF Framed, Sound
<1>2. TickPeriod'
  <2>1. CASE LapicProgram
    BY <1>1, <2>1, Programmed
  <2>2. CASE UNCHANGED lapic \/ LapicStart
    <3>1. lapic'.count = lapic.count
      BY <1>1, <2>2 DEF LapicStart, LapicSound
    <3> QED  BY <1>1, <3>1 DEF MeasureSound, TickPeriod
  <2>3. CASE KmainAbandoned
    BY <2>3 DEF KmainAbandoned, TickPeriod
  <2> QED  BY <2>1, <2>2, <2>3 DEF Next, KernelStep, vars, HpetInit, PmTimerInit, TscInit,
              TscDone, RtcInit, SetupBootClock, SleepStart, SleepPoll, Tick, ReadElapsed,
              GettimeRealtime, GettimeMonotonic, do_sys_nanosleep
<1>3. ASSUME pc' \notin {"calibrated", "measured"} PROVE MeasureSound'
  BY <1>2, <1>3 DEF MeasureSound
<1>4. CASE UNCHANGED vars
  BY <1>2, <1>4 DEF vars, counters, MeasureSound, CalFreq, Count
<1>5. CASE SleepPoll
  <2>1. CASE ~SleepOver
    BY <1>3, <1>5, <2>1 DEF SleepPoll
  <2>2. CASE SleepOver
    <3>1. /\ pc = "poll" /\ pc' = sleep.then /\ time' = time /\ gap' = 0 /\ lapic' = lapic
          /\ start_tsc' = start_tsc
      BY <1>5, <2>2 DEF SleepPoll, ReadEffect
    <3>2. Waiting /\ sleep.began \in Nat /\ sleep.began <= time /\ time \in Nat
      BY <3>1 DEF Waiting, Sound, SleepSound, Basics
    <3>3. CASE sleep.then = "calibrated"
      <4>1. /\ machine.hasTsc /\ start_tsc = Count(machine.tsc, sleep.began) % Word
        BY <3>2, <3>3 DEF Sound, SleepSound
      <4>2. 10 * ((time - sleep.began) * CalFreq) > FS * (CalFreq - 20)
        BY <2>2, <3>1, <3>3, CalibrationWait
      <4>3. sleep.began \in 0..time
        BY <3>2
      <4> DEFINE t1 == sleep.began
      <4>4. /\ t1 \in 0..time' /\ 10 * ((time' - t1) * CalFreq') > FS * (CalFreq' - 20)
            /\ machine'.hasTsc
        BY <1>1, <3>1, <4>1, <4>2, <4>3 DEF CalFreq
      <4>5. start_tsc' = Count(machine'.tsc, t1) % Word
        BY <1>1, <3>1, <4>1
      <4> HIDE DEF t1
      <4>6. \E t \in 0..time' : /\ start_tsc' = Count(machine'.tsc, t) % Word
                                /\ 10 * ((time' - t) * CalFreq') > FS * (CalFreq' - 20)
        BY <4>4, <4>5
      <4>7. pc' # "measured"
        BY <3>1, <3>3
      <4> QED  BY <1>2, <4>4, <4>6, <4>7 DEF MeasureSound
    <3>4. CASE sleep.then = "measured"
      <4>1. LET hf == FS \div machine.hpet
                passed == time - sleep.began
            IN /\ passed \in Nat /\ machine.hpet > 0
               /\ passed * hf * NS > FS * (LapicNs * hf - 2 * NS)
               /\ passed * NS <= LapicNs * FS + 2 * PollGap * NS
        BY <2>2, <3>1, <3>4, MeasureWait
      <4>2. lapic.started = sleep.began
        BY <3>2, <3>4 DEF Sound, SleepSound
      <4>3. (time - sleep.began) - gap' = time - sleep.began
        BY <3>1, <3>2
      <4>4. pc' # "calibrated"
        BY <3>1, <3>4
      <4> QED  BY <1>1, <1>2, <3>1, <4>1, <4>2, <4>3, <4>4 DEF MeasureSound
    <3>5. CASE sleep.then \notin {"calibrated", "measured"}
      BY <1>3, <3>1, <3>5
    <3> QED  BY <3>3, <3>4, <3>5
  <2> QED  BY <2>1, <2>2
<1>6. CASE Tick
  <2>1. /\ UNCHANGED <<pc, lapic, start_tsc>> /\ time' = time + 1 /\ time \in Nat /\ gap \in Nat
    BY <1>1, <1>6 DEF Tick, counters, Basics
  <2>2. CASE pc = "calibrated"
    <3>1. PICK t1 \in 0..time : /\ start_tsc = Count(machine.tsc, t1) % Word
                                /\ 10 * ((time - t1) * CalFreq) > FS * (CalFreq - 20)
      BY <2>2 DEF MeasureSound
    <3>2. CalFreq \in Nat \ {0} /\ FS \in Nat /\ CalFreq' = CalFreq
      BY <1>1, TheMachine, Units DEF Basics, CalFreq
    <3>3. 10 * ((time' - t1) * CalFreq) > FS * (CalFreq - 20)
      <4> DEFINE x == time - t1
                 y == time' - t1
      <4>1. x \in Nat /\ y \in Nat /\ x <= y
        BY <2>1
      <4>2. 10 * (x * CalFreq) > FS * (CalFreq - 20)
        BY <3>1
      <4> HIDE DEF x, y
      <4>3. x * CalFreq <= y * CalFreq
        BY <3>2, <4>1, Scale
      <4> DEFINE u == x * CalFreq
                 v == y * CalFreq
                 w == FS * (CalFreq - 20)
      <4>4. u \in Int /\ v \in Int /\ w \in Int /\ u <= v /\ 10 * u > w
        BY <3>2, <4>1, <4>2, <4>3
      <4>5. 10 * v > w
        <5> HIDE DEF u, v, w
        <5> QED  BY <4>4
      <4> QED  BY <4>5 DEF y
    <3>4. t1 \in 0..time' /\ start_tsc' = Count(machine'.tsc, t1) % Word
      BY <1>1, <2>1, <3>1
    <3>5. machine'.hasTsc
      BY <1>1, <2>2 DEF MeasureSound
    <3>6. \E t \in 0..time' : /\ start_tsc' = Count(machine'.tsc, t) % Word
                              /\ 10 * ((time' - t) * CalFreq') > FS * (CalFreq' - 20)
      BY <3>2, <3>3, <3>4
    <3> QED  BY <1>2, <2>1, <2>2, <3>5, <3>6 DEF MeasureSound
  <2>3. CASE pc = "measured"
    <3> DEFINE hf == FS \div machine.hpet
               x == time - lapic.started
               y == time' - lapic.started
               b == LapicNs * FS + 2 * PollGap * NS
               w == FS * (LapicNs * hf - 2 * NS)
    <3>1. /\ x \in Nat /\ machine.hpet > 0 /\ x * hf * NS > w
          /\ (x - gap) * NS <= b
      BY <2>3 DEF MeasureSound
    <3>2. hf \in Nat \ {0} /\ NS \in Nat \ {0} /\ lapic.started \in Nat /\ FS \in Nat
          /\ LapicNs \in Nat
      BY <1>1, <3>1, TheMachine, Units DEF Basics, LapicSound
    <3>3. gap' = gap + 1
      BY <1>6, <2>3 DEF Tick
    <3>4. y \in Nat /\ x <= y /\ y - gap' = x - gap
      BY <2>1, <3>1, <3>2, <3>3
    <3>5. y * hf * NS > w
      <4>0. w \in Int
        BY <3>2
      <4> HIDE DEF x, y, hf, w
      <4>1. x * hf <= y * hf /\ x * hf \in Int /\ y * hf \in Int
        BY <3>1, <3>2, <3>4, Scale
      <4>2. (x * hf) * NS <= (y * hf) * NS
        BY <3>2, <4>1, Scale
      <4> DEFINE u == (x * hf) * NS
                 v == (y * hf) * NS
      <4>3. u \in Int /\ v \in Int /\ u <= v /\ u > w
        BY <3>1, <3>2, <4>1, <4>2
      <4>4. v > w
        <5> HIDE DEF u, v
        <5> QED  BY <4>0, <4>3
      <4> QED  BY <4>4
    <3>6. (y - gap') * NS <= b
      BY <3>1, <3>4
    <3>7. pc' # "calibrated" /\ lapic' = lapic
      BY <2>1, <2>3
    <3> QED  BY <1>1, <1>2, <3>1, <3>4, <3>5, <3>6, <3>7 DEF MeasureSound
  <2>4. CASE pc \notin {"calibrated", "measured"}
    BY <1>3, <2>1, <2>4
  <2> QED  BY <2>2, <2>3, <2>4
<1>7. CASE \/ HpetInit \/ PmTimerInit \/ TscInit \/ TscDone \/ RtcInit \/ SetupBootClock
           \/ LapicStart \/ LapicProgram \/ KmainAbandoned \/ GettimeRealtime \/ ReadElapsed
           \/ SleepStart \/ (\E s \in Seconds : GettimeMonotonic(s))
           \/ \E s \in Sleeps : do_sys_nanosleep(s)
  <2>1. pc' \notin {"calibrated", "measured"}
    BY <1>7 DEF HpetInit, PmTimerInit, TscInit, TscDone, RtcInit, SetupBootClock, LapicProgram,
       LapicStart, KmainAbandoned, GettimeRealtime, ReadElapsed, GettimeMonotonic, SleepStart,
       do_sys_nanosleep, busy_sleep_best_ns, busy_sleep_ns
  <2> QED  BY <1>3, <2>1
<1> QED  BY <1>4, <1>5, <1>6, <1>7 DEF Next, KernelStep

-----------------------------------------------------------------------------
\* The boot clock and the replies.

\* A clock that was not read too late tells its ticks.
LEMMA NowTrue ==
  ASSUME Basics, PmSound, NEW c, IsClock(c),
         c.id = CLOCK_PM_TIMER =>
           ~missed /\ Count(PM_TIMER_FREQ, time) - pmTrue < machine.pm
  PROVE  /\ TrueTicks(c.id) \in Nat /\ Origin(c.id) \in Nat /\ Origin(c.id) <= TrueTicks(c.id)
         /\ now(c) = TrueTicks(c.id) - Origin(c.id)
<1> USE DEF CLOCK_TSC, CLOCK_HPET, CLOCK_PM_TIMER
<1>1. CASE c.id = CLOCK_HPET
  <2> DEFINE a == TicksAt(CLOCK_HPET, time)
  <2>1. machine.hpet > 0 /\ time \in Nat /\ hpetZero <= time /\ Word \in Nat \ {0}
    BY <1>1, ClockIds, Units DEF Basics
  <2>2. a \in Nat /\ a < Word
    BY <2>1, HpetFits
  <2>3. now(c) = a % Word
    BY <1>1, NowIs, TicksAtIs DEF hpet_read
  <2>4. a % Word = a
    <3> HIDE DEF a
    <3> QED  BY <2>1, <2>2, ModSmall
  <2> QED  BY <1>1, <2>2, <2>3, <2>4 DEF TrueTicks, Origin
<1>2. CASE c.id = CLOCK_TSC
  <2> DEFINE a == Count(machine.tsc, time)
  <2>1. Word \in Nat \ {0} /\ machine.tsc \in Nat /\ time \in Nat /\ tsc_base \in Nat
        /\ tsc_base <= a
    BY TheMachine, Units DEF Basics
  <2>2. a \in Nat
    BY <2>1, Counting
  <2>3. 10 * a < Word
    BY TscFits
  <2>4. now(c) = ((a % Word) - tsc_base) % Word
    BY <1>2, NowIs DEF tsc_read, Rdtsc
  <2>5. TrueTicks(c.id) = a /\ Origin(c.id) = tsc_base
    BY <1>2, TicksAtIs DEF TrueTicks, Origin
  <2> HIDE DEF a
  <2>6. a < Word /\ a - tsc_base \in Nat /\ a - tsc_base < Word
    BY <2>1, <2>2, <2>3
  <2>7. a % Word = a
    BY <2>1, <2>2, <2>6, ModSmall
  <2>8. (a - tsc_base) % Word = a - tsc_base
    <3> DEFINE d == a - tsc_base
    <3>1. d \in Nat /\ d < Word
      BY <2>6
    <3> HIDE DEF d
    <3>2. d % Word = d
      BY <2>1, <3>1, ModSmall
    <3> QED  BY <3>2 DEF d
  <2> QED  BY <2>1, <2>2, <2>4, <2>5, <2>7, <2>8
<1>3. CASE c.id = CLOCK_PM_TIMER
  <2> DEFINE a == Count(PM_TIMER_FREQ, time)
  <2>1. a \in Nat
    BY Units, Counting DEF Basics
  <2>2. TrueTicks(c.id) = a /\ Origin(c.id) = 0
    BY <1>3, TicksAtIs DEF TrueTicks, Origin
  <2>3. now(c) = a
    BY <1>3, ClockIds, PmRead, NowIs
  <2> HIDE DEF a
  <2> QED  BY <2>1, <2>2, <2>3
<1> QED  BY <1>1, <1>2, <1>3, ClockIds

\* A period that a reading has not missed.
LEMMA NotMissed ==
  ASSUME Basics, PmSound, NEW c, IsClock(c), ReadEffect(c)
  PROVE  /\ (c.id = CLOCK_PM_TIMER /\ ~missed') =>
              ~missed /\ Count(PM_TIMER_FREQ, time) - pmTrue < machine.pm
         /\ missed => missed'
<1>1. CASE c.id # CLOCK_PM_TIMER
  <2>1. missed' = missed
    BY <1>1 DEF ReadEffect
  <2> QED  BY <1>1, <2>1, Zenon
<1>2. CASE c.id = CLOCK_PM_TIMER
  <2> DEFINE d == Count(PM_TIMER_FREQ, time) - pmTrue
  <2>1. missed' = (missed \/ d >= machine.pm)
    BY <1>2, TicksAtIs DEF ReadEffect, TrueTicks
  <2>2. machine.pm # Absent
    BY <1>2, ClockIds
  <2>3. d \in Nat /\ machine.pm \in Nat
    BY <2>2, TheMachine, PmDelta DEF Basics
  <2> HIDE DEF d
  <2>4. ~(d >= machine.pm) => d < machine.pm
    BY <2>3
  <2>5. (~missed' => ~missed /\ d < machine.pm) /\ (missed => missed')
    BY <2>1, <2>4, Zenon
  <2> QED  BY <2>5, Zenon DEF d
<1> QED  BY <1>1, <1>2

\* Read twice at one time, a clock says the same.
LEMMA NowAgain ==
  ASSUME Basics, PmSound, NEW c, IsClock(c), ReadEffect(c), machine' = machine, time' = time
  PROVE  /\ hpet_read' = hpet_read /\ tsc_read' = tsc_read
         /\ c.id = CLOCK_PM_TIMER =>
              /\ pm_timer_read' = pm_timer_read /\ last' = pm_timer_read_raw'
              /\ pmTrue' = Count(PM_TIMER_FREQ, time')
<1>1. hpetZero' = hpetZero /\ tsc_base' = tsc_base
  BY DEF ReadEffect
<1>2. hpet_read' = hpet_read /\ tsc_read' = tsc_read
  BY <1>1 DEF hpet_read, tsc_read, Rdtsc, Count
<1>3. ASSUME c.id = CLOCK_PM_TIMER
      PROVE  /\ pm_timer_read' = pm_timer_read /\ last' = pm_timer_read_raw'
             /\ pmTrue' = Count(PM_TIMER_FREQ, time')
  <2> DEFINE raw == pm_timer_read_raw
  <2>1. accumulated' = pm_timer_read /\ last' = raw /\ pmTrue' = Count(PM_TIMER_FREQ, time)
    BY <1>3, TicksAtIs DEF ReadEffect, TrueTicks
  <2>2. pm_timer_read_raw' = raw
    BY DEF pm_timer_read_raw, Count
  <2>3. machine.pm \in Nat \ {0} /\ Word32 \in Nat \ {0} /\ Word \in Nat \ {0}
    BY <1>3, ClockIds, TheMachine, Units DEF Basics
  <2>4. pm_timer_read \in Nat /\ pm_timer_read < Word
    BY <1>3, ClockIds, PmRead
  <2>5. raw \in Nat
    <3>1. Count(PM_TIMER_FREQ, time) \in Nat
      BY Units, Counting DEF Basics
    <3> QED  BY <2>3, <3>1, ModLe DEF pm_timer_read_raw
  <2>6. pm_timer_read' = (accumulated' + (((raw - last') % Word32) % machine.pm)) % Word
    BY <2>2 DEF pm_timer_read, Delta
  <2> HIDE DEF raw
  <2>7. raw - last' = 0 /\ 0 % Word32 = 0 /\ 0 % machine.pm = 0
    <3>1. 0 \in Nat /\ 0 < Word32 /\ 0 < machine.pm
      BY <2>3
    <3> QED  BY <2>1, <2>3, <2>5, <3>1, ModSmall
  <2>8. pm_timer_read' = (pm_timer_read + 0) % Word
    BY <2>1, <2>6, <2>7
  <2> DEFINE z == pm_timer_read
  <2>9. (z + 0) % Word = z
    <3>1. z \in Nat /\ z < Word
      BY <2>4
    <3> HIDE DEF z
    <3>2. z + 0 = z /\ z % Word = z
      BY <2>3, <3>1, ModSmall
    <3> QED  BY <3>2
  <2> QED  BY <2>1, <2>2, <2>8, <2>9
<1> QED  BY <1>2, <1>3

LEMMA MissedStays ==
  ASSUME Sound, [Next]_vars
  PROVE  missed => missed'
<1>0. Basics /\ PmSound
  BY DEF Sound
<1>1. ASSUME NEW c, IsClock(c), ReadEffect(c) PROVE missed => missed'
  BY <1>0, <1>1, NotMissed
<1>2. CASE SetupBootClock
  <2>1. IsClock(get_best_clock) /\ get_best_clock # NULL
    BY <1>2, ReadClocks DEF SetupBootClock
  <2>2. ReadEffect(get_best_clock)
    BY <1>2, <2>1 DEF SetupBootClock
  <2> QED  BY <1>1, <2>1, <2>2
<1>3. CASE SleepStart \/ SleepPoll
  <2>1. IsClock(sleep.clock) /\ ReadEffect(sleep.clock)
    BY <1>3, ReadClocks DEF SleepStart, SleepPoll, Waiting
  <2> QED  BY <1>1, <2>1
<1>4. CASE ReadElapsed
  <2>1. IsClock(boot) /\ ReadEffect(boot)
    BY <1>4, ReadClocks DEF ReadElapsed
  <2> QED  BY <1>1, <2>1
<1>5. CASE \E s \in Seconds : GettimeMonotonic(s)
  <2>1. IsClock(get_best_clock) /\ ReadEffect(get_best_clock)
    BY <1>5, ReadClocks DEF GettimeMonotonic
  <2> QED  BY <1>1, <2>1
<1>6. CASE \/ HpetInit \/ PmTimerInit \/ TscInit \/ TscDone \/ RtcInit \/ LapicStart
           \/ LapicProgram \/ Tick \/ KmainAbandoned \/ GettimeRealtime \/ UNCHANGED vars
           \/ \E s \in Sleeps : do_sys_nanosleep(s)
  <2>1. missed' = missed
    BY <1>6 DEF HpetInit, PmTimerInit, TscInit, TscDone, RtcInit, LapicStart, LapicProgram, Tick,
       KmainAbandoned, GettimeRealtime, vars, do_sys_nanosleep, counters
  <2> QED  BY <2>1, Zenon
<1> QED  BY <1>2, <1>3, <1>4, <1>5, <1>6 DEF Next, KernelStep

\* After setup_boot_clock nothing of clocks_init runs again.
LEMMA LateStep ==
  ASSUME Sound, [Next]_vars, boot # NULL
  PROVE  /\ UNCHANGED <<boot, hpetZero, tsc_base>>
         /\ ~Early' /\ pc' \notin {"rtc", "boot"}
<1>1. ~Early /\ pc \notin {"rtc", "boot"}
  BY DEF Sound, BootSound
<1>2. pc \notin {"hpet", "pm_timer", "tsc", "calibrated", "rtc", "boot"}
  BY <1>1 DEF Early
<1>3. Waiting => sleep.then \in {"measured", "run"}
  BY <1>1 DEF Early, Sound, SleepSound
<1>4. CASE UNCHANGED vars
  BY <1>1, <1>4 DEF vars, counters, Early, Waiting
<1>5. CASE LapicStart
  <2>1. pc' = "crash" \/ (pc' = "start" /\ sleep'.then = "measured")
    BY <1>5, SleepBegins DEF LapicStart, Asleep
  <2> QED  BY <1>5, <2>1 DEF LapicStart, counters, Early, Waiting
<1>6. CASE LapicProgram
  BY <1>6 DEF LapicProgram, counters, Early, Waiting
<1>7. CASE SleepStart
  <2>1. sleep'.then = sleep.then
    BY <1>7 DEF SleepStart, Sound, SleepSound, Waiting
  <2> QED  BY <1>3, <1>7, <2>1 DEF SleepStart, ReadEffect, Early, Waiting
<1>8. CASE SleepPoll
  BY <1>3, <1>8 DEF SleepPoll, ReadEffect, Early, Waiting
<1>9. CASE Tick
  BY <1>1, <1>9 DEF Tick, counters, Early, Waiting
<1>10. CASE KmainAbandoned
  BY <1>10 DEF KmainAbandoned, counters, Early, Waiting
<1>11. CASE ReadElapsed
  BY <1>11 DEF ReadElapsed, ReadEffect, Early, Waiting
<1>12. CASE GettimeRealtime
  BY <1>12 DEF GettimeRealtime, counters, Early, Waiting
<1>13. CASE \E s \in Seconds : GettimeMonotonic(s)
  BY <1>13 DEF GettimeMonotonic, ReadEffect, Early, Waiting
<1>14. CASE \E s \in Sleeps : do_sys_nanosleep(s)
  <2>1. PICK s \in Sleeps : do_sys_nanosleep(s)
    BY <1>14
  <2>2. get_best_clock # NULL
    BY <2>1, ReadClocks DEF do_sys_nanosleep
  <2>3. busy_sleep_best_ns(timespec_to_nsec(s), "run")
    BY <2>1 DEF do_sys_nanosleep
  <2>4. Asleep(get_best_clock, timespec_to_nsec(s), "run")
    BY <2>2, <2>3, SleepBegins, Zenon
  <2>5. pc' = "start" /\ sleep'.then = "run"
    BY <2>4 DEF Asleep
  <2> QED  BY <2>1, <2>5 DEF do_sys_nanosleep, counters, Early, Waiting
<1>15. ~HpetInit /\ ~PmTimerInit /\ ~TscInit /\ ~TscDone /\ ~RtcInit /\ ~SetupBootClock
  BY <1>2 DEF HpetInit, PmTimerInit, TscInit, TscDone, RtcInit, SetupBootClock
<1> QED  BY <1>4, <1>5, <1>6, <1>7, <1>8, <1>9, <1>10, <1>11, <1>12, <1>13, <1>14, <1>15
         DEF Next, KernelStep

\* Before it, no step gets past it.
LEMMA EarlyStep ==
  ASSUME Sound, [Next]_vars, boot = NULL
  PROVE  SetupBootClock \/ (boot' = NULL /\ ~Booted')
<1>1. ~Booted
  BY DEF Sound, BootSound
<1>2. pc \notin {"lapic", "measured", "run", "crash"}
  BY <1>1 DEF Booted
<1>3. Waiting => sleep.then = "calibrated"
  BY <1>1 DEF Booted
<1>4. CASE UNCHANGED vars
  BY <1>1, <1>4 DEF vars, Booted, Waiting
<1>5. CASE HpetInit \/ PmTimerInit \/ TscDone \/ RtcInit
  BY <1>5 DEF HpetInit, PmTimerInit, TscDone, RtcInit, Booted, Waiting
<1>6. CASE TscInit
  <2>1. get_best_clock # NULL
    BY <1>6, ReadClocks DEF TscInit
  <2>2. CASE machine.hasTsc
    <3>1. busy_sleep_best_ns(NS \div 10, "calibrated")
      BY <1>6, <2>2 DEF TscInit
    <3>2. Asleep(get_best_clock, NS \div 10, "calibrated")
      BY <2>1, <3>1, SleepBegins, Zenon
    <3>3. pc' = "start" /\ sleep'.then = "calibrated"
      BY <3>2 DEF Asleep
    <3> QED  BY <1>6, <3>3 DEF TscInit, Booted, Waiting
  <2>3. CASE ~machine.hasTsc
    BY <1>6, <2>3 DEF TscInit, Booted, Waiting
  <2> QED  BY <2>2, <2>3
<1>7. CASE SleepStart
  <2>1. sleep'.then = sleep.then
    BY <1>7 DEF SleepStart, Sound, SleepSound, Waiting
  <2> QED  BY <1>3, <1>7, <2>1 DEF SleepStart, Booted, Waiting
<1>8. CASE SleepPoll
  BY <1>3, <1>8 DEF SleepPoll, Booted, Waiting
<1>9. CASE Tick
  BY <1>1, <1>9 DEF Tick, Booted, Waiting
<1>10. /\ ~LapicStart /\ ~LapicProgram /\ ~KmainAbandoned /\ ~ReadElapsed /\ ~GettimeRealtime
       /\ ~(\E s \in Seconds : GettimeMonotonic(s)) /\ ~(\E s \in Sleeps : do_sys_nanosleep(s))
  BY <1>2, <1>3 DEF LapicStart, LapicProgram, KmainAbandoned, ReadElapsed, GettimeRealtime,
     GettimeMonotonic, do_sys_nanosleep, Waiting
<1> QED  BY <1>4, <1>5, <1>6, <1>7, <1>8, <1>9, <1>10 DEF Next, KernelStep

LEMMA BootBegins ==
  ASSUME Sound, SetupBootClock, machine' = machine
  PROVE  BootSound'
<1> DEFINE c == get_best_clock
           n == TrueTicks(c.id)
           o == Origin(c.id)
<1>1. /\ pc = "boot" /\ IsClock(c) /\ c # NULL /\ Basics /\ PmSound
  BY ReadClocks DEF SetupBootClock, Sound
<1>2. /\ boot' = [id |-> c.id, freq |-> c.freq, base |-> CLOCK_NS(c), ticksAtBoot |-> n]
      /\ ReadEffect(c) /\ pc' = "lapic" /\ time' = time
  BY <1>1 DEF SetupBootClock
<1>3. hpetZero' = hpetZero /\ tsc_base' = tsc_base
  BY <1>2 DEF ReadEffect
<1>4. /\ boot'.id = c.id /\ boot'.freq = c.freq /\ boot'.base = CLOCK_NS(c)
      /\ boot'.ticksAtBoot = n
  BY <1>2
<1>5. IsClock(boot)'
  BY <1>1, <1>4 DEF IsClock, Calibrated, CalFreq
<1>6. boot' # NULL
  BY <1>1, <1>4, ClockIds DEF NULL, Absent, CLOCK_TSC, CLOCK_HPET, CLOCK_PM_TIMER
<1>7. TrueTicks(boot.id)' = n /\ Origin(boot.id)' = o
  BY <1>2, <1>3, <1>4 DEF TrueTicks, TicksAt, Origin, Count
<1>8. n \in Nat /\ o \in Nat /\ o <= n
  <2>1. time \in Nat /\ hpetZero <= time /\ tsc_base \in Nat /\ tsc_base <= Count(machine.tsc, time)
    BY <1>1 DEF Basics
  <2>2. n \in Nat
    BY <1>1, <2>1, ClockIds, TicksOn DEF TrueTicks
  <2>3. c.id = CLOCK_TSC => n = Count(machine.tsc, time)
    BY TicksAtIs DEF TrueTicks
  <2> QED  BY <2>1, <2>2, <2>3 DEF Origin
<1>9. CLOCK_NS(c) \in Nat
  <2> DEFINE x == now(c) * NS
  <2>1. x \in Nat /\ Word \in Nat \ {0} /\ c.freq \in Nat \ {0}
    BY <1>1, NowNat, Units, ClockIds
  <2> HIDE DEF x
  <2>2. x % Word \in Nat /\ x % Word \in Int
    BY <2>1, ModLe
  <2>3. (x % Word) \div c.freq \in Nat
    BY <2>1, <2>2, Division, Zenon
  <2> QED  BY <2>3 DEF x, CLOCK_NS
<1>10. (c.id = CLOCK_PM_TIMER => ~missed') => CLOCK_NS(c) = (((n - o) * NS) % Word) \div c.freq
  <2> SUFFICES ASSUME c.id = CLOCK_PM_TIMER => ~missed'
               PROVE  CLOCK_NS(c) = (((n - o) * NS) % Word) \div c.freq
    OBVIOUS
  <2>1. c.id = CLOCK_PM_TIMER => ~missed /\ Count(PM_TIMER_FREQ, time) - pmTrue < machine.pm
    BY <1>1, <1>2, NotMissed, Zenon
  <2>2. now(c) = n - o
    <3> HIDE DEF c
    <3> QED  BY <1>1, <2>1, NowTrue, Zenon
  <2> QED  BY <2>2 DEF CLOCK_NS
<1>11. ~Early' /\ pc' \notin {"rtc", "boot"}
  BY <1>2 DEF Early, Waiting
<1>12. /\ boot'.ticksAtBoot \in Nat /\ boot'.ticksAtBoot <= TrueTicks(boot.id)'
       /\ Origin(boot.id)' <= boot'.ticksAtBoot /\ boot'.base \in Nat
  <2> HIDE DEF n, o, c
  <2> QED  BY <1>4, <1>7, <1>8, <1>9
<1>13. (boot'.id = CLOCK_PM_TIMER => ~missed') =>
         boot'.base = (((boot'.ticksAtBoot - Origin(boot.id)') * NS) % Word) \div boot'.freq
  <2> HIDE DEF n, o, c
  <2> QED  BY <1>4, <1>7, <1>10, Zenon
<1> QED  BY <1>5, <1>6, <1>11, <1>12, <1>13, Zenon DEF BootSound

LEMMA BootStays ==
  ASSUME Sound, [Next]_vars, boot # NULL
  PROVE  BootSound'
<1>1. /\ Basics /\ Basics' /\ machine' = machine /\ (time' = time \/ Tick)
      /\ UNCHANGED <<boot, hpetZero, tsc_base>> /\ ~Early' /\ pc' \notin {"rtc", "boot"}
  BY Frame, StepBasics, LateStep DEF Framed, Sound
<1>2. /\ IsClock(boot) /\ boot.ticksAtBoot \in Nat /\ boot.ticksAtBoot <= TrueTicks(boot.id)
      /\ Origin(boot.id) <= boot.ticksAtBoot /\ boot.base \in Nat
      /\ (boot.id = CLOCK_PM_TIMER => ~missed) =>
            boot.base = (((boot.ticksAtBoot - Origin(boot.id)) * NS) % Word) \div boot.freq
  BY DEF Sound, BootSound
<1>3. IsClock(boot)'
  BY <1>1, <1>2 DEF IsClock, Calibrated, CalFreq
<1>4. Origin(boot.id)' = Origin(boot.id)
  BY <1>1 DEF Origin
<1>5. boot.ticksAtBoot <= TrueTicks(boot.id)'
  <2>1. time \in Nat /\ time' \in Nat /\ time <= time' /\ hpetZero <= time
    BY <1>1 DEF Basics, Tick
  <2>2. /\ TicksAt(boot.id, time') - TicksAt(boot.id, time) \in Nat
        /\ TicksAt(boot.id, time) \in Nat /\ TicksAt(boot.id, time') \in Nat
    BY <1>1, <1>2, <2>1, ClockIds, TicksOn
  <2>3. TrueTicks(boot.id)' = TicksAt(boot.id, time')
    BY <1>1 DEF TrueTicks, TicksAt, Count
  <2> QED  BY <1>2, <2>2, <2>3 DEF TrueTicks
<1>6. (boot.id = CLOCK_PM_TIMER => ~missed') =>
         boot.base = (((boot.ticksAtBoot - Origin(boot.id)) * NS) % Word) \div boot.freq
  BY <1>2, MissedStays, Zenon
<1> QED  BY <1>1, <1>2, <1>3, <1>4, <1>5, <1>6, Zenon DEF BootSound

LEMMA StepBoot == Sound /\ [Next]_vars => BootSound'
<1> SUFFICES ASSUME Sound, [Next]_vars PROVE BootSound'
  OBVIOUS
<1>1. CASE boot # NULL
  BY <1>1, BootStays
<1>2. CASE boot = NULL
  <2>1. CASE SetupBootClock
    BY <2>1, BootBegins, Frame DEF Framed
  <2>2. CASE boot' = NULL /\ ~Booted'
    BY <2>2 DEF BootSound
  <2> QED  BY <1>2, <2>1, <2>2, EarlyStep
<1> QED  BY <1>1, <1>2

LEMMA StepReply == Sound /\ ReplySound /\ [Next]_vars => ReplySound'
<1> SUFFICES ASSUME Sound, ReplySound, [Next]_vars PROVE ReplySound'
  OBVIOUS
<1>1. Basics /\ PmSound /\ machine' = machine
  BY Frame DEF Framed, Sound
<1>2. ASSUME reply' = NoReply \/ (reply' = reply /\ pc \notin {"run", "crash"})
      PROVE  ReplySound'
  <2>1. reply'.kind = "none"
    BY <1>2 DEF NoReply, ReplySound
  <2> QED  BY <2>1 DEF ReplySound
<1>3. CASE UNCHANGED vars \/ GettimeRealtime
  <2>1. /\ UNCHANGED <<machine, time, clock_list, available_clocks, counters, boot, reply>>
        /\ (reply.kind # "none" => pc' \in {"run", "crash"})
    BY <1>3 DEF vars, GettimeRealtime, ReplySound
  <2>2. /\ get_best_clock' = get_best_clock
    BY <2>1 DEF get_best_clock, get_clock
  <2>3. hpet_read' = hpet_read /\ tsc_read' = tsc_read /\ pm_timer_read' = pm_timer_read
        /\ pm_timer_read_raw' = pm_timer_read_raw
    BY <2>1 DEF hpet_read, tsc_read, Rdtsc, Count, pm_timer_read, pm_timer_read_raw, Delta, counters
  <2>4. ns_since_boot' = ns_since_boot /\ CLOCK_NS(get_best_clock)' = CLOCK_NS(get_best_clock)
    BY <2>1, <2>2, <2>3 DEF ns_since_boot, CLOCK_NS, now
  <2>5. Fresh(boot) => Fresh(boot)'
    BY <2>1, <2>3 DEF Fresh, Count, counters
  <2> QED  BY <2>1, <2>4, <2>5 DEF ReplySound
<1>4. CASE ReadElapsed
  <2>1. /\ IsClock(boot) /\ ReadEffect(boot) /\ UNCHANGED <<machine, time, boot>> /\ pc' = "run"
        /\ reply' = [kind |-> "elapsed", ns |-> ns_since_boot]
    BY <1>4, ReadClocks DEF ReadElapsed
  <2>2. /\ hpet_read' = hpet_read /\ tsc_read' = tsc_read
        /\ boot.id = CLOCK_PM_TIMER =>
              /\ pm_timer_read' = pm_timer_read /\ last' = pm_timer_read_raw'
              /\ pmTrue' = Count(PM_TIMER_FREQ, time')
    BY <1>1, <2>1, NowAgain
  <2>3. boot.id \in {CLOCK_TSC, CLOCK_HPET, CLOCK_PM_TIMER}
    BY <2>1, ClockIds
  <2>4. now(boot)' = now(boot)
    BY <2>1, <2>2, <2>3 DEF now, CLOCK_TSC, CLOCK_HPET, CLOCK_PM_TIMER
  <2>5. ns_since_boot' = ns_since_boot
    BY <2>1, <2>4 DEF ns_since_boot, CLOCK_NS
  <2>6. Fresh(boot)'
    BY <2>1, <2>2 DEF Fresh
  <2>7. reply'.kind = "elapsed" /\ reply'.ns = ns_since_boot
    BY <2>1
  <2> QED  BY <2>1, <2>5, <2>6, <2>7 DEF ReplySound
<1>5. CASE \E s \in Seconds : GettimeMonotonic(s)
  <2>1. PICK sec \in Seconds : GettimeMonotonic(sec)
    BY <1>5
  <2> DEFINE c == get_best_clock
             n == CLOCK_NS(c)
  <2>2. /\ IsClock(c) /\ ReadEffect(c) /\ pc' = "run"
        /\ UNCHANGED <<machine, time, clock_list, available_clocks>>
    BY <2>1, ReadClocks DEF GettimeMonotonic
  <2>3. sec \in Nat /\ NS \in Nat \ {0} /\ Word \in Nat \ {0}
    BY UnitAssumption, Units
  <2>4. n \in Nat
    <3> DEFINE x == now(c) * NS
    <3>1. x \in Nat /\ c.freq \in Nat \ {0}
      BY <1>1, <2>2, <2>3, NowNat, ClockIds
    <3> HIDE DEF x
    <3>2. x % Word \in Nat /\ x % Word \in Int
      BY <2>3, <3>1, ModLe
    <3>3. (x % Word) \div c.freq \in Nat
      BY <3>1, <3>2, Division, Zenon
    <3> QED  BY <3>3 DEF x, CLOCK_NS
  <2>5. reply'.kind = "monotonic"
        /\ reply'.ns = (((sec + (n \div NS)) - sec) * NS) + (n % NS)
    BY <2>1 DEF GettimeMonotonic, timespec_normalize
  <2>6. reply'.ns = n
    <3> HIDE DEF n
    <3> DEFINE q == n \div NS
               r == n % NS
    <3>1. q \in Int /\ r \in Nat /\ n = (NS * q) + r
      <4>1. n \in Int
        BY <2>4
      <4> QED  BY <2>3, <4>1, Division, Zenon
    <3>2. reply'.ns = (((sec + q) - sec) * NS) + r
      BY <2>5
    <3> HIDE DEF q, r
    <3>3. (sec + q) - sec = q /\ q * NS = NS * q
      BY <2>3, <3>1
    <3> QED  BY <3>1, <3>2, <3>3
  <2>7. /\ hpet_read' = hpet_read /\ tsc_read' = tsc_read
        /\ c.id = CLOCK_PM_TIMER => pm_timer_read' = pm_timer_read
    BY <1>1, <2>2, NowAgain
  <2>8. get_best_clock' = c
    BY <2>2 DEF get_best_clock, get_clock
  <2>9. c.id \in {CLOCK_TSC, CLOCK_HPET, CLOCK_PM_TIMER}
    BY <2>2, ClockIds
  <2>10. CLOCK_NS(get_best_clock)' = n
    <3> HIDE DEF c
    <3> QED  BY <2>7, <2>8, <2>9 DEF CLOCK_NS, now, CLOCK_TSC, CLOCK_HPET, CLOCK_PM_TIMER
  <2> QED  BY <2>2, <2>5, <2>6, <2>10 DEF ReplySound
<1>6. CASE Tick \/ \E s \in Sleeps : do_sys_nanosleep(s)
  BY <1>2, <1>6 DEF Tick, do_sys_nanosleep
<1>7. CASE KernelStep \/ KmainAbandoned
  <2>1. reply' = reply /\ pc \notin {"run", "crash"}
    BY <1>7 DEF KernelStep, KmainAbandoned, HpetInit, PmTimerInit, TscInit, TscDone, RtcInit,
       SetupBootClock, LapicStart, LapicProgram, SleepStart, SleepPoll
  <2> QED  BY <1>2, <2>1
<1> QED  BY <1>3, <1>4, <1>5, <1>6, <1>7 DEF Next

LEMMA StepRtc == Sound /\ RtcSound /\ [Next]_vars => RtcSound'
<1> SUFFICES ASSUME Sound, RtcSound, [Next]_vars PROVE RtcSound'
  OBVIOUS
<1>1. machine' = machine
  BY Frame DEF Framed
<1>2. CASE RtcInit
  BY <1>1, <1>2 DEF RtcInit, RtcSound
<1>3. CASE ~RtcInit
  <2>1. base_rtc' = base_rtc
    BY <1>3 DEF Next, KernelStep, vars, HpetInit, PmTimerInit, TscInit, TscDone, SetupBootClock,
       LapicStart, LapicProgram, SleepStart, SleepPoll, Tick, KmainAbandoned, ReadElapsed,
       GettimeRealtime, GettimeMonotonic, do_sys_nanosleep
  <2>2. (pc' = "boot" \/ Booted') => (pc = "boot" \/ Booted)
    <3>1. CASE boot # NULL
      <4>1. ~Early /\ pc \notin {"rtc", "boot"} /\ ~Early' /\ pc' \notin {"rtc", "boot"}
        BY <3>1, LateStep DEF Sound, BootSound
      <4>2. CASE pc = "panic"
        <5>1. pc' = "panic"
          BY <4>2 DEF Next, KernelStep, vars, HpetInit, PmTimerInit, TscInit, TscDone, RtcInit,
             SetupBootClock, LapicStart, LapicProgram, SleepStart, SleepPoll, Tick,
             KmainAbandoned, ReadElapsed, GettimeRealtime, GettimeMonotonic, do_sys_nanosleep
        <5> QED  BY <5>1 DEF Booted, Waiting
      <4>3. CASE pc # "panic"
        BY <4>1, <4>3 DEF Sound, Staged, Early, Booted, Waiting
      <4> QED  BY <4>2, <4>3
    <3>2. CASE boot = NULL
      <4>1. CASE SetupBootClock
        BY <4>1 DEF SetupBootClock
      <4>2. CASE ~Booted' /\ ~SetupBootClock
        <5>1. pc' = "boot" => pc = "boot"
          BY <1>3, <3>2, <4>2 DEF Next, KernelStep, vars, HpetInit, PmTimerInit, TscInit, TscDone,
             LapicStart, LapicProgram, SleepStart, SleepPoll, Tick, KmainAbandoned, ReadElapsed,
             GettimeRealtime, GettimeMonotonic, do_sys_nanosleep, busy_sleep_ns,
             busy_sleep_best_ns, Sound, SleepSound, Waiting
        <5> QED  BY <4>2, <5>1
      <4> QED  BY <3>2, <4>1, <4>2, EarlyStep
    <3> QED  BY <3>1, <3>2
  <2> QED  BY <1>1, <2>1, <2>2 DEF RtcSound
<1> QED  BY <1>2, <1>3

-----------------------------------------------------------------------------
\* The results.

IInv == Sound /\ PollSound /\ MeasureSound /\ ReplySound /\ RtcSound

LEMMA InitIInv == Init => IInv
<1> SUFFICES ASSUME Init PROVE IInv
  OBVIOUS
<1>1. Basics /\ ListSound /\ PmSound
  BY InitBasics, InitList, InitPm
<1>2. /\ pc = "hpet" /\ available_clocks = {} /\ boot = NULL /\ reply.kind = "none"
      /\ lapic = [started |-> 0, count |-> 0] /\ gap = 0
  BY DEF Init, NoReply
<1>3. ~Waiting /\ ~Booted
  BY <1>2 DEF Waiting, Booted
<1>4. Staged
  BY <1>2, <1>3 DEF Staged
<1>5. SleepSound /\ PollSound /\ BootSound /\ RtcSound
  BY <1>2, <1>3 DEF SleepSound, PollSound, BootSound, RtcSound
<1>6. lapic.started = 0 /\ lapic.count = 0 /\ LapicSound
  BY <1>2 DEF LapicSound
<1>7. MeasureSound
  BY <1>2, <1>6 DEF MeasureSound, TickPeriod
<1>8. ReplySound
  BY <1>2 DEF ReplySound
<1> QED  BY <1>1, <1>4, <1>5, <1>6, <1>7, <1>8 DEF IInv, Sound

LEMMA StepIInv == IInv /\ [Next]_vars => IInv'
<1> SUFFICES ASSUME IInv, [Next]_vars PROVE IInv'
  OBVIOUS
<1>1. Basics' /\ ListSound'
  BY StepBasics, StepList DEF IInv, Sound
<1>2. Staged' /\ SleepSound' /\ PmSound' /\ BootSound' /\ LapicSound'
  BY StepStaged, StepSleep, StepPm, StepBoot, StepLapic DEF IInv
<1>3. PollSound' /\ MeasureSound'
  BY StepPoll, StepMeasure DEF IInv
<1>4. ReplySound' /\ RtcSound'
  BY StepReply, StepRtc DEF IInv
<1> QED  BY <1>1, <1>2, <1>3, <1>4 DEF IInv, Sound

LEMMA Invariant == Spec => []IInv
BY InitIInv, StepIInv, PTL DEF Spec

\* The sleeps of busy_sleep_ns (clocks.c) are long enough on every clock and
\* machine, wherever the counters wrap: see SleepsLongEnough in Clocks.
THEOREM Sleeping == Spec => SleepsLongEnough
<1>1. IInv /\ [Next]_vars =>
        ((pc = "poll" /\ pc' = sleep.then /\ sleep.asked * sleep.clock.freq < Word)
           => LongEnough(sleep.clock, sleep.asked, time - sleep.began))
  <2> SUFFICES ASSUME IInv, [Next]_vars, pc = "poll", pc' = sleep.then,
                      sleep.asked * sleep.clock.freq < Word
               PROVE  LongEnough(sleep.clock, sleep.asked, time - sleep.began)
    OBVIOUS
  <2>1. sleep.then \in {"calibrated", "measured", "run"}
    BY DEF IInv, Sound, SleepSound, Waiting
  <2>2. SleepPoll
    BY <2>1 DEF Next, KernelStep, vars, HpetInit, PmTimerInit, TscInit, TscDone, RtcInit,
       SetupBootClock, LapicStart, LapicProgram, SleepStart, Tick, KmainAbandoned, ReadElapsed,
       GettimeRealtime, GettimeMonotonic, do_sys_nanosleep
  <2>3. SleepOver
    BY <2>1, <2>2 DEF SleepPoll
  <2> QED  BY <2>3, SleepIsLong DEF IInv
<1> QED  BY <1>1, Invariant, PTL DEF Spec, SleepsLongEnough

\* What lapic_timer_start programs is the period LAPIC_TIMER_MS, within the two
\* bounds of TickPeriod.
THEOREM TickPeriodHolds == Spec => []TickPeriod
<1>1. IInv => TickPeriod
  BY DEF IInv, MeasureSound
<1> QED  BY <1>1, Invariant, PTL

\* Two products divided by the same frequency, and their difference.
LEMMA DifferenceOfQuotients ==
  ASSUME NEW x \in Nat, NEW y \in Nat, NEW f \in Nat \ {0}, y <= x
  PROVE  LET n == (x \div f) - (y \div f) IN
         /\ n \in Nat /\ n <= x
         /\ n * f <= (x - y) + f
         /\ x - y <= n * f + f
<1> DEFINE a == x \div f
           b == y \div f
           p == x % f
           q == y % f
<1>1. /\ a \in Nat /\ b \in Nat /\ p \in Nat /\ q \in Nat /\ p < f /\ q < f
      /\ x = (f * a) + p /\ y = (f * b) + q
  BY Division
<1> HIDE DEF a, b, p, q
<1> DEFINE u == f * a
           v == f * b
<1>2. u \in Int /\ v \in Int /\ x = u + p /\ y = v + q /\ f * (a + 1) = u + f /\ a * f = u
  BY <1>1, Distribute
<1>3. v < f * (a + 1)
  <2> HIDE DEF u, v
  <2> QED  BY <1>1, <1>2
<1>4. b < a + 1
  <2>1. b * f < (a + 1) * f
    BY <1>1, <1>3
  <2> QED  BY <1>1, <2>1, Scale
<1>5. a - b \in Nat
  BY <1>1, <1>4
<1>6. (a - b) * f = u - v
  BY <1>1, Distribute
<1>7. a <= u
  <2>1. 1 * a <= f * a
    <3>1. 1 \in Int /\ f \in Int /\ 1 <= f
      OBVIOUS
    <3> QED  BY <1>1, <3>1, Scale
  <2> QED  BY <1>1, <2>1
<1>8. a - b <= x /\ (a - b) * f <= (x - y) + f /\ x - y <= (a - b) * f + f
  <2> DEFINE w == (a - b) * f
  <2>1. w = u - v
    BY <1>6
  <2> HIDE DEF u, v, w
  <2>2. a - b <= x /\ w <= (x - y) + f /\ x - y <= w + f
    BY <1>1, <1>2, <1>7, <2>1
  <2> QED  BY <2>2 DEF w
<1> QED  BY <1>5, <1>8 DEF a, b

LEMMA Elapsed == IInv => ElapsedExact
<1> SUFFICES ASSUME IInv PROVE ElapsedExact
  OBVIOUS
<1>0. Sound /\ Basics /\ PmSound
  BY DEF IInv, Sound
<1>1. ASSUME reply.kind = "elapsed", ~missed, now(boot) * NS < Word
      PROVE  LET true == (TrueTicks(boot.id) - boot.ticksAtBoot) * NS IN
             /\ reply.ns * boot.freq <= true + boot.freq
             /\ true <= reply.ns * boot.freq + boot.freq
  <2>1. reply.ns = ns_since_boot /\ Fresh(boot) /\ boot # NULL
    BY <1>1 DEF IInv, ReplySound, Sound, BootSound, Booted
  <2> DEFINE T == TrueTicks(boot.id)
             o == Origin(boot.id)
             R == boot.ticksAtBoot
             f == boot.freq
             a == T - o
             b == R - o
             x == a * NS
             y == b * NS
  <2>2. /\ IsClock(boot) /\ R \in Nat /\ R <= T /\ o <= R
        /\ boot.base = ((b * NS) % Word) \div f
    BY <1>0, <1>1, <2>1 DEF Sound, BootSound
  <2>3. f \in Nat \ {0} /\ NS \in Nat \ {0} /\ Word \in Nat \ {0}
    BY <2>2, ClockIds, Units
  <2>4. boot.id = CLOCK_PM_TIMER => ~missed /\ Count(PM_TIMER_FREQ, time) - pmTrue < machine.pm
    <3> SUFFICES ASSUME boot.id = CLOCK_PM_TIMER
                 PROVE  Count(PM_TIMER_FREQ, time) - pmTrue < machine.pm
      BY <1>1, Zenon
    <3>1. machine.pm \in Nat \ {0}
      BY <1>0, <2>2, ClockIds, TheMachine DEF Basics
    <3>2. pmTrue \in Nat /\ pmTrue = Count(PM_TIMER_FREQ, time)
      BY <1>0, <2>1 DEF PmSound, Fresh
    <3> QED  BY <3>1, <3>2
  <2>5. T \in Nat /\ o \in Nat /\ now(boot) = T - o
    BY <1>0, <2>2, <2>4, NowTrue
  <2> HIDE DEF T, o, R, f
  <2>6. a \in Nat /\ b \in Nat /\ b <= a /\ now(boot) = a
    BY <2>2, <2>5
  <2>7. /\ x \in Nat /\ y \in Nat /\ y <= x /\ x < Word
    <3> HIDE DEF a, b
    <3>1. b * NS <= a * NS
      BY <2>3, <2>6, Scale
    <3>2. a * NS < Word
      BY <1>1, <2>6
    <3> QED  BY <2>3, <2>6, <3>1, <3>2
  <2>8. x - y = (T - R) * NS
    <3>1. a - b = T - R
      BY <2>2, <2>5
    <3>2. (a - b) * NS = x - y
      <4> HIDE DEF a, b
      <4> QED  BY <2>3, <2>6
    <3> QED  BY <3>1, <3>2
  <2>9. CLOCK_NS(boot) = (x % Word) \div f /\ boot.base = (y % Word) \div f
    BY <2>2, <2>6 DEF CLOCK_NS, f
  <2> HIDE DEF x, y
  <2>10. x % Word = x /\ y % Word = y
    BY <2>3, <2>7, ModSmall
  <2> DEFINE n == (x \div f) - (y \div f)
  <2>11. n \in Nat /\ n <= x /\ n * f <= (x - y) + f /\ x - y <= n * f + f
    BY <2>3, <2>7, DifferenceOfQuotients
  <2>12. ns_since_boot = n % Word
    BY <2>9, <2>10 DEF ns_since_boot
  <2>13. n % Word = n
    <3> HIDE DEF n
    <3>1. n < Word
      BY <2>3, <2>7, <2>11
    <3> QED  BY <2>3, <2>11, <3>1, ModSmall
  <2>14. reply.ns = n
    BY <2>1, <2>12, <2>13
  <2> QED  BY <2>8, <2>11, <2>14 DEF T, R, f
<1>2. ASSUME reply.kind = "monotonic", now(get_best_clock) * NS < Word
      PROVE  reply.ns = (now(get_best_clock) * NS) \div get_best_clock.freq
  <2> DEFINE c == get_best_clock
             x == now(c) * NS
  <2>1. reply.ns = CLOCK_NS(c) /\ pc \in {"run", "crash"}
    BY <1>2 DEF IInv, ReplySound
  <2>2. IsClock(c)
    BY <1>0, <2>1, ReadClocks
  <2>3. x \in Nat /\ x < Word /\ Word \in Nat \ {0}
    BY <1>0, <1>2, <2>2, NowNat, Units
  <2>4. reply.ns = (x % Word) \div c.freq
    BY <2>1 DEF CLOCK_NS
  <2> HIDE DEF x
  <2>5. x % Word = x
    BY <2>3, ModSmall
  <2> QED  BY <2>4, <2>5 DEF x
<1> QED  BY <1>1, <1>2 DEF ElapsedExact

\* ns_since_boot (clocks.c) is the time since setup_boot_clock to a tick, while
\* the product in it fits in 64 bits and no period of the PM timer was missed.
THEOREM ElapsedExactHolds == Spec => []ElapsedExact
BY Elapsed, Invariant, PTL

-----------------------------------------------------------------------------
\* The date.

\* The first m turns of the loop that adds up g.
Turns(g, m, f) == /\ f[0] = 0
                  /\ \A n \in 1..m : f[n] = f[n - 1] + g[n]

LEMMA TurnsExist ==
  ASSUME NEW g \in [Nat -> Int], NEW m \in Nat
  PROVE  \E f \in [0..m -> Int] : Turns(g, m, f)
<1> DEFINE S == {k \in Nat : ~\E f \in [0..k -> Int] : Turns(g, k, f)}
<1>1. SUFFICES ASSUME S # {} PROVE FALSE
  OBVIOUS
<1>2. PICK k \in S : \A j \in S : k <= j
  <2>1. S \in SUBSET Nat
    OBVIOUS
  <2> HIDE DEF S
  <2> QED  BY <1>1, <2>1, Least
<1>3. k \in Nat /\ ~\E f \in [0..k -> Int] : Turns(g, k, f)
  BY <1>2
<1>4. k # 0
  <2> DEFINE f == [n \in 0..0 |-> 0]
  <2>1. f \in [0..0 -> Int] /\ Turns(g, 0, f)
    BY DEF Turns
  <2> HIDE DEF f
  <2> QED  BY <1>3, <2>1
<1>5. k - 1 \in Nat /\ k - 1 \notin S
  BY <1>2, <1>3, <1>4
<1>6. PICK f \in [0..(k - 1) -> Int] : Turns(g, k - 1, f)
  BY <1>5
<1> DEFINE h == [n \in 0..k |-> IF n = k THEN f[k - 1] + g[k] ELSE f[n]]
<1>7. f[k - 1] \in Int /\ g[k] \in Int
  BY <1>3, <1>5, <1>6
<1>8. h \in [0..k -> Int]
  <2>1. \A n \in 0..k : n # k => n \in 0..(k - 1)
    BY <1>3
  <2> QED  BY <1>6, <1>7, <2>1
<1>9. h[0] = 0
  BY <1>3, <1>4, <1>6 DEF Turns
<1>10. ASSUME NEW n \in 1..k
       PROVE  h[n] = h[n - 1] + g[n]
  <2>1. n \in 0..k /\ n - 1 \in 0..k /\ n - 1 # k
    BY <1>3
  <2>2. h[n - 1] = f[n - 1]
    BY <2>1
  <2>3. CASE n = k
    BY <2>1, <2>2, <2>3
  <2>4. CASE n # k
    <3>1. n \in 1..(k - 1)
      BY <1>3, <2>4
    <3>2. f[n] = f[n - 1] + g[n]
      BY <1>6, <3>1 DEF Turns
    <3> QED  BY <2>1, <2>2, <2>4, <3>2
  <2> QED  BY <2>3, <2>4
<1>11. Turns(g, k, h)
  <2> HIDE DEF h
  <2> QED  BY <1>9, <1>10 DEF Turns
<1> HIDE DEF h
<1> QED  BY <1>3, <1>8, <1>11

LEMMA TurnsAgree ==
  ASSUME NEW g \in [Nat -> Int], NEW m \in Nat, NEW k \in Nat, m <= k,
         NEW f, NEW h, Turns(g, m, f), Turns(g, k, h)
  PROVE  f[m] = h[m]
<1> DEFINE S == {n \in 0..m : f[n] # h[n]}
<1>1. SUFFICES ASSUME S # {} PROVE FALSE
  <2>1. m \in 0..m
    OBVIOUS
  <2> QED  BY <2>1
<1>2. PICK n \in S : \A j \in S : n <= j
  <2>1. S \in SUBSET Nat
    OBVIOUS
  <2> HIDE DEF S
  <2> QED  BY <1>1, <2>1, Least
<1>3. n \in 0..m /\ f[n] # h[n]
  BY <1>2
<1>4. n # 0
  BY <1>3 DEF Turns
<1>5. n \in 1..m /\ n \in 1..k /\ n - 1 \in 0..m /\ ~(n <= n - 1)
  BY <1>3, <1>4
<1>6. f[n - 1] = h[n - 1]
  BY <1>2, <1>5
<1>7. f[n] = f[n - 1] + g[n] /\ h[n] = h[n - 1] + g[n]
  BY <1>5 DEF Turns
<1> QED  BY <1>3, <1>6, <1>7

\* The definition of Adding has a solution, so it holds of Adding.
LEMMA AddingTurns ==
  ASSUME NEW g \in [Nat -> Int]
  PROVE  /\ Adding(g)[0] = 0
         /\ \A n \in Nat \ {0} : Adding(g)[n] = Adding(g)[n - 1] + g[n]
<1> DEFINE F(m) == CHOOSE f \in [0..m -> Int] : Turns(g, m, f)
           s == [n \in Nat |-> F(n)[n]]
<1>1. \A m \in Nat : F(m) \in [0..m -> Int] /\ Turns(g, m, F(m))
  BY TurnsExist
<1>2. ASSUME NEW n \in Nat \ {0}
      PROVE  s[n] = s[n - 1] + g[n]
  <2>1. n \in Nat /\ n - 1 \in Nat /\ n - 1 <= n /\ n \in 1..n
    OBVIOUS
  <2>2. Turns(g, n, F(n)) /\ Turns(g, n - 1, F(n - 1))
    BY <1>1, <2>1
  <2> HIDE DEF F
  <2>3. F(n)[n] = F(n)[n - 1] + g[n]
    BY <2>1, <2>2 DEF Turns
  <2>4. F(n - 1)[n - 1] = F(n)[n - 1]
    BY <2>1, <2>2, TurnsAgree
  <2> QED  BY <2>1, <2>3, <2>4
<1>3. s[0] = 0
  <2>1. Turns(g, 0, F(0))
    BY <1>1
  <2> HIDE DEF F
  <2> QED  BY <2>1 DEF Turns
<1>4. s = [n \in Nat |-> IF n = 0 THEN 0 ELSE s[n - 1] + g[n]]
  <2>1. \A n \in Nat : s[n] = IF n = 0 THEN 0 ELSE s[n - 1] + g[n]
    <3> HIDE DEF s
    <3> QED  BY <1>2, <1>3
  <2>2. s = [n \in Nat |-> s[n]]
    OBVIOUS
  <2> HIDE DEF s
  <2> QED  BY <2>1, <2>2
<1> HIDE DEF s
<1> DEFINE t == CHOOSE sum : sum = [n \in Nat |-> IF n = 0 THEN 0 ELSE sum[n - 1] + g[n]]
<1>5. Adding(g) = t
  BY DEF Adding
<1>6. t = [n \in Nat |-> IF n = 0 THEN 0 ELSE t[n - 1] + g[n]]
  BY <1>4
<1> HIDE DEF t
<1>7. t[0] = 0 /\ \A n \in Nat \ {0} : t[n] = t[n - 1] + g[n]
  BY <1>6
<1> QED  BY <1>5, <1>7

Leaps(n) == ((n \div 4) - (n \div 100)) + (n \div 400)

LEMMA LeapYear ==
  ASSUME NEW y \in Nat, y > 0
  PROVE  /\ Leaps(y) \in Int /\ Leaps(y - 1) \in Int
         /\ IS_LEAP(y) => Leaps(y) = Leaps(y - 1) + 1
         /\ ~IS_LEAP(y) => Leaps(y) = Leaps(y - 1)
<1>1. /\ (y % 4 = 0 => y \div 4 = ((y - 1) \div 4) + 1)
      /\ (y % 4 # 0 => y \div 4 = (y - 1) \div 4)
  BY SMT
<1>2. /\ (y % 100 = 0 => y \div 100 = ((y - 1) \div 100) + 1)
      /\ (y % 100 # 0 => y \div 100 = (y - 1) \div 100)
  BY SMT
<1>3. /\ (y % 400 = 0 => y \div 400 = ((y - 1) \div 400) + 1)
      /\ (y % 400 # 0 => y \div 400 = (y - 1) \div 400)
  BY SMT
<1>4. (y % 400 = 0 => y % 100 = 0) /\ (y % 100 = 0 => y % 4 = 0)
  BY SMT
<1>5. /\ y \div 4 \in Int /\ y \div 100 \in Int /\ y \div 400 \in Int
      /\ (y - 1) \div 4 \in Int /\ (y - 1) \div 100 \in Int /\ (y - 1) \div 400 \in Int
  OBVIOUS
<1> QED  BY <1>1, <1>2, <1>3, <1>4, <1>5 DEF Leaps, IS_LEAP

LEMMA YearsAdded ==
  ASSUME NEW k \in Nat
  PROVE  Adding(YearDays)[k] = ((365 * k) + Leaps(1969 + k)) - Leaps(1969)
<1> DEFINE A == Adding(YearDays)
           C(n) == ((365 * n) + Leaps(1969 + n)) - Leaps(1969)
           S == {n \in Nat : A[n] # C(n)}
<1>1. YearDays \in [Nat -> Int]
  BY DEF YearDays
<1>2. A[0] = 0 /\ \A n \in Nat \ {0} : A[n] = A[n - 1] + YearDays[n]
  BY <1>1, AddingTurns
<1>3. SUFFICES ASSUME S # {} PROVE FALSE
  OBVIOUS
<1>4. PICK n \in S : \A j \in S : n <= j
  <2>1. S \in SUBSET Nat
    OBVIOUS
  <2> HIDE DEF S
  <2> QED  BY <1>3, <2>1, Least
<1>5. n \in Nat /\ A[n] # C(n)
  BY <1>4
<1>6. n # 0
  <2>1. Leaps(1969) \in Int /\ C(0) = ((365 * 0) + Leaps(1969)) - Leaps(1969)
    BY DEF Leaps
  <2>2. C(0) = 0
    BY <2>1
  <2> QED  BY <1>2, <1>5, <2>2
<1>7. n - 1 \in Nat /\ n - 1 \notin S
  BY <1>4, <1>5, <1>6
<1>8. A[n - 1] = C(n - 1) /\ A[n] = A[n - 1] + YearDays[n]
  BY <1>2, <1>5, <1>6, <1>7
<1> DEFINE y == 1969 + n
<1>9. y \in Nat /\ y > 0 /\ 1969 + (n - 1) = y - 1
  BY <1>5
<1>10. /\ Leaps(y) \in Int /\ Leaps(y - 1) \in Int /\ Leaps(1969) \in Int
       /\ IS_LEAP(y) => Leaps(y) = Leaps(y - 1) + 1
       /\ ~IS_LEAP(y) => Leaps(y) = Leaps(y - 1)
  <2>1. Leaps(1969) \in Int
    BY DEF Leaps
  <2> HIDE DEF y
  <2> QED  BY <1>9, <2>1, LeapYear
<1>11. YearDays[n] = IF IS_LEAP(y) THEN 366 ELSE 365
  BY <1>5 DEF YearDays
<1>12. C(n - 1) = ((365 * (n - 1)) + Leaps(y - 1)) - Leaps(1969)
       /\ C(n) = ((365 * n) + Leaps(y)) - Leaps(1969)
  BY <1>9
<1>13. C(n) = C(n - 1) + YearDays[n]
  <2> HIDE DEF C, y
  <2>1. 365 * (n - 1) = (365 * n) - 365
    BY <1>5
  <2>2. CASE IS_LEAP(y)
    BY <1>5, <1>10, <1>11, <1>12, <2>1, <2>2
  <2>3. CASE ~IS_LEAP(y)
    BY <1>5, <1>10, <1>11, <1>12, <2>1, <2>3
  <2> QED  BY <2>2, <2>3
<1> QED  BY <1>5, <1>8, <1>13

LEMMA MonthsAdded ==
  ASSUME NEW y \in Nat, NEW m \in 1..12
  PROVE  Adding(MonthDays(y))[m - 1] =
           <<0, 31, 59, 90, 120, 151, 181, 212, 243, 273, 304, 334>>[m]
             + (IF m > 2 /\ IS_LEAP(y) THEN 1 ELSE 0)
<1> DEFINE g == MonthDays(y)
           A == Adding(g)
           l == IF IS_LEAP(y) THEN 1 ELSE 0
<1>1. g \in [Nat -> Int]
  <2>1. \A n \in 1..12 : days_in_month[n] \in Int
    BY DEF days_in_month
  <2> QED  BY <2>1 DEF MonthDays
<1>2. A[0] = 0 /\ \A n \in Nat \ {0} : A[n] = A[n - 1] + g[n]
  BY <1>1, AddingTurns
<1>3. /\ g[1] = 31 /\ g[2] = 28 + l /\ g[3] = 31 /\ g[4] = 30 /\ g[5] = 31 /\ g[6] = 30
      /\ g[7] = 31 /\ g[8] = 31 /\ g[9] = 30 /\ g[10] = 31 /\ g[11] = 30
  BY DEF MonthDays, days_in_month
<1>4. l \in Int
  OBVIOUS
<1> HIDE DEF A, g, l
<1>5. /\ A[1] = A[0] + g[1] /\ A[2] = A[1] + g[2] /\ A[3] = A[2] + g[3] /\ A[4] = A[3] + g[4]
      /\ A[5] = A[4] + g[5] /\ A[6] = A[5] + g[6] /\ A[7] = A[6] + g[7] /\ A[8] = A[7] + g[8]
      /\ A[9] = A[8] + g[9] /\ A[10] = A[9] + g[10] /\ A[11] = A[10] + g[11]
  <2>1. \A n \in 1..11 : A[n] = A[n - 1] + g[n]
    BY <1>2
  <2> QED  BY <2>1
<1>6. /\ A[0] = 0 /\ A[1] = 31 /\ A[2] = 59 + l /\ A[3] = 90 + l /\ A[4] = 120 + l
      /\ A[5] = 151 + l /\ A[6] = 181 + l /\ A[7] = 212 + l /\ A[8] = 243 + l
      /\ A[9] = 273 + l /\ A[10] = 304 + l /\ A[11] = 334 + l
  BY <1>2, <1>3, <1>4, <1>5
<1> DEFINE b == <<0, 31, 59, 90, 120, 151, 181, 212, 243, 273, 304, 334>>
<1>7. /\ b[1] = 0 /\ b[2] = 31 /\ b[3] = 59 /\ b[4] = 90 /\ b[5] = 120 /\ b[6] = 151
      /\ b[7] = 181 /\ b[8] = 212 /\ b[9] = 243 /\ b[10] = 273 /\ b[11] = 304 /\ b[12] = 334
  OBVIOUS
<1>8. m > 2 => A[m - 1] = b[m] + l
  <2> HIDE DEF b
  <2>1. m > 2 => m = 3 \/ m = 4 \/ m = 5 \/ m = 6 \/ m = 7 \/ m = 8 \/ m = 9 \/ m = 10 \/ m = 11
                 \/ m = 12
    OBVIOUS
  <2> QED  BY <1>6, <1>7, <2>1
<1>9. m <= 2 => A[m - 1] = b[m]
  <2> HIDE DEF b
  <2>1. m <= 2 => m = 1 \/ m = 2
    OBVIOUS
  <2> QED  BY <1>6, <1>7, <2>1
<1>10. b[m] \in Int
  OBVIOUS
<1> QED  BY <1>8, <1>9, <1>10 DEF A, g, l

LEMMA DaysExact ==
  ASSUME NEW y \in Nat, y >= 1970, NEW m \in 1..12, NEW d \in Nat
  PROVE  days_since_epoch(y, m, d) = DaysRef(y, m, d)
<1> DEFINE b == <<0, 31, 59, 90, 120, 151, 181, 212, 243, 273, 304, 334>>
           l == IF m > 2 /\ IS_LEAP(y) THEN 1 ELSE 0
           k == y - 1970
<1>1. y \in Nat /\ y > 0 /\ k \in Nat /\ 1969 + k = y - 1
  OBVIOUS
<1>2. Adding(YearDays)[k] = ((365 * k) + Leaps(y - 1)) - Leaps(1969)
  <2> HIDE DEF k
  <2> QED  BY <1>1, YearsAdded
<1>3. Adding(MonthDays(y))[m - 1] = b[m] + l
  BY <1>1, MonthsAdded
<1>4. /\ Leaps(y) \in Int /\ Leaps(y - 1) \in Int /\ Leaps(1969) \in Int
      /\ IS_LEAP(y) <=> Leaps(y) > Leaps(y - 1)
  <2>1. Leaps(1969) \in Int
    BY DEF Leaps
  <2> QED  BY <1>1, <2>1, LeapYear
<1>5. DaysRef(y, m, d) = (365 * k) + Leaps(y - 1) - Leaps(1969) + b[m]
                         + (IF m > 2 /\ Leaps(y) > Leaps(y - 1) THEN 1 ELSE 0) + d - 1
  BY DEF DaysRef, Leaps
<1>6. b[m] \in Int /\ l \in Int /\ 365 * k \in Int
  OBVIOUS
<1>7. (IF m > 2 /\ Leaps(y) > Leaps(y - 1) THEN 1 ELSE 0) = l
  BY <1>4
<1>8. days_since_epoch(y, m, d)
        = (((365 * k) + Leaps(y - 1)) - Leaps(1969)) + (b[m] + l) + d - 1
  BY <1>2, <1>3 DEF days_since_epoch
<1> DEFINE p == Leaps(y - 1)
           q == Leaps(1969)
           r == b[m]
           s == 365 * k
<1>9. p \in Int /\ q \in Int /\ r \in Int /\ s \in Int /\ l \in Int
  BY <1>4, <1>6
<1>10. /\ DaysRef(y, m, d) = s + p - q + r + l + d - 1
       /\ days_since_epoch(y, m, d) = ((s + p) - q) + (r + l) + d - 1
  BY <1>5, <1>7, <1>8
<1> HIDE DEF p, q, r, s, l
<1> QED  BY <1>9, <1>10

\* rtc_init reads back what the registers hold.
LEMMA Bcd ==
  ASSUME NEW x \in 0..99, NEW f \in Format
  PROVE  /\ FromBcd(CmosByte(x, f), f) = x
         /\ CmosByte(x, f) \in Nat
         /\ x <= 23 => CmosByte(x, f) < 128
<1>1. f.binary \in BOOLEAN
  BY DEF Format
<1>2. CASE f.binary
  BY <1>2 DEF FromBcd, CmosByte
<1>3. CASE ~f.binary
  <2> DEFINE b == ((x \div 10) * 16) + (x % 10)
  <2>1. b % 16 = x % 10 /\ b \div 16 = x \div 10 /\ b \in Nat
    BY SMT
  <2>2. (x % 10) + (x \div 10) * 10 = x
    BY SMT
  <2>3. x <= 23 => b < 128
    BY SMT
  <2>4. CmosByte(x, f) = b
    BY <1>3 DEF CmosByte
  <2> HIDE DEF b
  <2>5. FromBcd(b, f) = x
    BY <1>3, <2>1, <2>2 DEF FromBcd
  <2> QED  BY <2>1, <2>3, <2>4, <2>5
<1> QED  BY <1>1, <1>2, <1>3

LEMMA Hours ==
  ASSUME NEW h \in 0..23, NEW f \in Format, f.h24 \/ h % 12 # 0
  PROVE  RtcHour(CmosHour(h, f), f) = h
<1>1. CASE f.h24
  <2> DEFINE b == CmosByte(h, f)
  <2>1. h \in 0..99 /\ h <= 23
    OBVIOUS
  <2>2. b \in Nat /\ b < 128 /\ FromBcd(b, f) = h
    BY <2>1, Bcd
  <2>3. CmosHour(h, f) = b
    BY <1>1 DEF CmosHour
  <2> HIDE DEF b
  <2>4. b % 128 = b /\ ~(b >= 128)
    BY <2>2
  <2> QED  BY <1>1, <2>2, <2>3, <2>4 DEF RtcHour
<1>2. CASE ~f.h24
  <2> DEFINE k == h % 12
             b == CmosByte(k, f)
             c == b + (IF h >= 12 THEN 128 ELSE 0)
  <2>1. k \in 0..99 /\ k <= 23 /\ k # 0
    BY <1>2
  <2>2. b \in Nat /\ b < 128 /\ FromBcd(b, f) = k
    <3> HIDE DEF k
    <3> QED  BY <2>1, Bcd
  <2>3. CmosHour(h, f) = c
    BY <1>2, <2>1 DEF CmosHour
  <2>4. c % 128 = b /\ (c >= 128 <=> h >= 12)
    <3> HIDE DEF b
    <3> QED  BY <2>2
  <2>5. RtcHour(c, f) = IF h >= 12 THEN (k + 12) % 24 ELSE k
    <3> HIDE DEF b, c, k
    <3>1. k + 0 = k
      BY <2>1
    <3> QED  BY <1>2, <2>2, <2>4, <3>1 DEF RtcHour
  <2>6. h >= 12 => (k + 12) % 24 = h
    BY SMT
  <2>7. ~(h >= 12) => k = h
    BY SMT
  <2> QED  BY <2>3, <2>5, <2>6, <2>7
<1> QED  BY <1>1, <1>2

LEMMA DateExact ==
  ASSUME NEW d \in Date, NEW f \in Format, f.h24 \/ d.hour % 12 # 0,
         f.century \/ d.year \in 2000..2099
  PROVE  rtc_to_timespec(d, f) = [days |-> DaysRef(d.year, d.month, d.day),
                                  seconds |-> d.hour * 3600 + d.minute * 60 + d.second]
<1>1. /\ d.second \in 0..99 /\ d.minute \in 0..99 /\ d.hour \in 0..23
      /\ d.day \in 0..99 /\ d.month \in 0..99 /\ d.month \in 1..12 /\ d.year \in 1970..2199
      /\ d.day \in Nat
  BY DEF Date
<1>2. /\ FromBcd(CmosByte(d.second, f), f) = d.second
      /\ FromBcd(CmosByte(d.minute, f), f) = d.minute
      /\ FromBcd(CmosByte(d.day, f), f) = d.day
      /\ FromBcd(CmosByte(d.month, f), f) = d.month
  BY <1>1, Bcd
<1>3. RtcHour(CmosHour(d.hour, f), f) = d.hour
  BY <1>1, Hours
<1> DEFINE y == d.year
           q == y \div 100
           r == y % 100
           century == IF f.century THEN FromBcd(CmosByte(q, f), f) ELSE 20
<1>4. q \in 0..99 /\ r \in 0..99 /\ r + (q * 100) = y /\ (y \in 2000..2099 => q = 20)
  <2>1. y \in 1970..2199
    BY <1>1
  <2> HIDE DEF y
  <2> QED  BY <2>1
<1>5. FromBcd(CmosByte(r, f), f) = r /\ FromBcd(CmosByte(q, f), f) = q
  <2> HIDE DEF r, q
  <2> QED  BY <1>4, Bcd
<1>6. century = q
  BY <1>4, <1>5
<1>7. FromBcd(CmosByte(r, f), f) + (century * 100) = y
  BY <1>4, <1>5, <1>6
<1>8. days_since_epoch(y, d.month, d.day) = DaysRef(y, d.month, d.day)
  <2> DEFINE n == d.month
             e == d.day
  <2>1. y \in Nat /\ y >= 1970 /\ n \in 1..12 /\ e \in Nat
    BY <1>1
  <2> HIDE DEF y, n, e
  <2>2. days_since_epoch(y, n, e) = DaysRef(y, n, e)
    BY <2>1, DaysExact
  <2> QED  BY <2>2 DEF n, e
<1> QED  BY <1>2, <1>3, <1>7, <1>8 DEF rtc_to_timespec

\* rtc_init and rtc_to_timespec (rtc.c) turn every date from 1970 to 2199, in every
\* format of the registers, into the days and seconds since 1970: see RtcExact.
THEOREM RtcExactHolds == Spec => []RtcExact
<1>1. IInv => RtcExact
  <2> SUFFICES ASSUME IInv, pc \in {"boot", "lapic", "run"},
                      machine.format.h24 \/ machine.date.hour % 12 # 0,
                      machine.format.century \/ machine.date.year \in 2000..2099
               PROVE  base_rtc = [days |-> DaysRef(machine.date.year, machine.date.month,
                                                   machine.date.day),
                                  seconds |-> machine.date.hour * 3600
                                              + machine.date.minute * 60 + machine.date.second]
    BY DEF RtcExact
  <2>1. base_rtc = rtc_to_timespec(machine.date, machine.format)
    BY DEF IInv, RtcSound, Booted
  <2>2. machine.date \in Date /\ machine.format \in Format
    BY MachineAssumption DEF IInv, Sound, Basics
  <2> QED  BY <2>1, <2>2, DateExact
<1> QED  BY <1>1, Invariant, PTL
=============================================================================
