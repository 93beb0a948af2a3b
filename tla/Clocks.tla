------------------------------- MODULE Clocks -------------------------------
(***************************************************************************)
(* Time: the clock sources and busy sleeps of src/time/clocks.c, the HPET, *)
(* the ACPI PM timer, the TSC and the RTC (src/time/clocks/), the system   *)
(* calls of src/syscalls/time/, and lapic_timer_start, which measures the  *)
(* scheduler's tick with a clock source (src/interrupts/apic/lapic.c).     *)
(*                                                                         *)
(* The machine's counters follow one real time, counted in femtoseconds    *)
(* of which FS make a second, so that a conversion can be compared with    *)
(* what really passed.  Time moves between any two reads of a counter;     *)
(* reply, asked, began, ticksAtBoot, pmTrue and missed are history.        *)
(***************************************************************************)
EXTENDS Integers, Sequences, FiniteSetsExt

CONSTANTS FS,               \* femtoseconds in a second
          NS,               \* nanoseconds in a second
          Word, Word32,     \* 2^64 and 2^32
          PM_TIMER_FREQ,
          LapicNs,          \* LAPIC_TIMER_MS in nanoseconds
          Machines,         \* what the hardware may be, see MachineAssumption
          Sleeps,           \* what user code passes to nanosleep
          Seconds,          \* what user code has in tv_sec before clock_gettime
          PollGap,          \* bound: a waiting loop reads its clock this often
          LastCall,         \* bound on the time of the last nanosleep
          MaxTime           \* bound on time

Absent == -1
CLOCK_TSC == 0
CLOCK_HPET == 1
CLOCK_PM_TIMER == 2
CLOCK_RTC == 3

Date == [second : 0..59, minute : 0..59, hour : 0..23,
         day : 1..31, month : 1..12, year : 1970..2199]
Format == [binary : BOOLEAN, h24 : BOOLEAN, century : BOOLEAN]

\* The rate of the source that calibrates the TSC of machine m: of the best
\* source there is without it.
CalibrationRate(m) == IF m.hpet > 0 THEN FS \div m.hpet ELSE PM_TIMER_FREQ

ASSUME UnitAssumption ==
  /\ {FS, NS, Word, Word32, PM_TIMER_FREQ, PollGap, LastCall, MaxTime} \subseteq Nat \ {0}
  /\ NS % 10 = 0 /\ LapicNs \in Nat /\ PollGap <= MaxTime
  /\ Seconds \subseteq Nat /\ \A s \in Sleeps : s.tv_sec \in Nat /\ s.tv_nsec \in Nat

\* A machine: the period of its HPET and of its PM timer (in femtoseconds and
\* in ticks, of 24 or 32 bits), its TSC (whether cpuid has it, its rate) and LAPIC
\* rate, and the date and the format its RTC has at boot.
ASSUME MachineAssumption ==
  \A m \in Machines :
    /\ m.hpet \in {Absent} \cup Nat /\ (m.hpet > 0 => FS % m.hpet = 0)
    /\ m.pm = Absent \/ (m.pm \in 1..Word32 /\ Word32 % m.pm = 0)
    /\ m.hasTsc \in BOOLEAN /\ m.tsc \in Nat /\ m.lapic \in Nat
    /\ m.date \in Date /\ m.format \in Format

\* What the code relies on and does not check.  No sum of 64 bits comes round, and
\* what calibrate_tsc and lapic_timer_start compute fits: ten times a TSC of 3 GHz
\* wraps after 19 years, and a LAPIC timer of 1 GHz runs for four seconds.
ASSUME WidthAssumption ==
  \A m \in Machines :
    /\ 10 * (m.tsc * MaxTime) < Word * FS /\ PM_TIMER_FREQ * MaxTime < Word * FS
    /\ (NS \div 10) * CalibrationRate(m) < Word
    /\ m.hpet > 0 =>
         /\ MaxTime < Word * m.hpet
         /\ LapicNs * (FS \div m.hpet) + PollGap + 1 < Word
         /\ m.lapic * (LapicNs * FS + 3 * PollGap * NS) < Word32 * (FS * NS)

VARIABLES machine, time,
          pc,                  \* where the kernel is
          gap,                 \* time since a waiting loop last read its clock
          clock_list, available_clocks,
          hpetZero,            \* when hpet_init reset the main counter
          accumulated, last, pmTrue, missed,       \* pm_timer_read
          start_tsc, tsc_base,
          sleep,               \* the busy sleep under way
          boot,                \* boot_clock, boot_clock_base
          lapic,               \* the LAPIC timer: when started, count programmed
          base_rtc,
          reply                \* what the last call returned

counters == <<hpetZero, accumulated, last, pmTrue, missed, start_tsc, tsc_base>>
vars == <<machine, time, pc, gap, clock_list, available_clocks, counters, sleep,
          boot, lapic, base_rtc, reply>>

NULL == [id |-> Absent]
NoReply == [kind |-> "none"]
NoSleep == [clock |-> NULL]
-----------------------------------------------------------------------------
\* The counters.

\* A counter of frequency f after t femtoseconds.
Count(f, t) == (t * f) \div FS

Rdtsc == Count(machine.tsc, time) % Word
TicksAt(id, t) == CASE id = CLOCK_TSC -> Count(machine.tsc, t)
                    [] id = CLOCK_HPET -> (t - hpetZero) \div machine.hpet
                    [] id = CLOCK_PM_TIMER -> Count(PM_TIMER_FREQ, t)
TrueTicks(id) == TicksAt(id, time)

pm_timer_read_raw == Count(PM_TIMER_FREQ, time) % machine.pm

\* Mutant: the difference is not cut to the width of the counter.
DeltaUnmasked(current) == (current - last) % Word32

\* The distance of two readings, in 32 bits and then masked to the counter.
Delta(current) == ((current - last) % Word32) % machine.pm

\* The main counter of the HPET is taken to have 64 bits, as hpet_read64 reads
\* them: hpet_init does not ask for its size.
hpet_read == ((time - hpetZero) \div machine.hpet) % Word
tsc_read == (Rdtsc - tsc_base) % Word
pm_timer_read == (accumulated + Delta(pm_timer_read_raw)) % Word

now(c) == CASE c.id = CLOCK_TSC -> tsc_read
            [] c.id = CLOCK_HPET -> hpet_read
            [] c.id = CLOCK_PM_TIMER -> pm_timer_read

\* What reading clock c leaves behind: pm_timer_read keeps a sum.
ReadEffect(c) ==
  /\ IF c.id = CLOCK_PM_TIMER
     THEN /\ accumulated' = pm_timer_read /\ last' = pm_timer_read_raw
          /\ pmTrue' = TrueTicks(CLOCK_PM_TIMER)
          /\ missed' = (missed \/ TrueTicks(CLOCK_PM_TIMER) - pmTrue >= machine.pm)
     ELSE UNCHANGED <<accumulated, last, pmTrue, missed>>
  /\ UNCHANGED <<hpetZero, start_tsc, tsc_base>>

\* Mutant: whole seconds first, to keep the product small.
CLOCK_NS_by_seconds(c) == ((now(c) \div c.freq) * NS) % Word

CLOCK_NS(c) == ((now(c) * NS) % Word) \div c.freq

timespec_normalize(sec, nsec) == [tv_sec |-> sec + (nsec \div NS), tv_nsec |-> nsec % NS]
timespec_to_nsec(ts) == (ts.tv_sec * NS + ts.tv_nsec) % Word
-----------------------------------------------------------------------------
\* The list of clock sources.

get_clock(id) ==
  LET Found == {i \in 1..Len(clock_list) : clock_list[i].id = id} IN
  IF id \notin available_clocks \/ Found = {} THEN NULL ELSE clock_list[Min(Found)]

get_best_clock ==
  IF CLOCK_TSC \in available_clocks THEN get_clock(CLOCK_TSC)
  ELSE IF CLOCK_HPET \in available_clocks THEN get_clock(CLOCK_HPET)
  ELSE IF CLOCK_PM_TIMER \in available_clocks THEN get_clock(CLOCK_PM_TIMER)
  ELSE NULL

Register(source) == /\ clock_list' = Append(clock_list, source)
                    /\ available_clocks' = available_clocks \cup {source.id}
register_clock_source(id, freq) ==
  Register([id |-> id, now |-> TRUE, real |-> FALSE, freq |-> freq])
register_time_source(id) ==
  Register([id |-> id, now |-> FALSE, real |-> TRUE, freq |-> 0])

unlisted == UNCHANGED <<clock_list, available_clocks>>
-----------------------------------------------------------------------------
Init ==
  /\ machine \in Machines /\ time \in 0..PollGap /\ pc = "hpet" /\ gap = 0
  /\ clock_list = <<>> /\ available_clocks = {}
  /\ hpetZero = 0 /\ start_tsc = 0 /\ tsc_base = 0
  /\ accumulated = 0 /\ last = 0 /\ pmTrue = 0 /\ missed = FALSE
  /\ sleep = NoSleep /\ boot = NULL /\ lapic = [started |-> 0, count |-> 0]
  /\ base_rtc = NULL /\ reply = NoReply

\* hpet_init; a period of 0 panics.
HpetInit ==
  /\ pc = "hpet"
  /\ \/ machine.hpet = Absent /\ pc' = "pm_timer" /\ UNCHANGED hpetZero /\ unlisted
     \/ machine.hpet = 0 /\ pc' = "panic" /\ UNCHANGED hpetZero /\ unlisted
     \/ /\ machine.hpet > 0 /\ pc' = "pm_timer"
        /\ hpetZero' = time
        /\ register_clock_source(CLOCK_HPET, FS \div machine.hpet)
  /\ UNCHANGED <<machine, time, gap, accumulated, last, pmTrue, missed, start_tsc,
                 tsc_base, sleep, boot, lapic, base_rtc, reply>>

\* pm_timer_init, and the panic of clocks_init without any source.
PmTimerInit ==
  /\ pc = "pm_timer"
  /\ IF machine.pm = Absent THEN unlisted
     ELSE register_clock_source(CLOCK_PM_TIMER, PM_TIMER_FREQ)
  /\ pc' = IF available_clocks' = {} THEN "panic" ELSE "tsc"
  /\ UNCHANGED <<machine, time, gap, counters, sleep, boot, lapic, base_rtc, reply>>

\* busy_sleep_ns on clock c, which goes on at `then'.  A NULL clock faults.
busy_sleep_ns(c, ns, then) ==
  IF c = NULL THEN pc' = "crash" /\ UNCHANGED sleep
  ELSE /\ sleep' = [clock |-> c, ticks |-> ((ns * c.freq) % Word) \div NS, start |-> 0,
                    then |-> then, asked |-> ns, began |-> time]
       /\ pc' = "start"

busy_sleep_best_ns(ns, then) ==
  IF get_best_clock = NULL THEN pc' = "panic" /\ UNCHANGED sleep
  ELSE busy_sleep_ns(get_best_clock, ns, then)

\* busy_sleep_ticks reads the clock it will wait on.
SleepStart ==
  /\ pc = "start"
  /\ sleep' = [sleep EXCEPT !.start = now(sleep.clock)]
  /\ ReadEffect(sleep.clock)
  /\ pc' = "poll" /\ gap' = 0
  /\ UNCHANGED <<machine, time, clock_list, available_clocks, boot, lapic, base_rtc, reply>>

\* Mutant: the start is taken again at every turn.
SleepOverResets ==
  ~((now(sleep.clock) - now(sleep.clock)) % Word < sleep.ticks)

SleepOver == ~((now(sleep.clock) - sleep.start) % Word < sleep.ticks)

\* One turn of its loop.
SleepPoll ==
  /\ pc = "poll"
  /\ ReadEffect(sleep.clock)
  /\ gap' = 0
  /\ IF SleepOver THEN pc' = sleep.then /\ sleep' = NoSleep
     ELSE UNCHANGED <<pc, sleep>>
  /\ UNCHANGED <<machine, time, clock_list, available_clocks, boot, lapic, base_rtc, reply>>

\* tsc_init up to the sleep in calibrate_tsc.
TscInit ==
  /\ pc = "tsc"
  /\ IF machine.hasTsc
     THEN /\ start_tsc' = Rdtsc
          /\ busy_sleep_best_ns(NS \div 10, "calibrated")
     ELSE pc' = "rtc" /\ UNCHANGED <<start_tsc, sleep>>
  /\ UNCHANGED <<machine, time, gap, clock_list, available_clocks, hpetZero, accumulated,
                 last, pmTrue, missed, tsc_base, boot, lapic, base_rtc, reply>>

\* The rest of tsc_init: a frequency of 0 is not registered.
TscDone ==
  LET freq == (((Rdtsc - start_tsc) % Word) * 10) % Word IN
  /\ pc = "calibrated"
  /\ tsc_base' = Rdtsc /\ start_tsc' = 0
  /\ IF freq = 0 THEN unlisted ELSE register_clock_source(CLOCK_TSC, freq)
  /\ pc' = "rtc" /\ gap' = 0
  /\ UNCHANGED <<machine, time, hpetZero, accumulated, last, pmTrue, missed,
                 sleep, boot, lapic, base_rtc, reply>>
-----------------------------------------------------------------------------
\* The RTC.

\* A CMOS register holding x, and the hour's (the hardware, external).
CmosByte(x, f) == IF f.binary THEN x ELSE (x \div 10) * 16 + (x % 10)
CmosHour(h, f) == IF f.h24 THEN CmosByte(h, f)
                  ELSE CmosByte(IF h % 12 = 0 THEN 12 ELSE h % 12, f)
                       + (IF h >= 12 THEN 128 ELSE 0)

\* rtc_init's conversions: BCD, and the PM bit 0x80 of the hour.
FromBcd(b, f) == IF f.binary THEN b ELSE (b % 16) + (b \div 16) * 10
RtcHour(b, f) ==
  LET pm == b >= 128
      h == FromBcd(b % 128, f)
  IN IF ~f.h24 /\ pm THEN (h + 12) % 24 ELSE h + (IF pm THEN 128 ELSE 0)

\* Mutant: every fourth year is a leap year.
IS_LEAP_julian(y) == y % 4 = 0

IS_LEAP(y) == (y % 4 = 0 /\ y % 100 # 0) \/ y % 400 = 0
days_in_month == <<31, 28, 31, 30, 31, 30, 31, 31, 30, 31, 30, 31>>

\* A loop that adds up: after n turns, the sum of g[1] to g[n].
Adding(g) == LET sum[n \in Nat] == IF n = 0 THEN 0 ELSE sum[n - 1] + g[n] IN sum

YearDays == [n \in Nat |-> IF IS_LEAP(1969 + n) THEN 366 ELSE 365]
MonthDays(year) ==
  [m \in Nat |-> IF m = 2 /\ IS_LEAP(year) THEN 29
                 ELSE IF m \in 1..12 THEN days_in_month[m] ELSE 0]

days_since_epoch(year, month, day) ==
  Adding(YearDays)[year - 1970] + Adding(MonthDays(year))[month - 1] + day - 1

\* rtc_to_timespec, in days and seconds of the day (their sum in seconds needs
\* more than 32 bits); without a century register the century is 20.
rtc_to_timespec(d, f) ==
  LET century == IF f.century THEN FromBcd(CmosByte(d.year \div 100, f), f) ELSE 20
      year == FromBcd(CmosByte(d.year % 100, f), f) + (century * 100)
  IN [days |-> days_since_epoch(year, FromBcd(CmosByte(d.month, f), f),
                                FromBcd(CmosByte(d.day, f), f)),
      seconds |-> RtcHour(CmosHour(d.hour, f), f) * 3600
                  + FromBcd(CmosByte(d.minute, f), f) * 60 + FromBcd(CmosByte(d.second, f), f)]

\* rtc_init.  Its loop waits for the update flag and reads all registers twice
\* until both readings agree; here it is one read of a date that stands still, so
\* what the registers hold while they are updated is left out.
RtcInit ==
  /\ pc = "rtc"
  /\ base_rtc' = rtc_to_timespec(machine.date, machine.format)
  /\ register_time_source(CLOCK_RTC)
  /\ pc' = "boot" /\ gap' = 0
  /\ UNCHANGED <<machine, time, counters, sleep, boot, lapic, reply>>
-----------------------------------------------------------------------------
\* setup_boot_clock.
SetupBootClock ==
  LET best == get_best_clock IN
  /\ pc = "boot"
  /\ IF best = NULL THEN pc' = "panic" /\ UNCHANGED <<boot, counters>>
     ELSE /\ boot' = [id |-> best.id, freq |-> best.freq, base |-> CLOCK_NS(best),
                      ticksAtBoot |-> TrueTicks(best.id)]
          /\ ReadEffect(best)
          /\ pc' = "lapic"
  /\ UNCHANGED <<machine, time, gap, clock_list, available_clocks, sleep, lapic,
                 base_rtc, reply>>

\* lapic_timer_start up to its sleep, which is on the HPET.
LapicStart ==
  /\ pc = "lapic"
  /\ lapic' = [lapic EXCEPT !.started = time]
  /\ busy_sleep_ns(get_clock(CLOCK_HPET), LapicNs, "measured")
  /\ UNCHANGED <<machine, time, gap, clock_list, available_clocks, counters, boot,
                 base_rtc, reply>>

\* LAPIC_TIMER_CURRCNT: counting down from 0xFFFFFFFF, stopping at 0.
lapic_currcnt ==
  LET passed == Count(machine.lapic, time - lapic.started) IN
  IF passed > Word32 - 1 THEN 0 ELSE Word32 - 1 - passed

\* Mutant: the remaining count is programmed.
LapicTicksRemaining == lapic_currcnt

LapicTicks == Word32 - 1 - lapic_currcnt

\* The rest of lapic_timer_start.
LapicProgram ==
  /\ pc = "measured"
  /\ IF LapicTicks = 0 THEN pc' = "panic" /\ UNCHANGED lapic
     ELSE pc' = "run" /\ lapic' = [started |-> 0, count |-> LapicTicks]
  /\ gap' = 0
  /\ UNCHANGED <<machine, time, clock_list, available_clocks, counters, sleep, boot,
                 base_rtc, reply>>

\* A tick of the PIT leaves kmain, from here on, for the first thread, and kmain
\* is not resumed (see Sched): the LAPIC timer is then not programmed.
KmainAbandoned ==
  /\ pc \in {"lapic", "measured"} \/ (pc \in {"start", "poll"} /\ sleep.then = "measured")
  /\ pc' = "run" /\ gap' = 0 /\ sleep' = NoSleep /\ lapic' = [started |-> 0, count |-> 0]
  /\ UNCHANGED <<machine, time, clock_list, available_clocks, counters, boot, base_rtc,
                 reply>>
-----------------------------------------------------------------------------
ns_since_boot == (CLOCK_NS(boot) - boot.base) % Word

\* ns_since_boot, as setup_process_stack and uACPI call it.
ReadElapsed ==
  /\ pc = "run"
  /\ reply' = [kind |-> "elapsed", ns |-> ns_since_boot]
  /\ ReadEffect(boot)
  /\ UNCHANGED <<machine, time, pc, gap, clock_list, available_clocks, sleep, boot, lapic,
                 base_rtc>>

\* do_sys_clock_gettime(CLOCK_MONOTONIC): tv_sec keeps what the caller had.
GettimeMonotonic(sec) ==
  /\ pc = "run"
  /\ LET ns == CLOCK_NS(get_best_clock)
         ts == timespec_normalize(sec, ns)
     IN reply' = [kind |-> "monotonic", ns |-> (ts.tv_sec - sec) * NS + ts.tv_nsec]
  /\ ReadEffect(get_best_clock)
  /\ UNCHANGED <<machine, time, pc, gap, clock_list, available_clocks, sleep, boot, lapic,
                 base_rtc>>

\* do_sys_clock_gettime(CLOCK_REALTIME), whose number is that of CLOCK_TSC: no
\* source with that id has a real function, so the call goes through NULL.
GettimeRealtime ==
  /\ pc = "run"
  /\ pc' = IF get_clock(CLOCK_TSC) # NULL /\ get_clock(CLOCK_TSC).real THEN "run" ELSE "crash"
  /\ UNCHANGED <<machine, time, gap, clock_list, available_clocks, counters, sleep, boot,
                 lapic, base_rtc, reply>>

do_sys_nanosleep(duration) ==
  /\ pc = "run" /\ time <= LastCall
  /\ busy_sleep_best_ns(timespec_to_nsec(duration), "run")
  /\ reply' = NoReply
  /\ UNCHANGED <<machine, time, gap, clock_list, available_clocks, counters, boot, lapic,
                 base_rtc>>

\* Real time passes; a waiting loop comes round at least every PollGap.
Tick ==
  /\ time < MaxTime
  /\ pc \in {"start", "poll", "calibrated", "rtc", "measured", "run"}
  /\ pc # "run" => gap < PollGap
  /\ time' = time + 1
  /\ gap' = IF pc = "run" THEN 0 ELSE gap + 1
  /\ reply' = NoReply
  /\ UNCHANGED <<machine, pc, clock_list, available_clocks, counters, sleep, boot, lapic,
                 base_rtc>>

KernelStep == \/ HpetInit \/ PmTimerInit \/ TscInit \/ TscDone \/ RtcInit \/ SetupBootClock
              \/ LapicStart \/ LapicProgram \/ SleepStart \/ SleepPoll

Next == \/ KernelStep \/ Tick \/ KmainAbandoned
        \/ ReadElapsed \/ GettimeRealtime
        \/ \E s \in Seconds : GettimeMonotonic(s)
        \/ \E s \in Sleeps : do_sys_nanosleep(s)

Spec == Init /\ [][Next]_vars

\* The kernel runs on and time passes.
FairSpec == Spec /\ WF_vars(KernelStep) /\ WF_vars(Tick)
-----------------------------------------------------------------------------
\* The source that calibrates the TSC: the one that was best before it.
CalFreq == CalibrationRate(machine)

\* e femtoseconds of waiting are as long as the ns asked for, less two ticks of
\* the clock and, on the TSC, less the error of its calibration: two ticks of
\* the calibrating clock and one of the TSC in a tenth of a second.
LongEnough(c, ns, e) ==
  IF c.id = CLOCK_TSC
  THEN e * machine.tsc * NS * CalFreq
         > FS * (ns * (machine.tsc * CalFreq - 20 * machine.tsc - 10 * CalFreq)
                 - 2 * NS * CalFreq)
  ELSE e * c.freq * NS > FS * (ns * c.freq - 2 * NS)

\* busy_sleep_ns never returns early, whichever clock it waits on, however late
\* that is read and wherever its counter wraps, as long as ns * freq fits in 64
\* bits; for the TSC this is a statement about its calibration too.
SleepsLongEnough ==
  [][(pc = "poll" /\ pc' = sleep.then /\ sleep.asked * sleep.clock.freq < Word)
       => LongEnough(sleep.clock, sleep.asked, time - sleep.began)]_vars

\* Every busy sleep comes to its end, those whose length overflows included.
SleepEnds == pc \in {"start", "poll"} ~> pc \notin {"start", "poll"}

\* While the product in CLOCK_NS fits in 64 bits, and the PM timer was read in
\* each of its periods, ns_since_boot is the time since boot, to a tick.
ElapsedExact ==
  /\ (reply.kind = "elapsed" /\ ~missed /\ now(boot) * NS < Word) =>
       LET true == (TrueTicks(boot.id) - boot.ticksAtBoot) * NS IN
       /\ reply.ns * boot.freq <= true + boot.freq
       /\ true <= reply.ns * boot.freq + boot.freq
  /\ (reply.kind = "monotonic" /\ now(get_best_clock) * NS < Word) =>
       reply.ns = (now(get_best_clock) * NS) \div get_best_clock.freq

\* The scheduler's tick is programmed to LAPIC_TIMER_MS, less two ticks of the
\* HPET and one of the LAPIC, plus what the measuring loop came late.
TickPeriod ==
  lapic.count > 0 =>
    LET hf == FS \div machine.hpet IN
    /\ lapic.count * hf * NS > LapicNs * machine.lapic * hf - 2 * machine.lapic * NS - hf * NS
    /\ lapic.count * (FS * NS) <= machine.lapic * (LapicNs * FS + 3 * PollGap * NS)

\* Days before a date by the Gregorian calendar, from leap years counted.
DaysRef(y, m, d) ==
  LET leaps(n) == ((n \div 4) - (n \div 100)) + (n \div 400)
      before == <<0, 31, 59, 90, 120, 151, 181, 212, 243, 273, 304, 334>>
  IN (365 * (y - 1970)) + leaps(y - 1) - leaps(1969) + before[m]
     + (IF m > 2 /\ leaps(y) > leaps(y - 1) THEN 1 ELSE 0) + d - 1

\* rtc_init turns the registers into the seconds since 1970 in every format,
\* across leap years and centuries; the twelfth hour of a 12-hour clock apart,
\* which it takes for 0 at noon and for 12 at midnight.
RtcExact ==
  LET d == machine.date IN
  (/\ pc \in {"boot", "lapic", "run"}
   /\ machine.format.h24 \/ d.hour % 12 # 0
   /\ machine.format.century \/ d.year \in 2000..2099) =>
    base_rtc = [days |-> DaysRef(d.year, d.month, d.day),
                seconds |-> d.hour * 3600 + d.minute * 60 + d.second]
=============================================================================
