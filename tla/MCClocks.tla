------------------------------ MODULE MCClocks ------------------------------
(* A second of 120 femtoseconds and 240 nanoseconds: an HPET of 120 or 60    *)
(* ticks a second, a PM timer of 40 that wraps after 16 or 64, a TSC of 240. *)
(* A word of 2^14 lets the product in CLOCK_NS and that in busy_sleep_ns     *)
(* overflow within the run, as 2^64 does after seconds.                      *)
EXTENDS Clocks
D(y, m, d, h) == [year |-> y, month |-> m, day |-> d, hour |-> h, minute |-> 59, second |-> 30]
F(b, h, c) == [binary |-> b, h24 |-> h, century |-> c]
M(hpet, pm, has, tsc, date, format) ==
  [hpet |-> hpet, pm |-> pm, hasTsc |-> has, tsc |-> tsc, lapic |-> 240,
   date |-> date, format |-> format]
MCMachines ==
  { M(1, 16, TRUE, 240, D(2100, 3, 1, 23), F(FALSE, TRUE, TRUE)),
    M(2, 64, FALSE, 0, D(2000, 3, 1, 13), F(TRUE, FALSE, FALSE)),
    M(2, Absent, TRUE, 0, D(2024, 2, 29, 15), F(FALSE, FALSE, TRUE)),
    M(Absent, 16, TRUE, 240, D(1999, 12, 31, 1), F(FALSE, FALSE, TRUE)),
    M(Absent, 16, FALSE, 0, D(2099, 1, 1, 0), F(FALSE, TRUE, FALSE)),
    M(0, 16, TRUE, 240, D(1970, 1, 1, 0), F(TRUE, TRUE, TRUE)),
    M(Absent, Absent, TRUE, 240, D(1970, 1, 1, 0), F(TRUE, TRUE, TRUE)) }
Dur(s, n) == [tv_sec |-> s, tv_nsec |-> n]
MCSleeps == {Dur(0, 0), Dur(0, 60), Dur(0, 80)}
=============================================================================
