SPECIFICATION FairSpec
CONSTANTS
  FS = 120
  NS = 240
  Word = 16384
  Word32 = 64
  PM_TIMER_FREQ = 40
  LapicNs = 12
  Machines <- MCMachines
  Sleeps <- MCSleeps
  Seconds = {0, 2}
  PollGap = 1
  LastCall = 34
  MaxTime = 90
INVARIANTS
  ElapsedExact
  TickPeriod
  RtcExact
PROPERTIES
  SleepsLongEnough
  SleepEnds
CHECK_DEADLOCK FALSE
