SPECIFICATION Spec
CONSTANTS
  Boot = Boot
  LoadInit = LoadInit
  InitThread = InitThread
  NoThread = NoThread
  Regs = {r1, r2}
  EntryRegs = r1
  FpuDefault = r1
  FsBases = {f0, f1}
  NullFs = f0
  EarlyTicks = TRUE
  ResumeOutcomes = {"return"}
INVARIANT
  NeverReturns
CHECK_DEADLOCK FALSE
