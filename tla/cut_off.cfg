SPECIFICATION Spec
CONSTANTS
  None = None
  RrQuantum = 2
  MlfqQuantums <- SmallQuantums
  BoostInterval = 5
  MinGranularity = 2
  TargetSlice = 4
  MaxTicks = 7
  Workloads <- PairWorkloads
  SchedulerNames <- SchedulerSuite
INVARIANTS
  CutOffExact
