SPECIFICATION Spec
CONSTANTS
  None = None
  RrQuantum = 3
  MlfqQuantums <- SmallQuantums
  BoostInterval = 7
  MinGranularity = 2
  TargetSlice = 6
  MaxTicks = 100
  Workloads <- LongWorkloads
  SchedulerNames <- SchedulerSuite
INVARIANTS
  PolicyTracksRun
  FifoByReadiness
  RrBoundedWait
  MlfqLevelsMatch
  MlfqBoundedWait
  CfsFairShare
PROPERTIES
  ImplementsContract
  PreemptionJustified
  CfsPreemptionYields
