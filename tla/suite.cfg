SPECIFICATION FairSpec
CONSTANTS
  None = None
  RrQuantum = 4
  MlfqQuantums <- SuiteQuantums
  BoostInterval = 60
  MinGranularity = 2
  TargetSlice = 6
  MaxTicks = 500000
  Workloads <- WorkloadSuite
  SchedulerNames = {"FCFS", "SJF", "RR", "MLFQ"}
INVARIANTS
  RrBoundedWait
  MlfqBoundedWait
PROPERTIES
  AllComplete
