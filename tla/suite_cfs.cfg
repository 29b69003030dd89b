SPECIFICATION FairSpec
CONSTANTS
  None = None
  RrQuantum = 4
  MlfqQuantums <- SuiteQuantums
  BoostInterval = 60
  MinGranularity = 2
  TargetSlice = 6
  MaxTicks = 500000
  Workloads <- UniformWorkloads
  SchedulerNames = {"CFS-like"}
PROPERTIES
  CfsPreemptionYields
