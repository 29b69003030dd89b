SPECIFICATION FairSpec
CONSTANTS
  None = None
  RrQuantum = 2
  MlfqQuantums <- SmallQuantums
  BoostInterval = 5
  MinGranularity = 2
  TargetSlice = 4
  MaxTicks = 60
  Workloads <- SmallWorkloads
  SchedulerNames <- SchedulerSuite
INVARIANTS
  TypeOK
  ReadyQueueExact
  NoMissedWakeup
  WorkConserving
  TimeAccounting
  SwitchLogTellsRun
  LatenciesAreWaits
  StarvationCountExact
  ReportBalances
  PercentilesHaveRank
PROPERTIES
  LoggedReadyLenExact
  AllComplete
