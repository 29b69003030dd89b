SPECIFICATION FairSpec
CONSTANTS
  EarlyTimers = {"off", "due"}
  ReturnsTo = {"wfi", "stvec", "spin"}
INVARIANT
  OneTickPerEnable
PROPERTY
  FirstTick
CHECK_DEADLOCK FALSE
