SPECIFICATION Spec
CONSTANTS
  None = None
  Sectors = {0, 1}
  Blocks = {pattern, other, third}
  Disks <- SmallDisks
  Lying = TRUE
  Pattern = pattern
INVARIANTS
  KeepsTheDisk
  PassMeansStored
