SPECIFICATION FairSpec
CONSTANTS
  None = None
  Bytes <- SmallBytes
  Texts <- SmallTexts
INVARIANT
  NothingLost
PROPERTY
  AllPrinted
CHECK_DEADLOCK FALSE
