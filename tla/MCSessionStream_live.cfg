SPECIFICATION FairSpec
CONSTANTS
  Entry = {a}
  None = None
  RingSize = 2
  RebaseBudget = 0
  ReplayBudget = 1
  MaxEpoch = 1
  MaxSeq = 2
  MaxLen = 1
  MaxGeneration = 2
  MaxAttach = 1
  MaxWire = 2
PROPERTIES  Converges
CHECK_DEADLOCK FALSE
