SPECIFICATION SharedSpec
CONSTANTS
  Entry = {a, b}
  None = None
  RingSize = 2
  RebaseBudget = 1
  ReplayBudget = 2
  MaxEpoch = 1
  MaxSeq = 2
  MaxLen = 2
  MaxGeneration = 2
  MaxAttach = 1
  MaxWire = 2
SYMMETRY Symmetry
INVARIANTS Faithful
PROPERTIES FeedSpec
CHECK_DEADLOCK FALSE
