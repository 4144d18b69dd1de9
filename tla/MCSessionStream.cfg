SPECIFICATION Spec
CONSTANTS
  Entry = {a, b}
  None = None
  RingSize = 2
  RebaseBudget = 1
  ReplayBudget = 2
  MaxEpoch = 1
  MaxSeq = 3
  MaxLen = 2
  MaxGeneration = 2
  MaxAttach = 1
  MaxWire = 2
SYMMETRY Symmetry
INVARIANTS TypeOK QuietInSync GapAnswered
 
CHECK_DEADLOCK FALSE
