CONSTANTS
  Slot = {r1}
  Fallback = TRUE
  MaxInbound = 2
  MaxEnds = 2
  MaxEpoch = 2
  MaxSeq = 1
  MaxLine = 2
  MaxLives = 1

SPECIFICATION MCSpec

INVARIANT TypeOK
INVARIANT Driven
INVARIANT EndsSettled
INVARIANT RequestsLive
INVARIANT BudgetEarned
INVARIANT WelcomeKept
INVARIANT Flushed
INVARIANT ClosedFlushed

PROPERTY StoreAdvances
 

\* A closed client is at rest.
CHECK_DEADLOCK FALSE
