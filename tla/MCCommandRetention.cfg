SPECIFICATION RetentionSpec
CONSTANTS
  Request = {r1, r2}
  Command = {c1, c2, c3}
  Payload = {p1, p2}
  Outcome = {ok}
  Ack = {early}
  Conflict = Conflict
  None = None
  Ttl = 2
  MaxCompleted = 2
  MaxTime = 2
SYMMETRY Symmetry
INVARIANTS TypeOK SingleFlight WaitersHaveRunner AnswersAgree
PROPERTIES DroppedWhenDue
CHECK_DEADLOCK FALSE
