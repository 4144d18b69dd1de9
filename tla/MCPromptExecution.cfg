SPECIFICATION PromptSpec
CONSTANTS
  Request = {r1, r2}
  Command = {p1, p2, s1}
  Payload = {x}
  Outcome = {"accepted", "failed"}
  Ack = {"accepted"}
  Conflict = Conflict
  None = None
  Ttl = 1
  MaxCompleted = 1
  MaxTime = 0
  Steer = {s1}
  ImagePrompt = {p2}
  ExitFirst = TRUE
  MaxPending = 2
  MaxRun = 2
SYMMETRY Symmetry
VIEW View
INVARIANTS PromptTypeOK  NoSecondExecution
CHECK_DEADLOCK FALSE
