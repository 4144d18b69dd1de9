SPECIFICATION PromptSpec
CONSTANTS
  Request = {r1}
  Command = {p1, s1}
  Payload = {x}
  Outcome = {"accepted", "failed"}
  Ack = {"accepted"}
  Conflict = Conflict
  None = None
  Ttl = 1
  MaxCompleted = 1
  MaxTime = 0
  Steer = {s1}
  ImagePrompt = {}
  ExitFirst = TRUE
  MaxPending = 2
  MaxRun = 2
INVARIANT NothingOutlivesChild
CHECK_DEADLOCK FALSE
