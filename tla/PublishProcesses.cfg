SPECIFICATION Spec
CONSTANTS
  w1 = w1
  w2 = w2
  w3 = w3
  w4 = w4
  p1 = p1
  p2 = p2
  Writers = {w1, w2}
  Processes = {p1, p2}
  Process <- TwoProcesses
  Way <- Staged
  Replacing = {w1, w2}
  Validating = {w1}
  Windows = FALSE
  Crashing = {}
  MaxSerial = 2
  MaxAttempts = 2
  Absent = Absent
  Placeholder = Placeholder
  Old = Old
  None = None
INVARIANT StageOwned
CHECK_DEADLOCK FALSE
