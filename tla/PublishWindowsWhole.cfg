SPECIFICATION Spec
CONSTANTS
  w1 = w1
  w2 = w2
  w3 = w3
  w4 = w4
  p1 = p1
  p2 = p2
  Writers = {w1, w2, w3}
  Processes = {p1}
  Process <- SameProcess
  Way <- AllWays
  Replacing = {w1, w3}
  Validating = {w1}
  Windows = TRUE
  Crashing = {p1}
  MaxSerial = 3
  MaxAttempts = 2
  Absent = Absent
  Placeholder = Placeholder
  Old = Old
  None = None
INVARIANT NoOrphan
PROPERTY PublishesAtomically
CHECK_DEADLOCK FALSE
