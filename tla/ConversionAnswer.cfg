SPECIFICATION Spec
CONSTANTS
  r1 = r1
  r2 = r2
  a = a
  b = b
  Runs = {r1}
  N = 1
  Names = {a, b}
  Output <- OtherOutput
  SingleName = a
  MaxSuffix = 1
  Outside = {}
  Pages = {"game"}
  None = None
  Absent = Absent
  Torn = Torn
  UserFile = UserFile
INVARIANT GuiSurvives
CHECK_DEADLOCK FALSE
