SPECIFICATION FairSpec
CONSTANTS
  r1 = r1
  r2 = r2
  a = a
  b = b
  Runs = {r1}
  N = 3
  Names = {a, b}
  Output <- ThreeOutputs
  SingleName = a
  MaxSuffix = 2
  Outside <- FirstFile
  Pages = {"playlist"}
  None = None
  Absent = Absent
  Torn = Torn
  UserFile = UserFile
INVARIANTS
  AtMostOneLateCommit
  CountsAddUp
PROPERTIES
  NoUnaskedOverwrite
  CancelEnds
  EndsOrAsks
CHECK_DEADLOCK FALSE
