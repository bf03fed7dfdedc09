SPECIFICATION Spec
CONSTANTS
  r1 = r1
  r2 = r2
  a = a
  b = b
  Runs = {r1, r2}
  N = 1
  Names = {a}
  Output <- OneOutput
  SingleName = a
  MaxSuffix = 2
  Outside <- FirstFile
  Pages = {"playlist", "game"}
  None = None
  Absent = Absent
  Torn = Torn
  UserFile = UserFile
SYMMETRY RunSymmetry
INVARIANTS
  TypeOK
  OneConversion
  PromptReachable
  NoStagedLeftover
CHECK_DEADLOCK FALSE
