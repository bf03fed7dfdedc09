SPECIFICATION FormSpec
CONSTANTS
  Roms <- MCRoms
  ListItems = {"p.gb"}
  MaxRounds = 3
  MaxMatches = 3
INVARIANT
  LoadedRegionKept
CHECK_DEADLOCK FALSE
