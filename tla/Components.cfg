SPECIFICATION ComponentsSpec
CONSTANTS
  Exports <- MCExports
  OldPaths <- MCOld
  MaxCopy = 2
  Earlier = Earlier
  MaxSize = 5
  Chunk = 2
  Word = 8
  Requests <- MCRequests
  MaxChunks = 5
  Limit = 64
  Align = 4
  Overhead = 2
  SaveReserve = 3
  MinCapacity = 6
  Bases = {4, 5, 30, 63}
  SaveCounts = {0, 1, 3, 7}
  SaveSizes = {0, 1, 9, 40, 60}
  Playlists <- MCSmallPlaylists
  GameFolders <- MCGameFolders
  ImageFolders <- MCImageFolders
  Edits <- MCEdits
  MaxScans = 1
  Art <- MCArt
  Broken = {"r"}
  CacheSize = 1
  MaxRequests = 4
  MaxPacks = 2
  Roms <- MCRoms
  ListItems = {"p.gb"}
  MaxRounds = 3
  MaxMatches = 2
  t1 = t1
  c1 = c1
  c2 = c2
  c3 = c3
  Targets = {t1}
  Commits = {c1, c2, c3}
  MaxBackup = 3
  Absent = Absent
  Original = Original
  Torn = Torn
  NoCommit = NoCommit
INVARIANTS
  ItemsLeadToTheirGames
  CoverFoundByRomName
  RomsAreListed
  GamesAccountedFor
  NothingLeftStaged
  ReadsExact
  OutputComplete
  FailureLeavesNothing
  EntriesInOrder
  AcceptsExactlyPng
  FootersReadable
  PlatformKept
  ReserveHoldsSaves
  EditorBacked
  SavedTitlesKept
  PlanFresh
  ConvertsWhatWasAsked
  LatestPictureShown
  MatchOfThisGame
  PacksChosenRom
  TargetGivenBack
PROPERTIES
  OldFilesKept
  CancelEnds
  CallsReturn
  EditNeverShrinks
  KeepsPromise
  CommitsInOneStep
CHECK_DEADLOCK FALSE
