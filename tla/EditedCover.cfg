SPECIFICATION WorkspaceSpec
CONSTANTS
  Playlists <- MCPlaylists
  GameFolders <- MCGameFolders
  ImageFolders <- MCImageFolders
  Edits <- MCEdits
  MaxScans = 1
INVARIANT
  SavedCoversKept
CHECK_DEADLOCK FALSE
