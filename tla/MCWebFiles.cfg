CONSTANTS
  Folders <- MCFolders
  Root <- MCRoot
  Dest <- MCa
  Inodes <- MCInodes
  MaxVersion = 5
SPECIFICATION FilesSpec
INVARIANTS
  CacheIsFresh
  UnwatchedWasGone
  WatchHasItsPath
CHECK_DEADLOCK FALSE
