CONSTANTS
  AppMain = AppMain
  MaxObjects = 256
  Files <- SwFiles
  Dirs <- SwDirs
SPECIFICATION Spec
INVARIANT RelayTarget
