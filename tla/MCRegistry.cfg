CONSTANTS
  f1 = f1
  f2 = f2
  f3 = f3
  f4 = f4
  f5 = f5
  AppMain = AppMain
  MaxObjects = 4
  Files <- MCFiles
  Dirs <- MCDirs
SYMMETRY FileSymmetry
SPECIFICATION Spec
INVARIANTS
  TypeOK
  OverflowOnlyWhenFull
  IInv
  RegistrationOrder
  DevicesInOrder
PROPERTIES
  ImplementsLinks
  BootProgress
