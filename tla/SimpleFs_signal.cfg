SPECIFICATION Spec
CONSTANTS
  p1 = p1  p2 = p2  nRoot = nRoot  nWelcome = nWelcome  nFile = nFile  nDir = nDir  nInner = nInner
  NoProc = NoProc  NoName = NoName
  Procs = {p1, p2}
  Paths = {nRoot, nWelcome, nFile, nDir, nInner}
  Root = nRoot
  Welcome = nWelcome
  Parent <- TreeParent
  Kind <- TreeKind
  Blocks = {0, 1, 2, 3, 4, 5, 6}
  IntBits = 8
  MaxObjects = 5
  DirCap = 4
  FileSizes = {1}
  Stale = {0}
  May <- GrowMay
  Signalled = {p1, p2}
  MaxCrashes = 0
SYMMETRY AlikeProcs
INVARIANTS GivenOutOnce
