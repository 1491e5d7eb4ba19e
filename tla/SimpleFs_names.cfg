SPECIFICATION FairSpec
CONSTANTS
  p1 = p1  p2 = p2  nRoot = nRoot  nWelcome = nWelcome  nFile = nFile  nDir = nDir  nInner = nInner
  NoProc = NoProc  NoName = NoName
  Procs = {p1, p2}
  Paths = {nRoot, nWelcome, nDir, nInner}
  Root = nRoot
  Welcome = nWelcome
  Parent <- SmallParent
  Kind <- SmallKind
  Blocks = {0, 1, 2, 3, 4, 5}
  IntBits = 8
  MaxObjects = 4
  DirCap = 4
  FileSizes = {1}
  Stale = {0}
  May <- OwnerMay
  Signalled = {}
  MaxCrashes = 0
PROPERTIES ImplementsNameSpace CallReturns
