SPECIFICATION DevicesSpec
CONSTANTS
  a = a  b = b  link = link  na = na  nb = nb  old = old
  Devs = {a, b}
  Links = {link}
  Outcomes <- COutcomes
  Kernel <- CKernel
  NoName = NoName
  MaxRuns = 3
  i1 = i1  i2 = i2  i3 = i3  x = x  y = y  z = z
  Ifs = {i1, i2, i3}
  IfName <- CIfName
  Targets <- CTargets
  Temp <- CTemp
  NoTarget = NoTarget
  MaxTries = 3
  RuleFiles <- CRuleFiles
  Chain <- CChain
  EnvKeys <- CEnvKeys
  Uevent <- CUevent
  Starts <- CStarts
  Outputs <- COutputs
  Imports <- CImports
  Stored <- CStored
  MemProcs = {p1, p2}
  NoOwner = NoOwner
  MEMSIZE = 2
  Cells = {1, 2}
  Offsets <- COffsets
  UIntRange = 8
  MaxMemCalls = 3
INVARIANT OldNameIsRight
CHECK_DEADLOCK FALSE
