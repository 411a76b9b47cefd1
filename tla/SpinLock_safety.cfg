SPECIFICATION FairSpec
CONSTANTS
  Cores = {c0, c1, c2}
  BootCore = c0
  NoCore = NoCore
INVARIANTS
  MutualExclusion
  IInv
PROPERTIES
  SomeoneGetsIn
  ImplementsLock
