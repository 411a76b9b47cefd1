SPECIFICATION FairSpec
CONSTANTS
  v0 = v0
  v1 = v1
  Vcpus = {v0, v1}
  Regs = {0}
  Xzr = 31
  Files <- MCFiles
  Bytes = {0, 1}
  NBytes = 2
  Garbage <- MCGarbage
  Ranges <- MCRanges
  Layout <- MCLayout
  Prio <- MCPrio
  Stride = 4
  NVcpu = 2
  Frames <- MCFrames
  Id <- MCId
  DistId <- MCDistId
  NPrivate = 1
  NSpis = 1
  Spis = spis
  Ipas <- MCIpas
  Accesses <- MCAccesses
CHECK_DEADLOCK FALSE
INVARIANTS
  IInv
PROPERTIES
  ImplementsAtomicMmio
  AccessReturns
