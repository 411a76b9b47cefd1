SPECIFICATION FairSpec
CONSTANTS
  NCPU = 4
  NVcpu = 3
  BootEntry = boot
  NoEntry = none
  Entries = {sec}
  Targets = {1, 2}
  Repeat = FALSE
  MaxOff = 2
CHECK_DEADLOCK FALSE
INVARIANTS
  WokenCoreIsSetUp
  IInv
PROPERTIES
  ResumesWhereExpected
  ReachesGuest
