SPECIFICATION FairSpec
CONSTANTS
  Irqs = {sgi, uart, blk}
  Edge = {sgi}
  Retractable = {uart}
  Spurious = spurious
  NumLRs = 3
  MaxRaises = 5
CHECK_DEADLOCK FALSE
INVARIANTS
  UsedMatchesHardware
  ActiveAccounted
  IInv
  RegisterAvailable
PROPERTIES
  NeverOverwritten
  Delivered
  ImplementsDelivery
