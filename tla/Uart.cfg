SPECIFICATION FairSpec
CONSTANTS
  Irq = uart
  None = none
INVARIANTS
  StrandedOnlyInWindow
  LossNeedsOverlap
  IInv
PROPERTIES
  EchoedUnlessStranded
