SPECIFICATION MCSpec
CONSTANTS
  Cores = {c0, c1}
  Primary = c0
  NRegs = 3
  Uart = 1
INVARIANTS
  NoIrqAtEl2
  ActiveIsServed
  IInv
PROPERTIES
  GuestsUndisturbed
  CoreComesUp
  PendingIsServed
