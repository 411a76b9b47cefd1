SPECIFICATION Spec
CONSTANTS
  Cores = {c0, c1}
  BootCore = c0
  NoCore = NoCore
INVARIANT
  NoFalseReport
