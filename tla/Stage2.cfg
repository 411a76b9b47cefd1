SPECIFICATION FairSpec
CONSTANTS
  Fan = 2
  NPages = 18
  Configs <- AllConfigs
  Sound <- GoodConfigs
CHECK_DEADLOCK FALSE
INVARIANT
  OnePageOneOwner
  IInv
  GuestMemoryReady
PROPERTY
  BootCompletes
  ImplementsIpaMap
