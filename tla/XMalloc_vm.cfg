SPECIFICATION BootSpec
CONSTANTS
  WordSize = 8
  SliceBit = 10
  SliceNum = 8
  Objects <- VmObjects
  Size <- VmSize
  Used <- VmUsed
CHECK_DEADLOCK FALSE
INVARIANT
  ObjectsApart
