SPECIFICATION PoolSpec
CONSTANTS
  WordSize = 2
  SliceBit = 3
  SliceNum = 2
  Objects <- MCObjects
  Size <- MCSize
  Used <- MCSize
CHECK_DEADLOCK FALSE
INVARIANT
  ObjectsApart
  ListsAreRight
PROPERTY
  FailsOnlyWhenFull
