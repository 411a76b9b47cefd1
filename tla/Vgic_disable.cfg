SPECIFICATION Spec
CONSTANTS
  NVcpu = 2
  W = 2
  P = 2
  Bank = 3
  Lines = 4
  Stride = 8
PROPERTY
  DisableDisables
