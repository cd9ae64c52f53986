SPECIFICATION Spec
CONSTANTS
  Cpu = {c1, c2}
  Ops <- MCKmalloc
  Growth = TRUE
  MaxCalls = 1
PROPERTY
  CallsReturn
CHECK_DEADLOCK FALSE
