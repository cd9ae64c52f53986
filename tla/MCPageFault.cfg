SPECIFICATION Spec
CONSTANTS
  Cpu = {c1, c2}
  LastPage = 4
  Ram = {2}
  Extra = 2
  Padding = 6
  Step = 2
  MinPadding = 1
  NestedFaults = TRUE
INVARIANT
  PaddingKept
  FlagMeansServicing
PROPERTY
  FaultEnds
CHECK_DEADLOCK FALSE
