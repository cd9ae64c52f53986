SPECIFICATION StartupSpec
CONSTANTS
  AP = {1, 2, 3}
  LapicIds <- MCLapicIds
  Dead = {}
  Garbage = {0}
  Madts <- Tables
  Lists <- RangeLists
INVARIANTS
  
  MemoryMapExact
  
  StacksDistinct
  
  CpuIdsContiguous
  OkMeansAllUp
PROPERTY
  ProcessorsComeUp
CHECK_DEADLOCK FALSE
