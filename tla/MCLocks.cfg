SPECIFICATION LocksSpec
CONSTANTS
  Cpu = {c1, c2}
  Lock = {1, 2, 3}
  SoftLock = {1}
  IrqLock = {3}
INVARIANTS
  MutualExclusion
  HardHolderUninterrupted
  FlagGivenBack
  
  BufferSound
  
  ScreenSound
PROPERTY EveryCallReturns
CHECK_DEADLOCK FALSE
