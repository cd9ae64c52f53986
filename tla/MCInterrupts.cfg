SPECIFICATION MCSpec
CONSTANTS
  Cpu = {b, a}
  Boot = b
  ZeroId = a
  PIT_FREQ_HZ = 2000
  Targets = {1000, 500}
  CounterMax = 2
  Scale = 1000
  Waits = {3}
  MaxTicks = 3
  MaxClocks = 2
INVARIANTS
  ServiceExact
  TimerSound
PROPERTY ServiceAndWaitsEnd
