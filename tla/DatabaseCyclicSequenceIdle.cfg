SPECIFICATION Spec
CONSTANTS
  t1 = t1
  t2 = t2
  Thread <- TwoThreads
  NoOne = NoOne
  ClockSteps <- Forward
  LastCycle = 2
  MaxSuffix = 3
  MaxCrash = 0
  Idle = TRUE
CHECK_DEADLOCK FALSE
INVARIANT UniqueNumbers
