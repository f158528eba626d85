SPECIFICATION GeneratorsSpec
CONSTANTS
  t1 = t1
  t2 = t2
  t3 = t3
  NoOne = NoOne
  Thread <- TwoThreads
  Base = 2
  ClockSteps <- Forward
  FirstCycle = 1
  LastCycle = 3
  MayOverflow = TRUE
  Steps <- BothWays
  LastTurn = 2
  MaxSuffix = 3
  MaxRowSuffix = 2
  MaxCrash = 1
  Home <- TwoInstances
  cacheSize = 2
  MaxValue = 4
  MaxRestarts = 1
  MaxFailures = 1
  workerId = 2
  workerIdBits = 2
  sequenceBits = 2
  Patience = 3
  LastTime = 6
  MaxBack = 2
INVARIANTS TypeOK UniqueNumbers IssuedOnce IdsGrow
PROPERTIES CounterGrows NumbersInOrder
CHECK_DEADLOCK FALSE
