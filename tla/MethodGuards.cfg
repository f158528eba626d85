SPECIFICATION GuardsSpec
CONSTANTS
  t1 = t1
  t2 = t2
  t3 = t3
  NoOne = NoOne
  Thread <- MCThread
  Limits <- OneAndTwo
  Mode <- AllModes
  MaxCrash = 1
  LockMode <- LockModes
  InnerMode <- InnerModes
  Interrupted <- TimedOnly
  PermitMode <- PermitModes
  JvmLimits <- OnlyTwo
INVARIANTS CounterAccounts MapNamesTheHolder
PROPERTIES ImplementsPermits ImplementsLock StandalonePermits CallsGetOn
