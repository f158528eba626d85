SPECIFICATION Spec
CONSTANTS
  t1 = t1
  t2 = t2
  t3 = t3
  Thread <- MCThread
  NoOne = NoOne
  Mode <- AllModes
  Interrupted <- TimedAndLock
INVARIANT MutualExclusion
