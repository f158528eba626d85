SPECIFICATION Spec
CONSTANTS
  a = a
  b = b
  t1 = t1
  t2 = t2
  t3 = t3
  Jvm <- MCJvm
  Thread <- MCThread
  JvmOf <- MCJvmOf
  NoOne = NoOne
  Ghost = Ghost
  Off = Off
  TTL = 6
  Lag = 1
  Races = TRUE
  MaxCrash = 0
INVARIANT MutualExclusion
