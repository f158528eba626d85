SPECIFICATION Spec
CONSTANTS
  n1 = n1
  n2 = n2
  w1 = w1
  w2 = w2
  Ids = {1}
  Enqueuers = {n1, n2}
  Workers = {w1, w2}
  BatchSize = 1
  MaxAttempts = 2
  IntervalFactor = 1
  ResubmitInterval = 2
  RetryEvery = 2
  ResubmitEvery = 2
  MaxFailures = 1
INVARIANTS TypeOK FewCopies OneWorker
PROPERTIES EndedIsFinal EveryRowEnds
