SPECIFICATION Spec
CONSTANTS
  r1 = r1
  r2 = r2
  r3 = r3
  w1 = w1
  w2 = w2
  i1 = i1
  i2 = i2
  o1 = o1
  o2 = o2
  o3 = o3
  o4 = o4
  Readers <- MCReaders
  Writers <- NoWriters
  Instance <- MCInstance
  Objects <- MCObjects
  Renews <- NoWriters
  Annotations <- OneAnnotation
  None = None
  throughPermits = 1
  MaxVersion = 2
  MaxCount = 3
INVARIANT ThroughPermitsHold
