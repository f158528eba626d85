SPECIFICATION FailoverSpec
CONSTANTS
  a1 = a1
  a2 = a2
  b1 = b1
  a = a
  b = b
  h1 = h1
  h2 = h2
  db0 = db0
  db1 = db1
  c1 = c1
  c2 = c2
  Nothing = Nothing
  Current = Current
  Host <- Hosts
  Caller <- TwoCallers
  callAttempts = 3
  connectionAttempts = 2
  deadFailureThreshold = 2
  master = db0
  readSlaves <- OneSlave
  writeSlaves <- OneSlave
  MaxFaults = 1
  Id <- MCId
  Address <- MCAddress
  MaxFalse = 1
  MaxLeave = 1
PROPERTIES MembersAreKept LeaderIsKept ListConverges OutForCause WhatWorksIsUsed
CHECK_DEADLOCK FALSE
