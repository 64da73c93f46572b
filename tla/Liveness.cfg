CONSTANTS
  w1 = w1
  w2 = w2
  o1 = o1
  o2 = o2
  o3 = o3
  x = x
  y = y
  Worker = {w1, w2}
  OwnerOf <- MCOwnOwner
  NoOwner = NoOwner
  MaxVersion = 2
  MaxFence = 6
  MaxIdleFence = 1
  MaxFaults = 1
  ManualSteps = FALSE
  ClockTies = FALSE
SPECIFICATION FairSpecs
CHECK_DEADLOCK FALSE
PROPERTIES
  StopSettles
  RuntimeEnds
  OrdersAndAttemptsEnd
