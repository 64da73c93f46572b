CONSTANTS
  w1 = w1
  w2 = w2
  w3 = w3
  Worker = {w1, w2, w3}
  OwnerOf <- MCOwnerOf
  NoOwner = NoOwner
  MaxVersion = 2
  MaxFence = 3
  MaxIdleFence = 3
  MaxFaults = 2
  ManualSteps = FALSE
  ClockTies = FALSE
SPECIFICATION MCSpec
CHECK_DEADLOCK FALSE
INVARIANTS
  FenceNamesOwner
  WorkExecutedOnce
  StopAdmitsOneStep
  EndsAreJustified
PROPERTIES
  OnlyHolderWrites
  EndsAreFinal
