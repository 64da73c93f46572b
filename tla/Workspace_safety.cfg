CONSTANTS
  p1 = p1
  p2 = p2
  Process <- Workers
  Creates <- AllCreates
  Decisions <- AllDecisions
  MaxCalls = 5
  MaxStops = 2
  Populated = {1, 4, 6, 7, 9, 10, 11, 12}
  b1 = b1
  b2 = b2
  Backend <- Backends
  SourceOf <- MCSourceOf
  Sound = {"v7"}
  Page = 2
  MaxFailures = 1
  MaxIntrusions = 1
  MaxBackendStops = 1
SYMMETRY MCSymmetry
SPECIFICATION MCSpec
CHECK_DEADLOCK FALSE
INVARIANTS
  UpgradesKeepRows
  ReviewsReopen

  
