SPECIFICATION Spec
CONSTANTS
  None = None
  Intent <- MCIntent
  OrderOf <- MCOrderOf
  Opening <- MCOpening
  Stream <- MCStream
  Price = {1, 2, 3}
  Scale = 4
  FullRate = 10
  MaxOrders = 2
  MaxDecisions = 2
  MaxMoves = 1
CHECK_DEADLOCK FALSE
INVARIANTS
  AllowedIsSettled
  TradesAreRight
  RowsAreJudged
PROPERTY FollowsExecution
