CONSTANTS
  k1 = k1
  k2 = k2
  a1 = a1
  a2 = a2
  r1 = r1
  r2 = r2
  x = x
  y = y
  Key = {k1, k2}
  Actor = {a1, a2}
  Stream <- MCStream
  Runtime <- MCRuntime
  RiskPolicy <- MCRiskPolicy
  Entry <- MCEntry
  MaxMoney = 9
  MaxVersion = 3
  Replay = {r1, r2}
  Process = {a1, a2}
  EventId = {1, 2, 3}
  Time = {1, 2}
  EventPayload = {x, y}
  MaxEvents = 3
  RecordRuntime = {"r"}
  Configured <- MCConfigured
  Wants <- MCWants
  Trade <- MCTrade
  AccountAt <- MCAccountAt
  RecordPolicy <- MCRecordPolicy
  MaxReceipts = 3
  MaxHarm = 1
SYMMETRY MCSymmetry
SPECIFICATION MCSpec
CHECK_DEADLOCK FALSE
INVARIANTS
  CommandsConverge
  AllowedOrdersAreRight
  RecordsAreSound
PROPERTIES
  EventsHandedOutOnce
