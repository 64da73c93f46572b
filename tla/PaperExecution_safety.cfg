CONSTANTS
  o1 = o1
  o2 = o2
  o3 = o3
  o4 = o4
  a1 = a1
  a2 = a2
  r1 = r1
  x = x
  Order = {o1, o2, o3, o4}
  Account = {a1, a2}
  Replay = {r1}
  Instrument = {x}
  NoOrder = NoOrder
  AccountOf <- MCAccountOf
  ReplayOf <- MCReplayOf
  SessionOf <- MCSessionOf
  InstrumentOf <- MCInstrumentOf
  Requested <- MCRequested
  Cap <- MCCap
  Stream <- MCStream
  Seeded <- MCSeeded
  ListLimit = 1
  MaxRepeats = 1
  MaxMoves = 1
SPECIFICATION Spec
CHECK_DEADLOCK FALSE
INVARIANTS
  OneWorkingOrder
  HistoriesReplay
  NothingTwice
PROPERTIES
  AnswersKept
  OrdersKeepContract
