CONSTANTS
  s1 = s1
  d1 = d1
  a1 = a1
  a2 = a2
  Absent = Absent
  Refused = Refused
  MaxRows = 3
  MaxHarm = 2
  Symbol = {s1}
  Decision = {d1}
  Corrupt = Corrupt
  Account = {a1, a2}
  Command <- AllCommands
  Key = {1, 2, 3, 4, 5}
  OpKey = {o1, o2}
  Reader = {r1}
  NoAccount = NoAccount
  NoProjection = NoProjection
  NoReceipt = NoReceipt
  MaxVersion = 5
  MaxDamage = 2
SPECIFICATION MCSpec
CHECK_DEADLOCK FALSE
INVARIANTS
  LedgersAreSound
  ProjectionsAreHonest
  RowsAreSound
PROPERTIES
  CommandsKeepPromises
