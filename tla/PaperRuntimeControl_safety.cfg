CONSTANTS
  w1 = w1
  w2 = w2
  k1 = k1
  k2 = k2
  NoOwner = NoOwner
  NoReceipt = NoReceipt
  Worker = {w1, w2}
  Key = {k1, k2}
  Policy = {0, 1}
  Duration = 1
  MaxVersion = 4
  MaxEvents = 5
  MaxTime = 3
  SetBacks = 1
SYMMETRY MCSymmetry
SPECIFICATION MCSpec
CHECK_DEADLOCK FALSE
INVARIANTS
  AnswersAgree
  LastWordHolds
  HistoryIsSound
