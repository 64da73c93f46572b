CONSTANTS
  w1 = w1
  w2 = w2
  w3 = w3
  a = a
  b = b
  c = c
  r1 = r1
  r2 = r2
  k1 = k1
  JobCommand = {a, b, c}
  Run = {r1, r2}
  RunOf <- MCRunOf
  MaxJobs = 2
  Request = {w1, w2, w3}
  Key = {k1}
  NoKey = NoKey
  NoJob = NoJob
  NoReceipt = NoReceipt
  e1 = e1
  e2 = e2
  ExecutionError = {e1}
  RecoveryError = {e2}
  NoError = NoError
  Worker = {w1, w2, w3}
  Service <- MCService
  MaxAttempts = 2
  MaxFaults = 1
  MaxCleans = 1
SYMMETRY MCSymmetry
SPECIFICATION MCSpec
CHECK_DEADLOCK FALSE
INVARIANTS
  JobIsSound
  SubmissionsAreSound
  RoutesTellTheJob
PROPERTIES
  WinnersStay
  SubmissionsKeepPromise
