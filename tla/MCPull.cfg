SPECIFICATION Spec
CONSTANTS
  w1 = w1
  w2 = w2
  Workers = {w1, w2}
  Matching = {2, 3}
  Limit = 1
  Timeout = 1
  MayFail = TRUE
  MaxPosition = 3
  MaxAttempt = 2
  MaxTime = 1
SYMMETRY WorkerSymmetry
CHECK_DEADLOCK FALSE
INVARIANTS
  TypeOK
  NothingSkipped
  OnePending
  SettledOnce
