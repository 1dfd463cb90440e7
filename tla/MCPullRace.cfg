SPECIFICATION FairSpec
CONSTANTS
  w1 = w1
  w2 = w2
  Workers = {w1, w2}
  Matching = {1, 2}
  Limit = 1
  Timeout = 1
  MayFail = FALSE
  MaxPosition = 2
  MaxAttempt = 1
  MaxTime = 1
CHECK_DEADLOCK FALSE
PROPERTY
  AtLeastOnce
