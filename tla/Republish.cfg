SPECIFICATION Spec
CONSTANTS
  Keepers = {k1}
  Owner = o
  Reader = r
  Ttl = 3
  Interval = 1
  MaxLate = 0
  MaxDelay = 1
  MaxTime = 6
  MaxRuns = 2
  MaxSeq = 3
  MaxByApp = 1
  MaxAnswers = 2
INVARIANTS KeptThroughOneLoss OutageBounded
PROPERTY ReadsGoForward
CHECK_DEADLOCK FALSE
