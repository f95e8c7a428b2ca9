SPECIFICATION FairSpec
CONSTANTS
  N = 2
  Replication = 3
  SizeRange = 8
  Results <- MCResults
  MaxCalls <- MCMaxCalls
INVARIANTS ReportedOnce SuccessHasQuorum QuorumIsReported
PROPERTY EventuallyReported
CHECK_DEADLOCK FALSE
