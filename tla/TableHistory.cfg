SPECIFICATION Spec
CONSTANTS
  Size = 2
  Width = 2
  Capacity = 2
  MaxReplacements = 1
  Self <- MCSelf
  Nodes <- MCNodes
  Buckets <- MCBuckets
  BucketOf <- MCBucketOf
  Addrs = {a1, a2}
  MaxTime = 5
SYMMETRY MCSymmetry
INVARIANTS AddressFresh OnlyPromotedOutOfOrder NextHopIsCloser
CHECK_DEADLOCK FALSE
