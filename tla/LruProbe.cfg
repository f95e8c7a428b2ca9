SPECIFICATION ProbeSpec
CONSTANTS
  Capacity = 2
  MaxReplacements = 1
  m = m
  Nodes = {n1, n2, n3, m}
  Self = self
  Buckets <- MCBuckets
  BucketOf <- MCBucketOf
  Rids = {1, 2}
  Stable = {n1}
  MaxNew = 1
SYMMETRY NodeSymmetry
INVARIANTS TableOK CallbackAtMostOnce
PROPERTY StableContactsStay
