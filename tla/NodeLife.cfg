SPECIFICATION NodeFairSpec
CONSTANTS
  MaxKeys = 2
  Conns = {c1, c2}
INVARIANTS IdentityKept PairMatches AtMostOneLate
PROPERTY ShutdownCompletes
