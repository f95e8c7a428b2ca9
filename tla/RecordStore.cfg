SPECIFICATION StoreFairSpec
CONSTANTS
  o1 = o1
  a = a
  Owners = {o1, o2}
  Aliases = {a}
  NoAlias = none
  Keys <- MCKeys
  NodeKey <- MCNodeKey
  AliasKey <- MCAliasKey
  Records <- MCRecords
  Skew = 1
  MaxTime = 3
  StepsBack = TRUE
  Issued = {0, 2}
  Ttl = 1
INVARIANT TrackerMatches
PROPERTIES ServedNeverRollsBack ServedIsValid ExpiredIsPurged
