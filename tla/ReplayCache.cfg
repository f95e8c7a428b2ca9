SPECIFICATION CacheSpec
CONSTANTS
  WindowSize = 3
  MaxSeq = 10
INVARIANT BitmapMatches
PROPERTIES FilterSpec CheckForetells
CHECK_DEADLOCK FALSE
