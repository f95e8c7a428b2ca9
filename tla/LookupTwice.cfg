SPECIFICATION Spec
CONSTANTS
  N = 4
  Alpha = 2
  K = 2
  Holders = {2, 4}
INVARIANT CallbackAtMostOnce
CHECK_DEADLOCK FALSE
