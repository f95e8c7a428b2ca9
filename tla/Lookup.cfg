SPECIFICATION FairSpec
CONSTANTS
  N = 5
  Alpha = 2
  K = 3
  Holders = {2, 4}
INVARIANTS InFlightIsTracked QueriedOnce CallbackOnce AtMostAlphaInFlight QuietAfterReport
PROPERTIES ConvergedAtFirstCallback EventuallyReported
CHECK_DEADLOCK FALSE
