SPECIFICATION FairSpec
CONSTANTS
  Initiators = {"a", "b"}
  MaxHandshakes = 1
  MaxData = 2
INVARIANTS DeliveredInOrder NothingRejected CallbackOnceInTime
PROPERTY SuccessReachesPeer
CHECK_DEADLOCK FALSE
