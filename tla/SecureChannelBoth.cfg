SPECIFICATION Spec
CONSTANTS
  Initiators = {"a", "b"}
  MaxHandshakes = 1
  MaxData = 1
INVARIANT SessionsAgree
CHECK_DEADLOCK FALSE
