CONSTANTS
  Queue = {1, 2, 3}
  Label = {"a", "b"}
  Delivery = {1, 2}
  MaxAttempts = 3
  MaxFaults = 3
SPECIFICATION MCSpec
INVARIANTS BestQueues
PROPERTIES DispatchedOrTold
CHECK_DEADLOCK FALSE
