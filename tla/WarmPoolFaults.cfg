CONSTANTS
  i1 = i1
  i2 = i2
  p1 = p1
  Instance = {i1}
  Invocation = {o1, o2}
  None = None
  ClaimTTL = 0
  Cooldown = 0
  StartFailureLimit = 2
  Grace = 1
  BootTime = 0
  Expiry = 3
  MaxFaults = 1
  LambdaTime = 0
  MaxNeeded = 1
  Pair = {p1}
  pairOf <- OnePair
  Sizes = {1}
  ReconcileInterval = 1
SPECIFICATION Spec
SYMMETRY Symmetry
INVARIANTS PoolSparesHeld RecordedActivationIsTagged SecondStartNeedsLooseEnd
PROPERTY LeaseSpec
CHECK_DEADLOCK FALSE
