CONSTANTS
  i1 = i1
  i2 = i2
  p1 = p1
  Instance = {i1}
  Invocation = {o1, o2}
  None = None
  ClaimTTL = 1
  Cooldown = 0
  StartFailureLimit = 2
  Grace = 2
  BootTime = 0
  Expiry = 5
  MaxFaults = 0
  LambdaTime = 1
  MaxNeeded = 1
  Pair = {p1}
  pairOf <- OnePair
  Sizes = {1}
  ReconcileInterval = 1
SPECIFICATION Spec
SYMMETRY Symmetry
INVARIANTS IInv ExclusiveActivation
PROPERTY SweepSparesFirstActivation
CHECK_DEADLOCK FALSE
