CONSTANTS
  i1 = i1
  i2 = i2
  i3 = i3
  p1 = p1
  p2 = p2
  Instance = {i1, i2, i3}
  Invocation = {o1}
  None = None
  ClaimTTL = 1
  Cooldown = 1
  StartFailureLimit = 2
  Grace = 2
  BootTime = 0
  Expiry = 3
  MaxFaults = 2
  LambdaTime = 1
  MaxNeeded = 2
  Pair = {p1, p2}
  pairOf <- TwoPairs
SPECIFICATION MCSpec
INVARIANTS ClaimsWithinDemand ExhaustedPairsAreLeftAlone EndedClaimsAreLoose
CHECK_DEADLOCK FALSE
