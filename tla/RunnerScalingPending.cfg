CONSTANTS
  w1 = w1
  p1 = p1
  j1 = j1
  j2 = j2
  a = a
  Actor = {w1, p1}
  Worker = {w1}
  Pool = p1
  Job = {j1, j2}
  Label = {a}
  BadLabel = {a}
  labelOf <- LabelOf
  Spot = TRUE
  FailoverErrors = {"capacity"}
  RetryableErrors = {"throttled"}
  MaxFaults = 1
  Maximum = 2
  MaxAttempts = 1
  BatchSize = 2
  PoolLabel = a
  PoolSize = 2
  PoolMaximum = 2
  MaxPoolRuns = 2
SPECIFICATION MCSpec
INVARIANT PoolKeepsMaximum
CHECK_DEADLOCK FALSE
