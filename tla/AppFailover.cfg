CONSTANTS
  App = {a1, a2}
  Stored = {a1}
  Request = {1, 2}
  Budget <- MCBudget
  Window = 2
  Unspecified = 1
  RetryAfter = 2
  MaxFaults = 1
SPECIFICATION MCSpec
INVARIANTS TypeOK RefusalsBounded ExhaustionIsReal
PROPERTIES ExhaustionIsKept RequestsAreServed
CHECK_DEADLOCK FALSE
