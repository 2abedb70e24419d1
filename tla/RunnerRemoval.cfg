CONSTANTS
  Runner = {1, 2}
  BootTime = 1
  MinTime = 1
  Window = 2
  MaxFaults = 3
  MaxIdle = 1
  Confirmation = 2
SPECIFICATION MCSpec
INVARIANTS TypeOK IdleIsConfirmed
PROPERTIES OrphanIsUseless JanitorSparesLive ScaledDown NoStaleRegistration
CHECK_DEADLOCK FALSE
