CONSTANTS
  Job = {1, 2}
  Instance = {1, 2, 3}
  MaxRunners = 2
  MaxFaults = 2
  Surge = 1
SPECIFICATION MCSpec
INVARIANTS TypeOK AvailableIsAnnounced FleetBounded
PROPERTIES BusyIsSpared OfferedIsServed SurplusIsRemoved
CHECK_DEADLOCK FALSE
