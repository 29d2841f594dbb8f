SPECIFICATION Spec
CONSTANTS
  Guests = {g1, g2}
  NoGuest = none
  MaxLaunches = 2
  MaxPolls = 2
  Faults <- NoFaults
INVARIANT StaleDiscarded
CHECK_DEADLOCK FALSE
