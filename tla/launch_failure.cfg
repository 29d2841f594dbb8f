\* Three refuted invariants: remove one to see the next.
SPECIFICATION Spec
CONSTANTS
  Guests = {g1, g2}
  NoGuest = none
  MaxLaunches = 2
  MaxPolls = 2
  Faults <- AllFaults
INVARIANTS FailureIsFinal NeverMixed NeverAnothersSuccess
CHECK_DEADLOCK FALSE
