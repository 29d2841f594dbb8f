SPECIFICATION Spec
CONSTANTS
  Guests = {g1, g2}
  NoGuest = none
  MaxLaunches = 2
  MaxPolls = 2
  Faults <- AllFaults
INVARIANTS TypeOK WholeAnswer SuccessIsOwn
SYMMETRY Symmetry
CHECK_DEADLOCK FALSE
