SPECIFICATION Spec
CONSTANTS
  Guests = {g1, g2}
  Diag = diag
  NoGuest = none
  MaxSlots = 2
  MaxObits = 1
  MaxStarts = 2
  Faults <- NoFaults
PROPERTY DiagNeverPins
