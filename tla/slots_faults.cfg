SPECIFICATION Spec
CONSTANTS
  Guests = {g1, g2}
  Diag = diag
  NoGuest = none
  MaxSlots = 2
  MaxObits = 1
  MaxStarts = 1
  Faults <- AllFaults
SYMMETRY Symmetry
INVARIANTS SlotExclusive IInv
PROPERTIES LeaseSpec
