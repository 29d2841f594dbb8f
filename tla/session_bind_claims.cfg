SPECIFICATION Spec
CONSTANTS
  Launches = {l1, l2, l3}
  Guests = {g1, g2}
  NoGuest = none
  Host = host
  Faults <- HiddenApi
PROPERTY BindSucceeded
CHECK_DEADLOCK FALSE
