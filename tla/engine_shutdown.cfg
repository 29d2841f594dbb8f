SPECIFICATION Spec
CONSTANTS
  Host = Host
  Guests = {g1, g2, g3}
  None = None
  Ui = Ui
  Watchdogs = {w1, w2}
  Faults = {}
INVARIANT ShutdownClears
