SPECIFICATION FairSpec
CONSTANTS
  Host = Host
  Guests = {g1, g2, g3}
  None = None
  Ui = Ui
  Watchdogs = {w1, w2, w3}
  Faults = {"noLib", "initFails", "mountFails", "mapsRace"}
INVARIANTS TypeOK IdentityAgrees OnlyCurrentGuest GuestMapKept
PROPERTIES EngineComesUp
