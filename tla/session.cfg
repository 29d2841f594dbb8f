SPECIFICATION FairSpec
CONSTANTS
  Launches = {l1, l2, l3}
  Guests = {g1, g2}
  NoGuest = none
  Host = host
  Faults <- AllFaults
INVARIANTS TypeOK ProcessAppAlive NoDeadAppListed NoOrphanRuntime ActiveIsCurrent
PROPERTIES NoBlankStub AppSpec
CHECK_DEADLOCK FALSE
