CONSTANTS
  Job = {j1, j2}
  Failing = {j1}
  Malformed = {}
  Worker = {w1, w2}
  MaxChannels = 2
  MaxHandlers = 2
  MaxFaults = 1
  Null = Null
SPECIFICATION FairSpec
INVARIANTS
  TypeOK
  OneHolder
  SeenUnlessThrown
PROPERTIES
  KeptUntilTried
  NotificationsSettle
\* All notifications may be done, or their channels closed.
CHECK_DEADLOCK FALSE
