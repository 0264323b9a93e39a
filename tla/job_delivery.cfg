CONSTANTS
  Job = {j1, j2}
  Malformed = {j2}
  Consumer = {c1, c2}
  Spare = {c2}
  Leaked = {}
  Worker = {w1, w2}
  MaxHandlers = 1
  MaxCloses = 2
  Null = Null
SPECIFICATION Spec
INVARIANTS
  TypeOK
  UnackedAreHeld
  WasteBounded
  SeenUnlessEarly
  WaitsForSomeone
PROPERTIES
  AtLeastOnce
\* All jobs may be done, or the pool shut down.
CHECK_DEADLOCK FALSE
