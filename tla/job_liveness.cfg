CONSTANTS
  Job = {j1}
  Malformed = {}
  Consumer = {c1, c2}
  Spare = {c2}
  Leaked = {}
  Worker = {w1}
  MaxHandlers = 1
  MaxCloses = 2
  Null = Null
SPECIFICATION FairSpec
PROPERTIES
  
  CallbackReturns
\* All jobs may be done, or the pool shut down.
CHECK_DEADLOCK FALSE
