CONSTANTS
  Job = {j1, j2, j3}
  Malformed = {}
  Consumer = {c1}
  Spare = {}
  Leaked = {}
  Worker = {w1}
  MaxHandlers = 1
  MaxCloses = 0
  Null = Null
  App = App
  Policy = Policy
  ChannelMax = 3
SPECIFICATION ExecutorSpec
INVARIANTS
  CanNotify
\* All jobs may be done, or the pool shut down.
CHECK_DEADLOCK FALSE
