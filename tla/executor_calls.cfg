CONSTANTS
  Job = {j1}
  Malformed = {}
  Consumer = {c1}
  Spare = {}
  Leaked = {}
  Worker = {w1}
  MaxHandlers = 1
  MaxCloses = 2
  Null = Null
  App = App
  Policy = Policy
  ChannelMax = 2
SPECIFICATION FairExecutorSpec
INVARIANTS
  ExecutorTypeOK
  EndedIsQuiet
PROPERTIES
  CallsReturn
\* All jobs may be done, or the pool shut down.
CHECK_DEADLOCK FALSE
