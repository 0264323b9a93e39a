CONSTANTS
  Executor = {e1, e2, e3}
  PoolSize = 2
  MaxFailures = 0
  MaxDeaths = 0
  MaxFaults = 0
  Starter = Starter
  Stopper = Stopper
  Null = Null
SPECIFICATION FairSpec
PROPERTIES
  PoolRefills
  HaltStopsConsumers
  StopReturns
\* The threads end, and the environment may leave the pool alone for good.
CHECK_DEADLOCK FALSE
