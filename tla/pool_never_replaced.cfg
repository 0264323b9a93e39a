CONSTANTS
  Executor = {e1, e2, e3, e4}
  PoolSize = 1
  MaxFailures = 1
  MaxDeaths = 0
  MaxFaults = 1
  Starter = Starter
  Stopper = Stopper
  Null = Null
SPECIFICATION FairSpec
PROPERTIES
  DeadReplaced
\* The threads end, and the environment may leave the pool alone for good.
CHECK_DEADLOCK FALSE
