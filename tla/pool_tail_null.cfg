CONSTANTS
  Executor = {e1, e2, e3, e4}
  PoolSize = 2
  MaxFailures = 1
  MaxDeaths = 1
  MaxFaults = 0
  Starter = Starter
  Stopper = Stopper
  Null = Null
SPECIFICATION Spec
SYMMETRY Symmetry
INVARIANTS
  TailFollowsHead
\* The threads end, and the environment may leave the pool alone for good.
CHECK_DEADLOCK FALSE
