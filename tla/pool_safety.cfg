CONSTANTS
  Executor = {e1, e2, e3, e4}
  PoolSize = 1
  MaxFailures = 1
  MaxDeaths = 1
  MaxFaults = 1
  Starter = Starter
  Stopper = Stopper
  Null = Null
SPECIFICATION Spec
SYMMETRY Symmetry
INVARIANTS
  TypeOK
  ConsumersBounded
  ListAcyclic
  NoSpuriousHalt
PROPERTIES
  ReplacesItsDead
\* The threads end, and the environment may leave the pool alone for good.
CHECK_DEADLOCK FALSE
