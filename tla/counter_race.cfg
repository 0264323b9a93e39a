CONSTANTS
  Thread = {t1, t2}
  Max = 4
  Within = 1
  MaxTime = 2
  MaxFailures = 4
  Width = 16
SPECIFICATION Spec
INVARIANTS
  HaltsOnlyWhenExceeded
\* The callbacks may be over.
CHECK_DEADLOCK FALSE
