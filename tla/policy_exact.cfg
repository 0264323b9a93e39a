CONSTANTS
  Policy <- FourPolicies
  Forever = Forever
  Width = 8
  OfAny = TRUE
  MaxTime = 7
  MaxFailures = 5
  MaxAdjust = 1
SPECIFICATION Spec
INVARIANTS
  TypeOK
PROPERTIES
  PolicyExact
  ThrowsOnlyWhenOver
\* The pool halts, or time ends.
CHECK_DEADLOCK FALSE
