--------------------------- MODULE MCFailurePolicy ---------------------------
EXTENDS FailurePolicy

\* ofAny(maxFailuresWithin(1, 1), maxTotalFailures(-1), maxFailuresWithin(2, 3),
\* maxTotalFailures(3)).
FourPolicies ==
  <<[max |-> 1, within |-> 1], [max |-> -1, within |-> Forever],
    [max |-> 2, within |-> 3], [max |-> 3, within |-> Forever]>>
=============================================================================
