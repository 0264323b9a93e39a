--------------------------- MODULE MCJobExecution ---------------------------
EXTENDS JobExecution, TLC

\* Well-formed jobs, threads and consumers of the same sort are interchangeable.
Symmetry ==
  Permutations(Job \ Malformed) \cup Permutations(Worker)
    \cup Permutations(Consumer \ (Leaked \cup Spare)) \cup Permutations(Spare)
=============================================================================
