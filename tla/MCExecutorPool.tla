--------------------------- MODULE MCExecutorPool ---------------------------
EXTENDS ExecutorPool, TLC

\* Executors are interchangeable in the safety runs.
Symmetry == Permutations(Executor)
=============================================================================
