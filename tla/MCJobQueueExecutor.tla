------------------------- MODULE MCJobQueueExecutor -------------------------
EXTENDS JobQueueExecutor
=============================================================================
