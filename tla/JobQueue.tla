------------------------------ MODULE JobQueue ------------------------------
(***************************************************************************)
(* What the library promises of a message, seen from outside: it stays on  *)
(* its queue until the handlers have run on it to the end or it has been   *)
(* given up: as too slow, for a job (Executor.kt:17-19, 79-90), because an *)
(* exception was thrown, for a notification (JobQueueDispatcher.kt:79-84). *)
(* It may be performed again after that.                                   *)
(***************************************************************************)
CONSTANT Job  \* the messages, named by their jobs

VARIABLES
  queued,      \* the jobs whose message the broker still keeps
  performed,   \* the jobs the handlers have come to the end of, once or more
  expired      \* the jobs that have been given up, once or more

vars == <<queued, performed, expired>>

Init == queued = Job /\ performed = {} /\ expired = {}

Perform(j) == performed' = performed \cup {j} /\ UNCHANGED <<queued, expired>>

Expire(j) == expired' = expired \cup {j} /\ UNCHANGED <<queued, performed>>

Remove(j) ==
  /\ j \in queued \cap (performed \cup expired)
  /\ queued' = queued \ {j}
  /\ UNCHANGED <<performed, expired>>

Next == \E j \in Job : Perform(j) \/ Expire(j) \/ Remove(j)

Spec == Init /\ [][Next]_vars
=============================================================================
