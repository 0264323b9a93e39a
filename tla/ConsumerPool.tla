---------------------------- MODULE ConsumerPool ----------------------------
(***************************************************************************)
(* What JobQueueExecutorPool promises of its consumers, seen from the      *)
(* broker: start() subscribes poolSize of them, each death is answered by  *)
(* one replacement, unless a shutdown has been ordered or the replacement  *)
(* cannot be subscribed, and once the connection is aborted there are none *)
(* any more.  Consumers that come back with a lost connection come on top. *)
(***************************************************************************)
EXTENDS Naturals, FiniteSets

CONSTANTS
  Executor,    \* the consumers there may ever be
  PoolSize,    \* how many start() subscribes
  MaxFailures  \* the limit of the failure policy

VARIABLES
  subscribed,  \* the consumers that are subscribed
  owed,        \* dead consumers that are still to be replaced
  killed,      \* those that the broker or the network has killed
  recovered,   \* those that have come back with a lost connection
  opened,      \* how many start() has subscribed
  halting,     \* a shutdown has been ordered
  conn,        \* the connection: "up", "lost" or "aborted"
  faults       \* lost connections and refused subscriptions so far

vars == <<subscribed, owed, killed, recovered, opened, halting, conn, faults>>

Init ==
  /\ subscribed = {} /\ owed = {} /\ killed = {} /\ recovered = {}
  /\ opened = 0 /\ faults = 0
  /\ halting = FALSE
  /\ conn = "up"

\* A consumer is subscribed that never was one before.
Subscribe(c) ==
  /\ conn = "up"
  /\ c \notin subscribed \cup owed \cup killed
  /\ subscribed' = subscribed \cup {c}
  /\ UNCHANGED <<killed, recovered, halting, conn, faults>>

Start(c) ==
  /\ opened < PoolSize
  /\ opened' = opened + 1
  /\ Subscribe(c)
  /\ UNCHANGED owed

Replace(d, c) ==
  /\ d \in owed
  /\ owed' = owed \ {d}
  /\ Subscribe(c)
  /\ UNCHANGED opened

\* A subscription is refused in start().
Refuse ==
  /\ faults' = faults + 1
  /\ UNCHANGED <<subscribed, owed, killed, recovered, opened, halting, conn>>

Unsubscribe(cs) ==
  /\ subscribed' = subscribed \ cs
  /\ owed' = owed \cup cs
  /\ UNCHANGED <<recovered, opened, halting>>

\* A consumer dies: killed by the broker, or closed by the pool or after an exception
\* of its callback, neither of which counts as a failure.
Die(c) ==
  /\ c \in subscribed
  /\ Unsubscribe({c})
  /\ killed' \in {killed, killed \cup {c}}
  /\ UNCHANGED <<conn, faults>>

Lose ==
  /\ conn = "up"
  /\ conn' = "lost" /\ faults' = faults + 1
  /\ Unsubscribe(subscribed)
  /\ killed' = killed \cup subscribed

\* The connection comes back, and with it consumers under new names: no more than are
\* still to be replaced, unless a shutdown has been ordered.
Recover ==
  /\ conn = "lost"
  /\ conn' = "up"
  /\ \E back \in SUBSET (Executor \ (subscribed \cup owed \cup killed \cup recovered)) :
       /\ halting \/ Cardinality(back) <= Cardinality(owed)
       /\ subscribed' = subscribed \cup back
       /\ recovered' = recovered \cup back
  /\ UNCHANGED <<owed, killed, opened, halting, faults>>

\* A dead consumer is not replaced: in a shutdown, on a connection that is down, or
\* because the new subscription is refused.
GiveUp(d) ==
  /\ d \in owed
  /\ owed' = owed \ {d}
  /\ \/ (halting \/ conn = "lost") /\ UNCHANGED faults
     \/ faults' = faults + 1
  /\ UNCHANGED <<subscribed, killed, recovered, opened, halting, conn>>

\* The failure policy orders a shutdown on the death of d.
Halt(d) ==
  /\ d \in owed \cap killed
  /\ Cardinality(killed) > MaxFailures
  /\ halting' = TRUE
  /\ owed' = owed \ {d}
  /\ UNCHANGED <<subscribed, killed, recovered, opened, conn, faults>>

\* The application orders one, once start() is over.
Stop ==
  /\ opened = PoolSize
  /\ halting' = TRUE
  /\ UNCHANGED <<subscribed, owed, killed, recovered, opened, conn, faults>>

Abort ==
  /\ halting
  /\ conn' = "aborted"
  /\ Unsubscribe(subscribed)
  /\ UNCHANGED <<killed, faults>>

Next ==
  \/ \E c \in Executor : Start(c) \/ Die(c) \/ GiveUp(c) \/ Halt(c)
  \/ \E d, c \in Executor : Replace(d, c)
  \/ Refuse \/ Lose \/ Recover \/ Stop \/ Abort

Spec == Init /\ [][Next]_vars
=============================================================================
