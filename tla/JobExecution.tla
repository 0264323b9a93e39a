---------------------------- MODULE JobExecution ----------------------------
(***************************************************************************)
(* The way of a job message through JobQueueExecutor: the broker delivers  *)
(* it to an Executor's consumer, the delivery callback (Executor.init)     *)
(* submits it to the pool's worker threads and waits for the result, the   *)
(* thread runs the registered handlers, the callback acknowledges.         *)
(*                                                                         *)
(* A consumer stands for a channel as the broker knows it, with the        *)
(* callback that consumes from it.  The executor on it is replaced when    *)
(* the channel has closed (ExecutorPool has the details); but a channel    *)
(* that ended with the connection comes back as another one when the       *)
(* library recovers the connection, and its executor then has both: what   *)
(* the old one had delivered is still called back.  The order of           *)
(* deliveries and of the worker pool's queue is left open.                 *)
(***************************************************************************)
EXTENDS Naturals, FiniteSets, Functions

CONSTANTS
  Job,         \* the messages on the job queue
  Malformed,   \* those that JobDispatch.fromJson rejects
  Consumer,    \* the channels that are consumed from
  Spare,       \* those that come into use when the library recovers others (a bound)
  Leaked,      \* those whose executor a racing add() has left out of the pool's list
  Worker,      \* the threads of newFixedThreadPool
  MaxHandlers, \* how many handlers the application registers (a bound)
  MaxCloses,   \* how many channels are closed before faults stop (a bound)
  Null

\* A run of JobHandlers.execute: for which consumer, the handlers done, how many there
\* were when the iterator was made, and whether its Future has not been cancelled.
Task == [for : Consumer, job : Job, at : Nat, size : Nat, live : BOOLEAN]

ASSUME JobAssumption ==
  /\ IsFiniteSet(Job) /\ IsFiniteSet(Consumer) /\ IsFiniteSet(Worker)
  /\ Malformed \subseteq Job
  /\ Spare \subseteq Consumer /\ Leaked \subseteq Consumer \ Spare
  /\ MaxHandlers \in Nat /\ MaxCloses \in Nat
  /\ Null \notin Job /\ Null \notin Task

VARIABLES
  \* the broker
  ready,      \* messages waiting in the queue
  unacked,    \* messages delivered on a consumer's channel and not acknowledged
  settled,    \* messages acknowledged, which the broker has deleted
  \* the client
  conn,       \* the connection: "up", "lost"
  chan,       \* see ChannelState
  via,        \* the channel that a consumer's executor uses now
  inbox,      \* deliveries that wait for the consumer's callback
  step,       \* where the callback is
  cur,        \* the job the callback is at, or Null
  future,     \* its Future; "dropped" before it ran, "cancelled" while it ran
  worker,     \* the task a thread runs, or Null
  registered, \* how many handlers are registered
  mode,       \* how far stop() or stopNow() is
  \* history
  performed, timedOut,     \* jobs the handlers came to the end of, jobs that timed out
  seen, early,             \* jobs a handler was called with, jobs done before there was one
  submitted, closes, stale \* submissions, channels ended, submissions that slipped past isOpen

\* "none": not in use yet; "revoked": ended, and the client has not been told; "ended":
\* it has, and the executor has not closed it; "closed": by Executor.stop() or for good.
ChannelState == {"none", "open", "revoked", "ended", "closed"}

broker == <<ready, unacked, settled>>
link == <<conn, chan, via>>
callback == <<step, cur>>
tasks == <<future, worker>>
marks == <<performed, timedOut, seen, early>>
counts == <<submitted, closes, stale>>
vars == <<broker, link, inbox, callback, tasks, registered, mode, marks, counts>>

Init ==
  /\ ready = Job /\ settled = {}
  /\ unacked = [c \in Consumer |-> {}]
  /\ conn = "up"
  /\ chan = [c \in Consumer |-> IF c \in Spare THEN "none" ELSE "open"]
  /\ via = [c \in Consumer |-> c]
  /\ inbox = [c \in Consumer |-> {}]
  /\ step = [c \in Consumer |-> "idle"]
  /\ cur = [c \in Consumer |-> Null]
  /\ future = [c \in Consumer |-> "none"]
  /\ worker = [w \in Worker |-> Null]
  /\ registered = 0
  /\ mode = "up"
  /\ performed = {} /\ timedOut = {} /\ seen = {} /\ early = {}
  /\ submitted = 0 /\ closes = 0 /\ stale = 0

-----------------------------------------------------------------------------
(* The broker, the network and the client library.                         *)

\* Mutant of Deliver: basicConsume with autoAck = true.
DeliverAutoAck(c, j) ==
  /\ j \in ready /\ chan[c] = "open"
  /\ j \in Malformed => closes < MaxCloses
  /\ ready' = ready \ {j}
  /\ settled' = settled \cup {j}
  /\ inbox' = [inbox EXCEPT ![c] = @ \cup {j}]
  /\ UNCHANGED <<unacked, link, callback, tasks, registered, mode, marks, counts>>

\* No basicQos: a consumer is sent whatever there is.  A malformed message comes
\* back for ever in the program; the bound stops it.
Deliver(c, j) ==
  /\ j \in ready /\ chan[c] = "open"
  /\ j \in Malformed => closes < MaxCloses
  /\ ready' = ready \ {j}
  /\ unacked' = [unacked EXCEPT ![c] = @ \cup {j}]
  /\ inbox' = [inbox EXCEPT ![c] = @ \cup {j}]
  /\ UNCHANGED <<settled, link, callback, tasks, registered, mode, marks, counts>>

\* The channels `cs` end for the broker: what was not acknowledged is ready again.
Requeue(cs) ==
  LET open == {c \in cs : chan[c] = "open"} IN
  /\ ready' = ready \cup UNION {unacked[c] : c \in open}
  /\ unacked' = [c \in Consumer |-> IF c \in open THEN {} ELSE unacked[c]]
  /\ closes' = closes + Cardinality(open)
  /\ UNCHANGED <<settled, submitted, stale>>

\* An error or a delivery timeout of the broker ...
Revoke(c) ==
  /\ chan[c] = "open" /\ closes < MaxCloses
  /\ Requeue({c})
  /\ chan' = [chan EXCEPT ![c] = "revoked"]
  /\ UNCHANGED <<conn, via, inbox, callback, tasks, registered, mode, marks>>

\* ... or a connection that breaks ...
LoseConnection ==
  /\ conn = "up" /\ closes < MaxCloses /\ \E c \in Consumer : chan[c] = "open"
  /\ Requeue(Consumer)
  /\ conn' = "lost"
  /\ chan' = [c \in Consumer |-> IF chan[c] = "open" THEN "revoked" ELSE chan[c]]
  /\ UNCHANGED <<via, inbox, callback, tasks, registered, mode, marks>>

\* ... of which the client learns later.
NoticeClose(c) ==
  /\ chan[c] = "revoked"
  /\ chan' = [chan EXCEPT ![c] = "ended"]
  /\ UNCHANGED <<conn, via, broker, inbox, callback, tasks, registered, mode, marks, counts>>

\* What a recovery can bring back: the channels that no executor has closed.
Returnable == {c \in Consumer : chan[c] = "ended" /\ via[c] = c}

Unused == {c \in Consumer : chan[c] = "none"}

\* channel.isOpen, as the client knows it of the channel that the executor uses now.
IsOpen(c) == chan[via[c]] \in {"open", "revoked"}

\* The library connects again and opens the channels once more, each or not (one whose
\* number is taken fails), and their consumers with them: the executor goes on with both
\* callbacks, for what was delivered before and for what comes now.
Recover ==
  /\ conn = "lost" /\ mode # "aborted"
  /\ \A c \in Consumer : chan[c] # "revoked"
  /\ conn' = "up"
  /\ \E back \in SUBSET Returnable : \E new \in Injection(back, Unused) :
       /\ chan' = [c \in Consumer |-> IF c \in Range(new) THEN "open" ELSE chan[c]]
       /\ via' = [c \in Consumer |-> IF via[c] \in back THEN new[via[c]] ELSE via[c]]
  /\ UNCHANGED <<broker, inbox, callback, tasks, registered, mode, marks, counts>>

\* An exception in the callback: the library closes the channel it came on.
Break(c) ==
  /\ Requeue({c})
  /\ chan' = [chan EXCEPT ![c] = IF @ = "closed" THEN @ ELSE "ended"]
  /\ UNCHANGED <<conn, via>>

\* Executor.stop() closes the channel the executor uses, for good.
CloseExecutorOf(c) ==
  LET own == {d \in Consumer : via[d] = via[c]} IN
  /\ Requeue(own)
  /\ chan' = [d \in Consumer |-> IF d \in own THEN "closed" ELSE chan[d]]
  /\ via' = [d \in Consumer |-> IF d \in own THEN d ELSE via[d]]
  /\ UNCHANGED conn

\* The shutdown callback comes after a channel's deliveries.
CalledBack(c) == inbox[c] = {} /\ step[c] = "idle"

\* It stops the executor, also one whose channel has come back ...
Retire(c) ==
  /\ chan[c] = "ended" /\ CalledBack(c)
  /\ CloseExecutorOf(c)
  /\ UNCHANGED <<inbox, callback, tasks, registered, mode, marks>>

\* ... and makes a new one.
Replace(c) ==
  /\ chan[c] = "closed" /\ CalledBack(c) /\ mode = "up" /\ conn = "up"
  /\ chan' = [chan EXCEPT ![c] = "open"]
  /\ UNCHANGED <<conn, via, broker, inbox, callback, tasks, registered, mode, marks, counts>>

-----------------------------------------------------------------------------
(* The delivery callback of Executor.init, one delivery after the other.   *)

Take(c, j) == step[c] = "idle" /\ j \in inbox[c] /\ inbox' = [inbox EXCEPT ![c] = @ \ {j}]

Goto(c, s) == step' = [step EXCEPT ![c] = s]

Return(c) ==
  /\ Goto(c, "idle")
  /\ cur' = [cur EXCEPT ![c] = Null]
  /\ future' = [future EXCEPT ![c] = "none"]

Skip(c, j) ==
  /\ Take(c, j)
  /\ ~IsOpen(c)
  /\ UNCHANGED <<broker, link, callback, tasks, registered, mode, marks, counts>>

\* The message cannot be parsed, or the thread pool is shut down: an exception leaves
\* the callback and the library closes the channel.
Reject(c, j) ==
  /\ Take(c, j)
  /\ IsOpen(c)
  /\ j \in Malformed \/ mode \in {"shutdown", "now", "aborted"}
  /\ Break(c)
  /\ UNCHANGED <<callback, tasks, registered, mode, marks>>

\* A delivery whose channel has ended gets past isOpen: the client has not been told, or
\* the executor's channel has come back.
Slips(c) == chan[c] # "open" /\ IsOpen(c)

Submit(c, j) ==
  /\ Take(c, j)
  /\ IsOpen(c)
  /\ j \notin Malformed /\ mode \in {"up", "closing"}
  /\ Goto(c, "waiting")
  /\ cur' = [cur EXCEPT ![c] = j]
  /\ future' = [future EXCEPT ![c] = "queued"]
  /\ submitted' = submitted + 1
  /\ stale' = IF Slips(c) THEN stale + 1 ELSE stale
  /\ UNCHANGED <<broker, link, worker, registered, mode, marks, closes>>

\* basicAck: lost on a revoked channel, an exception on one that is not open; and for a
\* delivery of an earlier channel than the executor's the library sends nothing.
Ack(c) ==
  IF chan[c] = "open"
  THEN /\ settled' = settled \cup {cur[c]}
       /\ unacked' = [unacked EXCEPT ![c] = @ \ {cur[c]}]
       /\ UNCHANGED ready
  ELSE UNCHANGED broker

\* Mutant of Acknowledge: the callback forgets the job before it acknowledges it.
AcknowledgeNull(c) ==
  /\ step[c] = "waiting" /\ future[c] = "done" /\ chan[c] = "open"
  /\ settled' = settled \cup {Null}
  /\ Return(c)
  /\ UNCHANGED <<ready, unacked, link, inbox, worker, registered, mode, marks, counts>>

\* future.get returns.  If basicAck throws, the channel it would close is closed.
Acknowledge(c) ==
  /\ step[c] = "waiting" /\ future[c] = "done"
  /\ Ack(c)
  /\ Return(c)
  /\ UNCHANGED <<link, inbox, worker, registered, mode, marks, counts>>

\* Mutant of Fail: the exception is caught and the message given back (basicNack).
FailGivesBack(c) ==
  /\ step[c] = "waiting" /\ future[c] = "failed" /\ chan[c] = "open"
  /\ ready' = ready \cup {cur[c]}
  /\ unacked' = [unacked EXCEPT ![c] = @ \ {cur[c]}]
  /\ Return(c)
  /\ UNCHANGED <<settled, link, inbox, worker, registered, mode, marks, counts>>

\* future.get throws ExecutionException, which nothing catches.
Fail(c) ==
  /\ step[c] = "waiting" /\ future[c] = "failed"
  /\ Break(c)
  /\ Return(c)
  /\ UNCHANGED <<inbox, worker, registered, mode, marks>>

\* Mutant of TimeOut: the time runs from the start of the job.
TimeOutRunning(c) ==
  /\ step[c] = "waiting" /\ future[c] = "running"
  /\ Goto(c, "cancel")
  /\ timedOut' = timedOut \cup {cur[c]}
  /\ UNCHANGED <<broker, link, inbox, cur, tasks, registered, mode, performed, seen, early, counts>>

\* future.get throws TimeoutException: the time runs from the submission.
TimeOut(c) ==
  /\ step[c] = "waiting" /\ future[c] \in {"queued", "running", "dropped"}
  /\ Goto(c, "cancel")
  /\ timedOut' = timedOut \cup {cur[c]}
  /\ UNCHANGED <<broker, link, inbox, cur, tasks, registered, mode, performed, seen, early, counts>>

\* Mutant of Cancel: a job that has started is left alone.
CancelQueued(c) ==
  /\ step[c] = "cancel"
  /\ Goto(c, "ackLate")
  /\ future' = [future EXCEPT ![c] = IF @ = "queued" THEN "dropped" ELSE @]
  /\ UNCHANGED <<broker, link, inbox, cur, worker, registered, mode, marks, counts>>

\* future.cancel(true): a queued task never runs, a running one is interrupted, which
\* the handler may ignore; if it has just completed nothing happens.
Cancel(c) ==
  /\ step[c] = "cancel"
  /\ Goto(c, "ackLate")
  /\ future' = [future EXCEPT ![c] =
       CASE @ = "queued" -> "dropped" [] @ = "running" -> "cancelled" [] OTHER -> @]
  /\ worker' = [w \in Worker |-> IF worker[w] # Null /\ worker[w].for = c
                                 THEN [worker[w] EXCEPT !.live = FALSE] ELSE worker[w]]
  /\ UNCHANGED <<broker, link, inbox, cur, registered, mode, marks, counts>>

\* Mutant of AckLate: a job that timed out is not acknowledged.
AckLateMissing(c) ==
  /\ step[c] = "ackLate"
  /\ Goto(c, "report")
  /\ UNCHANGED <<broker, link, inbox, cur, tasks, registered, mode, marks, counts>>

AckLate(c) ==
  /\ step[c] = "ackLate"
  /\ Goto(c, "report")
  /\ Ack(c)
  /\ UNCHANGED <<link, inbox, cur, tasks, registered, mode, marks, counts>>

Report(c) ==
  /\ step[c] = "report"
  /\ Return(c)
  /\ UNCHANGED <<broker, link, inbox, worker, registered, mode, marks, counts>>

-----------------------------------------------------------------------------
(* The worker threads: JobHandlers.execute iterates over an ArrayList.     *)

StartTask(w, c) ==
  /\ worker[w] = Null /\ future[c] = "queued"
  /\ worker' = [worker EXCEPT ![w] =
       [for |-> c, job |-> cur[c], at |-> 0, size |-> registered, live |-> TRUE]]
  /\ future' = [future EXCEPT ![c] = "running"]
  /\ UNCHANGED <<broker, link, inbox, callback, registered, mode, marks, counts>>

\* Mutant of HasNext: the iterator is of a copy of the list, as CopyOnWriteArrayList's.
HasNextOfCopy(w) == worker[w] # Null /\ worker[w].at < worker[w].size

HasNext(w) == worker[w] # Null /\ worker[w].at # registered

InHandler(w) == HasNext(w) /\ worker[w].size = registered

Finish(w, result) ==
  /\ worker' = [worker EXCEPT ![w] = Null]
  /\ future' = IF worker[w].live THEN [future EXCEPT ![worker[w].for] = result] ELSE future

Meet(w) ==
  /\ seen' = seen \cup {worker[w].job}
  /\ UNCHANGED <<performed, timedOut, early>>

\* A handler returns ...
Handle(w) ==
  /\ InHandler(w)
  /\ Meet(w)
  /\ worker' = [worker EXCEPT ![w].at = @ + 1]
  /\ UNCHANGED <<broker, link, inbox, callback, future, registered, mode, counts>>

\* ... or throws (the bound lets handlers fail so often and no more) ...
HandlerThrows(w) ==
  /\ InHandler(w)
  /\ closes < MaxCloses
  /\ Meet(w)
  /\ Finish(w, "failed")
  /\ UNCHANGED <<broker, link, inbox, callback, registered, mode, counts>>

\* ... or next() throws, for a handler has been registered since iterator().
Comodified(w) ==
  /\ HasNext(w) /\ worker[w].size # registered
  /\ Finish(w, "failed")
  /\ UNCHANGED <<broker, link, inbox, callback, registered, mode, marks, counts>>

Complete(w) ==
  /\ worker[w] # Null /\ ~HasNext(w)
  /\ performed' = performed \cup {worker[w].job}
  /\ early' = IF registered = 0 THEN early \cup {worker[w].job} ELSE early
  /\ Finish(w, "done")
  /\ UNCHANGED <<broker, link, inbox, callback, registered, mode, timedOut, seen, counts>>

-----------------------------------------------------------------------------
(* The application and the pool's failure policy.                          *)

OnJob ==
  /\ registered < MaxHandlers
  /\ registered' = registered + 1
  /\ UNCHANGED <<broker, link, inbox, callback, tasks, mode, marks, counts>>

\* stop() and stopNow(): stopExecutors() sets `closing` ...
Stop ==
  /\ mode = "up"
  /\ mode' = "closing"
  /\ UNCHANGED <<broker, link, inbox, callback, tasks, registered, marks, counts>>

Listed(c) == \A d \in Leaked : via[d] # via[c]

\* ... and closes the channels of the listed executors one after the other.
StopExecutor(c) ==
  /\ mode = "closing" /\ Listed(c) /\ chan[c] \notin {"none", "closed"}
  /\ CloseExecutorOf(c)
  /\ UNCHANGED <<inbox, callback, tasks, registered, mode, marks>>

Stopped == \A c \in Consumer : Listed(c) => chan[c] \in {"none", "closed"}

\* Mutant of ShutDown: threads.shutdownNow().
ShutDownDrops ==
  /\ mode = "closing" /\ Stopped
  /\ mode' = "shutdown"
  /\ future' = [c \in Consumer |-> IF future[c] = "queued" THEN "dropped" ELSE future[c]]
  /\ UNCHANGED <<broker, link, inbox, callback, worker, registered, marks, counts>>

\* threads.shutdown(): what is queued still runs.
ShutDown ==
  /\ mode = "closing" /\ Stopped
  /\ mode' = "shutdown"
  /\ UNCHANGED <<broker, link, inbox, callback, tasks, registered, marks, counts>>

\* threads.shutdownNow(): what is queued never completes.
ShutDownNow ==
  /\ mode \in {"closing", "shutdown"} /\ Stopped
  /\ mode' = "now"
  /\ future' = [c \in Consumer |-> IF future[c] = "queued" THEN "dropped" ELSE future[c]]
  /\ UNCHANGED <<broker, link, inbox, callback, worker, registered, marks, counts>>

\* shutdownCB: connection.abort().
Abort ==
  /\ mode = "now"
  /\ mode' = "aborted"
  /\ Requeue(Consumer)
  /\ chan' = [c \in Consumer |-> IF chan[c] = "none" THEN "none" ELSE "closed"]
  /\ via' = [c \in Consumer |-> c]
  /\ UNCHANGED <<conn, inbox, callback, tasks, registered, marks>>

-----------------------------------------------------------------------------
Consume(c) ==
  \/ \E j \in Job : Skip(c, j) \/ Reject(c, j) \/ Submit(c, j)
  \/ Acknowledge(c) \/ Fail(c) \/ TimeOut(c) \/ Cancel(c) \/ AckLate(c) \/ Report(c)

Work(w) ==
  \/ \E c \in Consumer : StartTask(w, c)
  \/ Handle(w) \/ HandlerThrows(w) \/ Comodified(w) \/ Complete(w)

Next ==
  \/ \E c \in Consumer, j \in Job : Deliver(c, j)
  \/ \E c \in Consumer : Revoke(c) \/ NoticeClose(c)
  \/ LoseConnection \/ Recover
  \/ \E c \in Consumer : Retire(c) \/ Replace(c) \/ StopExecutor(c)
  \/ \E c \in Consumer : Consume(c)
  \/ \E w \in Worker : Work(w)
  \/ OnJob \/ Stop \/ ShutDown \/ ShutDownNow \/ Abort

Spec == Init /\ [][Next]_vars

\* The broker delivers, a lost connection is recovered, the callbacks go on (a timeout
\* comes in the end) and dead executors are replaced.  Nothing is assumed of the handlers:
\* a job may hang.
FairSpec ==
  /\ Spec
  /\ \A j \in Job : WF_vars(\E c \in Consumer : Deliver(c, j))
  /\ \A c \in Consumer :
       /\ WF_vars(Consume(c)) /\ WF_vars(NoticeClose(c))
       /\ WF_vars(Retire(c)) /\ WF_vars(Replace(c))
  /\ WF_vars(Recover)

-----------------------------------------------------------------------------
\* Every variable has its type.
TypeOK ==
  /\ ready \subseteq Job /\ settled \subseteq Job
  /\ unacked \in [Consumer -> SUBSET Job]
  /\ conn \in {"up", "lost"}
  /\ chan \in [Consumer -> ChannelState]
  /\ via \in [Consumer -> Consumer]
  /\ inbox \in [Consumer -> SUBSET Job]
  /\ step \in [Consumer -> {"idle", "waiting", "cancel", "ackLate", "report"}]
  /\ cur \in [Consumer -> Job \cup {Null}]
  /\ future \in [Consumer -> {"none", "queued", "running", "done", "failed", "dropped", "cancelled"}]
  /\ worker \in [Worker -> Task \cup {Null}]
  /\ registered \in 0..MaxHandlers
  /\ mode \in {"up", "closing", "shutdown", "now", "aborted"}
  /\ performed \subseteq Job /\ timedOut \subseteq Job
  /\ seen \subseteq Job /\ early \subseteq Job
  /\ submitted \in Nat /\ closes \in Nat /\ stale \in Nat

\* The broker and the client agree on what an open channel holds: a message is never
\* acknowledged twice (the broker would close the channel) nor left unacknowledged.
UnackedAreHeld ==
  \A c \in Consumer : chan[c] = "open" =>
    unacked[c] = inbox[c] \cup (IF step[c] \in {"waiting", "cancel", "ackLate"}
                                THEN {cur[c]} ELSE {})

\* A channel that ends repeats one job, the one it was at, and beyond that a job is only
\* repeated by a delivery that slips past isOpen after its channel has ended: before the
\* client is told, or after the library has brought the executor's channel back.
WasteBounded == submitted <= Cardinality(Job) + closes + stale

\* Seen from the queue: a message goes only when the handlers have come to the end
\* or the job has timed out, whatever closes, fails or is redelivered meanwhile.
JQ == INSTANCE JobQueue WITH queued <- Job \ settled, expired <- timedOut

AtLeastOnce == JQ!Spec

\* A job that is acknowledged has been with a handler, unless it timed out or was over
\* before the application first called onJob(): one that is still under way then, in
\* an inbox, in the thread pool's queue or on a thread, is not acknowledged unseen.
SeenUnlessEarly == settled \subseteq seen \cup timedOut \cup early

\* A callback never waits for a job that no thread runs or will run, but for one that
\* shutdownNow() has dropped: the time-out is for jobs that take long, not for lost ones.
WaitsForSomeone ==
  \A c \in Consumer : step[c] = "waiting" =>
    \/ future[c] \in {"done", "failed"}
    \/ future[c] = "queued" /\ mode \notin {"now", "aborted"}
    \/ future[c] = "dropped" /\ mode \in {"now", "aborted"}
    \/ /\ future[c] = "running"
       /\ \E w \in Worker : /\ worker[w] # Null /\ worker[w].live
                            /\ worker[w].for = c /\ worker[w].job = cur[c]


\* A delivery callback returns, for a task that shutdownNow() has dropped too.
CallbackReturns == \A c \in Consumer : step[c] = "waiting" ~> step[c] = "idle"

=============================================================================
