----------------------------- MODULE Dispatcher -----------------------------
(***************************************************************************)
(* JobQueueDispatcher: jobs are dispatched, and the notifications that the *)
(* executor's application sends of them come back on the error and success *)
(* queues.  A delivery callback puts each on the one pool of workers, where *)
(* a thread runs the handlers and acknowledges the message in a finally.   *)
(* Unlike jobs, notifications have no timeout and their channels are not   *)
(* replaced.  A notification is named by its job, and sent once.           *)
(***************************************************************************)
EXTENDS Naturals, FiniteSets

CONSTANTS
  Job,          \* the jobs the application may dispatch
  Failing,      \* those of which sendError() tells, the others sendSuccess()
  Malformed,    \* those whose notification fromJson rejects
  Worker,       \* the threads of newFixedThreadPool
  MaxChannels,  \* how many channels a connection allows for publications
  MaxHandlers,  \* how many handlers the application registers (a bound)
  MaxFaults,    \* how often something fails (a bound)
  Null

ASSUME DispatcherAssumption ==
  /\ Failing \subseteq Job /\ Malformed \subseteq Job
  /\ MaxChannels \in Nat /\ MaxHandlers \in Nat /\ MaxFaults \in Nat

Queue == {"errors", "successes"}

QueueOf(j) == IF j \in Failing THEN "errors" ELSE "successes"

VARIABLES
  opened,      \* channels opened on either connection by publications
  dispatched,  \* jobs
  sent,        \* notifications published
  ready,       \* notifications waiting in their queue
  unacked,     \* per queue, notifications delivered and not acknowledged
  settled,     \* notifications acknowledged
  chan,        \* the consumer's channel of a queue, "open" or "closed"
  tag,         \* deliveries so far: the last delivery tag
  base,        \* the last delivery tag of a connection that has been lost
  tasks,       \* the workers' queue: deliveries
  worker,      \* what a thread is at, or Null
  registered,  \* how many handlers each queue has
  faults,
  \* history
  expecting,   \* jobs dispatched when a handler of their notification was registered
  seen, threw, completed \* notifications the first handler was called with; executions that ...

broker == <<ready, unacked, settled>>
conn == <<chan, tag, base>>
publications == <<opened, dispatched, sent, expecting>>
results == <<seen, threw, completed>>
vars == <<publications, broker, conn, tasks, worker, registered, faults, results>>

Delivery == [job : Job, tag : Nat]

\* A run of ErrorHandlers.execute or SuccessHandlers.execute: the handlers done, how
\* many there were when the iterator was made, whether execute() has ended.
Run == [job : Job, tag : Nat, at : Nat, size : Nat, ended : BOOLEAN]

ASSUME NullAssumption == Null \notin Run

Init ==
  /\ opened = [end \in {"dispatcher", "executor"} |-> 0]
  /\ dispatched = {} /\ sent = {} /\ expecting = {}
  /\ ready = {} /\ settled = {}
  /\ unacked = [q \in Queue |-> {}]
  /\ chan = [q \in Queue |-> "open"]
  /\ tag = 0 /\ base = 0
  /\ tasks = {}
  /\ worker = [w \in Worker |-> Null]
  /\ registered = [q \in Queue |-> 0]
  /\ faults = 0
  /\ seen = {} /\ threw = {} /\ completed = {}

-----------------------------------------------------------------------------
(* Publications.  withDispatchQueue and its like open a channel, which     *)
(* nobody closes; when none is left createChannel() fails the publication. *)

OpenChannel(end) ==
  /\ opened[end] < MaxChannels
  /\ opened' = [opened EXCEPT ![end] = @ + 1]

Dispatch(j) ==
  /\ j \notin dispatched
  /\ OpenChannel("dispatcher")
  /\ dispatched' = dispatched \cup {j}
  /\ expecting' = IF registered[QueueOf(j)] > 0 THEN expecting \cup {j} ELSE expecting
  /\ UNCHANGED <<sent, broker, conn, tasks, worker, registered, faults, results>>

\* sendError() or sendSuccess() of the executor, after it has got the job.
Send(j) ==
  /\ j \in dispatched \ sent
  /\ OpenChannel("executor")
  /\ sent' = sent \cup {j}
  /\ ready' = ready \cup {j}
  /\ UNCHANGED <<dispatched, expecting, unacked, settled, conn, tasks, worker, registered,
                 faults, results>>

-----------------------------------------------------------------------------
(* Consumption: initCallbacks().                                           *)

\* Mutant of Deliver: basicConsume with autoAck = true.
DeliverAutoAck(j) ==
  /\ j \in ready /\ chan[QueueOf(j)] = "open"
  /\ ready' = ready \ {j}
  /\ settled' = settled \cup {j}
  /\ tag' = tag + 1
  /\ tasks' = tasks \cup {[job |-> j, tag |-> tag + 1]}
  /\ UNCHANGED <<publications, unacked, chan, base, worker, registered, faults, results>>

\* The broker delivers, without limit, and the callback calls workers.execute.
Deliver(j) ==
  /\ j \in ready /\ chan[QueueOf(j)] = "open"
  /\ ready' = ready \ {j}
  /\ unacked' = [unacked EXCEPT ![QueueOf(j)] = @ \cup {j}]
  /\ tag' = tag + 1
  /\ tasks' = tasks \cup {[job |-> j, tag |-> tag + 1]}
  /\ UNCHANGED <<publications, settled, chan, base, worker, registered, faults, results>>

\* fromJson of the notification's class: the fields are there, not null, and typed.
Parses(j) == j \notin Malformed

\* A thread takes a delivery (in any order, the queue's among them); fromJson may throw.
StartTask(w, d) ==
  /\ worker[w] = Null /\ d \in tasks
  /\ tasks' = tasks \ {d}
  /\ worker' = [worker EXCEPT ![w] =
       [job |-> d.job, tag |-> d.tag, at |-> 0, size |-> registered[QueueOf(d.job)],
        ended |-> ~Parses(d.job)]]
  /\ threw' = IF Parses(d.job) THEN threw ELSE threw \cup {d.job}
  /\ UNCHANGED <<publications, broker, conn, registered, faults, seen, completed>>

Executing(w) == worker[w] # Null /\ ~worker[w].ended

\* Mutant of HasNext: a success notification goes to errorHandlers.
HasNextError(w) == Executing(w) /\ worker[w].at # registered["errors"]

HasNext(w) == Executing(w) /\ worker[w].at # registered[QueueOf(worker[w].job)]

InHandler(w) == HasNext(w) /\ worker[w].size = registered[QueueOf(worker[w].job)]

\* execute() ends, with an exception or without.
EndExecute(w) == worker' = [worker EXCEPT ![w].ended = TRUE]

Throw(w) == EndExecute(w) /\ threw' = threw \cup {worker[w].job} /\ UNCHANGED completed

\* A handler returns ...
Handle(w) ==
  /\ InHandler(w)
  /\ worker' = [worker EXCEPT ![w].at = @ + 1]
  /\ seen' = seen \cup {worker[w].job}
  /\ UNCHANGED <<publications, broker, conn, tasks, registered, faults, threw, completed>>

\* ... or throws ...
HandlerThrows(w) ==
  /\ InHandler(w) /\ faults < MaxFaults
  /\ faults' = faults + 1
  /\ seen' = seen \cup {worker[w].job}
  /\ Throw(w)
  /\ UNCHANGED <<publications, broker, conn, tasks, registered>>

\* ... or next() throws, since a handler has been registered after iterator().
Comodified(w) ==
  /\ HasNext(w) /\ ~InHandler(w)
  /\ Throw(w)
  /\ UNCHANGED <<publications, broker, conn, tasks, registered, faults, seen>>

Complete(w) ==
  /\ Executing(w) /\ ~HasNext(w)
  /\ EndExecute(w)
  /\ completed' = completed \cup {worker[w].job}
  /\ UNCHANGED <<publications, broker, conn, tasks, registered, faults, seen, threw>>

\* basicAck throws on a closed channel, and sends nothing for the tag of a connection
\* that has been lost.
Ack(w) ==
  LET j == worker[w].job
      q == QueueOf(j)
  IN  IF chan[q] = "open" /\ worker[w].tag > base
      THEN /\ settled' = settled \cup {j}
           /\ unacked' = [unacked EXCEPT ![q] = @ \ {j}]
           /\ UNCHANGED ready
      ELSE UNCHANGED broker

\* Mutant of Acknowledge: a thread acknowledges before it executes.
AcknowledgeFirst(w) ==
  /\ worker[w] # Null
  /\ Ack(w)
  /\ worker' = [worker EXCEPT ![w] = Null]
  /\ UNCHANGED <<publications, conn, tasks, registered, faults, results>>

\* Mutant of Acknowledge: after execute(), not in a finally.
AcknowledgeUnlessThrown(w) ==
  /\ worker[w] # Null /\ worker[w].ended
  /\ IF worker[w].job \in threw THEN UNCHANGED broker ELSE Ack(w)
  /\ worker' = [worker EXCEPT ![w] = Null]
  /\ UNCHANGED <<publications, conn, tasks, registered, faults, results>>

\* finally: whatever execute() came to.
Acknowledge(w) ==
  /\ worker[w] # Null /\ worker[w].ended
  /\ Ack(w)
  /\ worker' = [worker EXCEPT ![w] = Null]
  /\ UNCHANGED <<publications, conn, tasks, registered, faults, results>>

-----------------------------------------------------------------------------
\* onError() or onSuccess().
Register(q) ==
  /\ registered["errors"] + registered["successes"] < MaxHandlers
  /\ registered' = [registered EXCEPT ![q] = @ + 1]
  /\ UNCHANGED <<publications, broker, conn, tasks, worker, faults, results>>

\* The broker closes a channel (its acknowledgement timeout, an error): nothing opens it
\* again, CancelCallback and the lack of a shutdown callback see to that.
CloseChannel(q) ==
  /\ chan[q] = "open" /\ faults < MaxFaults
  /\ faults' = faults + 1
  /\ chan' = [chan EXCEPT ![q] = "closed"]
  /\ ready' = ready \cup unacked[q]
  /\ unacked' = [unacked EXCEPT ![q] = {}]
  /\ UNCHANGED <<publications, settled, tag, base, tasks, worker, registered, results>>

\* Mutant of Recover: the next tag counts as one of the lost connection.
RecoverPast ==
  /\ faults < MaxFaults
  /\ faults' = faults + 1
  /\ ready' = ready \cup UNION {unacked[q] : q \in Queue}
  /\ unacked' = [q \in Queue |-> {}]
  /\ base' = tag + 1
  /\ UNCHANGED <<publications, settled, chan, tag, tasks, worker, registered, results>>

\* The dispatcher's connection is lost; the library recovers it with its open channels
\* and their consumers.
Recover ==
  /\ faults < MaxFaults
  /\ faults' = faults + 1
  /\ ready' = ready \cup UNION {unacked[q] : q \in Queue}
  /\ unacked' = [q \in Queue |-> {}]
  /\ base' = tag
  /\ UNCHANGED <<publications, settled, chan, tag, tasks, worker, registered, results>>

Work(w) ==
  \/ \E d \in tasks : StartTask(w, d)
  \/ Handle(w) \/ HandlerThrows(w) \/ Comodified(w) \/ Complete(w) \/ Acknowledge(w)

Next ==
  \/ \E j \in Job : Dispatch(j) \/ Send(j) \/ Deliver(j)
  \/ \E w \in Worker : Work(w)
  \/ \E q \in Queue : Register(q) \/ CloseChannel(q)
  \/ Recover

Spec == Init /\ [][Next]_vars

\* The broker delivers and the threads go on.  Nothing is assumed of a thread that has
\* another handler to run: a handler may hang.
FairSpec ==
  /\ Spec
  /\ \A j \in Job : WF_vars(Deliver(j))
  /\ \A w \in Worker :
       WF_vars((\E d \in tasks : StartTask(w, d)) \/ Complete(w) \/ Acknowledge(w))

-----------------------------------------------------------------------------
\* Every variable has its type.
TypeOK ==
  /\ opened \in [{"dispatcher", "executor"} -> 0..MaxChannels]
  /\ dispatched \subseteq Job /\ sent \subseteq dispatched /\ expecting \subseteq dispatched
  /\ ready \subseteq sent /\ settled \subseteq sent
  /\ unacked \in [Queue -> SUBSET Job]
  /\ chan \in [Queue -> {"open", "closed"}]
  /\ tag \in Nat /\ base \in 0..tag
  /\ tasks \subseteq Delivery
  /\ worker \in [Worker -> Run \cup {Null}]
  /\ registered \in [Queue -> 0..MaxHandlers]
  /\ faults \in 0..MaxFaults
  /\ seen \subseteq Job /\ threw \subseteq Job /\ completed \subseteq Job

\* The worker threads hold what the broker waits for, and each message once: whatever is
\* delivered, redelivered and executed in parallel, no delivery tag is acknowledged twice
\* (the broker would close the channel) and none is forgotten.
OneHolder ==
  \A q \in Queue, j \in Job : chan[q] = "open" /\ QueueOf(j) = q =>
    LET waiting == {d \in tasks : d.job = j /\ d.tag > base}
        running == {w \in Worker : worker[w] # Null /\ worker[w].job = j /\ worker[w].tag > base}
    IN  Cardinality(waiting) + Cardinality(running) = IF j \in unacked[q] THEN 1 ELSE 0

\* A handler that was there before the job was dispatched sees its notification, unless
\* the execution threw: of what is acknowledged in the finally nothing else is lost.
SeenUnlessThrown == settled \cap expecting \subseteq seen \cup threw

\* Seen from its queue a notification goes only when the handlers have come to the end
\* or the execution has thrown, whatever channels and connections do meanwhile.
JQ == INSTANCE JobQueue WITH queued <- Job \ settled, performed <- completed, expired <- threw

KeptUntilTried == JQ!Spec

\* A notification is acknowledged in the end unless its channel has been closed, one of
\* its own handlers hangs, or all threads hang for good (both queues share them).
NotificationsSettle ==
  \A j \in Job :
    j \in sent ~> \/ j \in settled
                  \/ chan[QueueOf(j)] = "closed"
                  \/ [](\E w \in Worker : HasNext(w) /\ worker[w].job = j)
                  \/ [](\A w \in Worker : HasNext(w))

=============================================================================
