------------------------- MODULE JobExecutionProofs -------------------------
(***************************************************************************)
(* Theorems about JobExecution, for every set of messages, consumers and   *)
(* threads, any number of handlers and of channels that close.             *)
(***************************************************************************)
EXTENDS JobExecution, FiniteSetTheorems, TLAPS

\* The callback has a job, and its Future, exactly while it is not idle.
CallbackHasJob ==
  \A c \in Consumer :
    IF step[c] = "idle" THEN cur[c] = Null /\ future[c] = "none" ELSE cur[c] \in Job

\* A thread whose task has not been cancelled runs it for the callback that waits.
Live(w) == worker[w] # Null /\ worker[w].live

Serves(w) ==
  Live(w) => /\ future[worker[w].for] = "running"
             /\ worker[w].job = cur[worker[w].for]

\* No two threads run the task of one callback.
OneLive ==
  \A v, w \in Worker : Live(v) /\ Live(w) /\ worker[v].for = worker[w].for => v = w

TaskInv == OneLive /\ \A w \in Worker : Serves(w)

\* After cancel(true) the task neither waits nor runs.
CancelledIsOver ==
  \A c \in Consumer : step[c] \in {"ackLate", "report"} => future[c] \notin {"queued", "running"}

\* A channel that is not in use yet has no callback.
UnusedIsIdle == \A c \in Consumer : chan[c] = "none" => inbox[c] = {} /\ step[c] = "idle"

\* Only the executor of an ended channel goes on with another one.
OthersStay == \A c \in Consumer : chan[c] # "ended" => via[c] = c

ChannelInv == UnusedIsIdle /\ OthersStay

TypeInv == TypeOK /\ CallbackHasJob /\ TaskInv /\ CancelledIsOver /\ ChannelInv

LEMMA TypeInit == Init => TypeInv
BY JobAssumption DEF Init, TypeInv, TypeOK, ChannelState, CallbackHasJob, TaskInv, OneLive,
                      Live, Serves, CancelledIsOver, ChannelInv, UnusedIsIdle, OthersStay

\* Whatever channels end, the broker's state keeps its type.
LEMMA RequeueType ==
  ASSUME TypeInv, NEW cs \in SUBSET Consumer, Requeue(cs)
  PROVE  /\ ready' \subseteq Job /\ settled' \subseteq Job
         /\ unacked' \in [Consumer -> SUBSET Job]
         /\ submitted' \in Nat /\ closes' \in Nat /\ stale' \in Nat
<1> DEFINE open == {c \in cs : chan[c] = "open"}
<1>1. Cardinality(open) \in Nat
  <2>1. IsFiniteSet(open)
    BY JobAssumption, FS_Subset
  <2> QED
    BY <2>1, FS_CardinalityType
<1> HIDE DEF open
<1>2. closes' = closes + Cardinality(open)
  BY DEF Requeue, open
<1> QED
  BY <1>1, <1>2 DEF Requeue, TypeInv, TypeOK

\* Only an unused channel comes back, and every executor goes on with one of its own.
LEMMA RecoverFacts ==
  ASSUME TypeOK, OthersStay, Recover
  PROVE  /\ chan' \in [Consumer -> ChannelState] /\ via' \in [Consumer -> Consumer]
         /\ conn' = "up" /\ OthersStay'
         /\ \A c \in Consumer : chan'[c] = chan[c] \/ (chan[c] = "none" /\ chan'[c] = "open")
         /\ UNCHANGED <<broker, inbox, callback, tasks, registered, mode, marks, counts>>
<1>a. PICK back \in SUBSET Returnable : \E new \in Injection(back, Unused) :
        /\ chan' = [c \in Consumer |-> IF c \in Range(new) THEN "open" ELSE chan[c]]
        /\ via' = [c \in Consumer |-> IF via[c] \in back THEN new[via[c]] ELSE via[c]]
  BY DEF Recover
<1>1. PICK new \in Injection(back, Unused) :
        /\ chan' = [c \in Consumer |-> IF c \in Range(new) THEN "open" ELSE chan[c]]
        /\ via' = [c \in Consumer |-> IF via[c] \in back THEN new[via[c]] ELSE via[c]]
  BY <1>a
<1>2. new \in [back -> Unused]
  BY DEF Injection
<1>3. Range(new) \subseteq Unused
  BY <1>2 DEF Range
<1> QED
  <2>1. /\ back \subseteq Consumer
        /\ \A c \in back : chan[c] = "ended" /\ new[c] \in Consumer
        /\ \A c \in Range(new) : c \in Consumer /\ chan[c] = "none"
    BY <1>2, <1>3 DEF Returnable, Unused
  <2>2. /\ \A c \in Consumer : via'[c] \in Consumer /\ (via'[c] # via[c] => via[c] \in back)
        /\ \A c \in Consumer : via'[c] # via[c] => chan[c] = "ended"
    <3>1. \A c \in Consumer : via[c] \in Consumer /\ (via[c] # c => chan[c] = "ended")
      BY DEF TypeOK, OthersStay
    <3> QED
      BY <1>1, <2>1, <3>1
  <2>3. \A c \in Consumer : chan'[c] = chan[c] \/ (chan[c] = "none" /\ chan'[c] = "open")
    BY <1>1, <2>1
  <2>4. chan' \in [Consumer -> ChannelState] /\ via' \in [Consumer -> Consumer]
    BY <1>1, <2>2 DEF ChannelState, TypeOK
  <2>5. OthersStay'
    BY <2>2, <2>3 DEF OthersStay
  <2> QED
    BY <2>3, <2>4, <2>5 DEF Recover

LEMMA TypeStep == TypeInv /\ [Next]_vars => TypeInv'
<1> SUFFICES ASSUME TypeInv, [Next]_vars PROVE TypeInv'
  OBVIOUS
<1> USE JobAssumption DEF TypeInv, TypeOK, CallbackHasJob, TaskInv,
        OneLive, Live, Serves, CancelledIsOver, ChannelInv, UnusedIsIdle, OthersStay, ChannelState, broker, link,
        callback, tasks, marks, counts, Take, Goto, Return
<1>1. ASSUME NEW c \in Consumer, NEW j \in Job, Deliver(c, j) PROVE TypeInv'
  BY <1>1 DEF Deliver
<1>2. ASSUME NEW c \in Consumer, Revoke(c) PROVE TypeInv'
  BY <1>2, RequeueType DEF Revoke
<1>3. ASSUME NEW c \in Consumer, NoticeClose(c) PROVE TypeInv'
  BY <1>3 DEF NoticeClose
<1>4. ASSUME NEW c \in Consumer, Replace(c) PROVE TypeInv'
  BY <1>4 DEF Replace
<1>5. ASSUME NEW c \in Consumer, NEW j \in Job, Skip(c, j) PROVE TypeInv'
  BY <1>5 DEF Skip
<1>6. ASSUME NEW c \in Consumer, NEW j \in Job, Reject(c, j) PROVE TypeInv'
  BY <1>6, RequeueType DEF Reject, Break
<1>7. ASSUME NEW c \in Consumer, NEW j \in Job, Submit(c, j) PROVE TypeInv'
  BY <1>7 DEF Submit
<1>8. ASSUME NEW c \in Consumer, Acknowledge(c) PROVE TypeInv'
  BY <1>8 DEF Acknowledge, Ack
<1>9. ASSUME NEW c \in Consumer, Fail(c) PROVE TypeInv'
  BY <1>9, RequeueType DEF Fail, Break
<1>10. ASSUME NEW c \in Consumer, TimeOut(c) PROVE TypeInv'
  BY <1>10 DEF TimeOut
<1>11. ASSUME NEW c \in Consumer, Cancel(c) PROVE TypeInv'
  <2> DEFINE Futures == {"none", "queued", "running", "done", "failed", "dropped", "cancelled"}
  <2>a. \A d \in Consumer : future'[d] \in Futures
    BY <1>11 DEF Cancel
  <2>b. ASSUME NEW w \in Worker PROVE worker'[w] \in Task \cup {Null}
    <3>1. CASE worker[w] # Null /\ worker[w].for = c
      <4>1. worker[w] \in Task
        BY <3>1
      <4>2. [worker[w] EXCEPT !.live = FALSE] \in Task
        BY <4>1 DEF Task
      <4> QED
        BY <1>11, <3>1, <4>2 DEF Cancel
    <3>2. CASE ~(worker[w] # Null /\ worker[w].for = c)
      BY <1>11, <3>2 DEF Cancel
    <3> QED
      BY <3>1, <3>2
  <2>1. TypeOK' /\ CallbackHasJob' /\ CancelledIsOver' /\ ChannelInv'
    BY <1>11, <2>a, <2>b DEF Cancel
  <2>2. \A w \in Worker : Live(w)' => Live(w) /\ worker[w].for # c /\ worker'[w] = worker[w]
    BY <1>11 DEF Cancel, Task
  <2>3. TaskInv'
    BY <1>11, <2>2 DEF Cancel, Task
  <2> QED
    BY <2>1, <2>3
<1>12. ASSUME NEW c \in Consumer, AckLate(c) PROVE TypeInv'
  BY <1>12 DEF AckLate, Ack
<1>13. ASSUME NEW c \in Consumer, Report(c) PROVE TypeInv'
  BY <1>13 DEF Report
<1>14. ASSUME NEW w \in Worker, NEW c \in Consumer, StartTask(w, c) PROVE TypeInv'
  BY <1>14 DEF StartTask, Task
<1>15. ASSUME NEW w \in Worker, Handle(w) PROVE TypeInv'
  BY <1>15 DEF Handle, InHandler, HasNext, Meet, Task
<1>16. ASSUME NEW w \in Worker, HandlerThrows(w) PROVE TypeInv'
  BY <1>16 DEF HandlerThrows, InHandler, HasNext, Meet, Finish, Task
<1>17. ASSUME NEW w \in Worker, Comodified(w) PROVE TypeInv'
  BY <1>17 DEF Comodified, HasNext, Finish, Task
<1>18. ASSUME NEW w \in Worker, Complete(w) PROVE TypeInv'
  BY <1>18 DEF Complete, Finish, Task
<1>19. CASE OnJob
  BY <1>19 DEF OnJob
<1>20. CASE Stop
  BY <1>20 DEF Stop
<1>21. ASSUME NEW c \in Consumer, StopExecutor(c) PROVE TypeInv'
  BY <1>21, RequeueType DEF StopExecutor, CloseExecutorOf
<1>22. CASE ShutDown
  BY <1>22 DEF ShutDown
<1>23. CASE ShutDownNow
  <2>1. \A d \in Consumer :
          future'[d] = IF future[d] = "queued" THEN "dropped" ELSE future[d]
    BY <1>23 DEF ShutDownNow
  <2>2. TypeOK' /\ CallbackHasJob' /\ CancelledIsOver' /\ ChannelInv'
    BY <1>23, <2>1 DEF ShutDownNow
  <2>3. TaskInv'
    BY <1>23, <2>1 DEF ShutDownNow, Task
  <2> QED
    BY <2>2, <2>3
<1>24. CASE Abort
  BY <1>24, RequeueType DEF Abort
<1>25. CASE UNCHANGED vars
  BY <1>25 DEF vars
<1>26. CASE LoseConnection
  BY <1>26, RequeueType DEF LoseConnection
<1>27. CASE Recover
  BY <1>27, RecoverFacts
<1>28. ASSUME NEW c \in Consumer, Retire(c) PROVE TypeInv'
  BY <1>28, RequeueType DEF Retire, CloseExecutorOf
<1> QED
  BY <1>1, <1>2, <1>3, <1>4, <1>5, <1>6, <1>7, <1>8, <1>9, <1>10, <1>11, <1>12, <1>13,
     <1>14, <1>15, <1>16, <1>17, <1>18, <1>19, <1>20, <1>21, <1>22, <1>23, <1>24, <1>25,
     <1>26, <1>27, <1>28 DEF Next, Consume, Work

\* Every variable of the delivery path keeps its type.
THEOREM TypeCorrect == Spec => []TypeOK
<1>1. TypeInv => TypeOK
  BY DEF TypeInv
<1> QED
  BY <1>1, TypeInit, TypeStep, PTL DEF Spec

-----------------------------------------------------------------------------
(* Who holds a message.                                                    *)

Awaited(c) == step[c] \in {"waiting", "cancel", "ackLate"}

\* A message is in the queue, with one consumer, or gone.
OnePlace ==
  /\ ready \cap settled = {}
  /\ \A c \in Consumer : unacked[c] \cap (ready \cup settled) = {}
  /\ \A c, d \in Consumer : c # d => unacked[c] \cap unacked[d] = {}

\* What the callback is at is no longer among what waits for it.
TakenOut == \A c \in Consumer : chan[c] = "open" /\ Awaited(c) => cur[c] \notin inbox[c]

\* The broker keeps nothing for a channel that has ended.
ClosedHoldNothing == \A c \in Consumer : chan[c] # "open" => unacked[c] = {}

HoldInv == OnePlace /\ TakenOut /\ ClosedHoldNothing /\ UnackedAreHeld

LEMMA HoldInit == Init => HoldInv
BY JobAssumption DEF Init, HoldInv, OnePlace, TakenOut, ClosedHoldNothing, UnackedAreHeld, Awaited

\* Channels end: each message is still in one place, and the others keep theirs.
LEMMA RequeueHolds ==
  ASSUME TypeInv, OnePlace, ClosedHoldNothing, NEW cs \in SUBSET Consumer, Requeue(cs)
  PROVE  /\ OnePlace'
         /\ \A c \in Consumer : unacked'[c] = IF c \in cs THEN {} ELSE unacked[c]
<1> DEFINE open == {c \in cs : chan[c] = "open"}
<1>1. ready' = ready \cup UNION {unacked[c] : c \in open}
  BY DEF Requeue
<1>2. \A c \in Consumer : unacked'[c] = IF c \in open THEN {} ELSE unacked[c]
  BY DEF Requeue
<1>3. settled' = settled
  BY DEF Requeue
<1>4. \A c \in Consumer : unacked'[c] = IF c \in cs THEN {} ELSE unacked[c]
  BY <1>2 DEF ClosedHoldNothing
<1>5. \A j : j \in ready' <=> j \in ready \/ \E c \in open : j \in unacked[c]
  BY <1>1
<1>6. ready' \cap settled' = {}
  BY <1>3, <1>5 DEF OnePlace
<1>7. ASSUME NEW c \in Consumer PROVE unacked'[c] \cap (ready' \cup settled') = {}
  <2>1. ASSUME NEW j \in unacked'[c] PROVE j \notin ready' /\ j \notin settled'
    <3>1. c \notin open /\ j \in unacked[c]
      BY <1>2, <2>1
    <3>2. \A d \in open : d # c /\ d \in Consumer
      BY <3>1
    <3> QED
      BY <1>3, <1>5, <3>1, <3>2 DEF OnePlace
  <2> QED
    BY <2>1
<1>8. \A c, d \in Consumer : c # d => unacked'[c] \cap unacked'[d] = {}
  BY <1>2 DEF OnePlace
<1> QED
  BY <1>4, <1>6, <1>7, <1>8 DEF OnePlace

LEMMA HoldStep == TypeInv /\ HoldInv /\ [Next]_vars => HoldInv'
<1> SUFFICES ASSUME TypeInv, HoldInv, [Next]_vars PROVE HoldInv'
  OBVIOUS
<1>a. TypeOK /\ CallbackHasJob
  BY DEF TypeInv
<1> USE <1>a, JobAssumption DEF TypeOK, CallbackHasJob, HoldInv, OnePlace, TakenOut,
        ClosedHoldNothing, UnackedAreHeld, Awaited, broker, link, callback, tasks,
        marks, counts, Take, Goto, Return
<1>1. ASSUME NEW c \in Consumer, NEW j \in Job, Deliver(c, j) PROVE HoldInv'
  BY <1>1 DEF Deliver
<1>2. ASSUME NEW c \in Consumer, Revoke(c) PROVE HoldInv'
  BY <1>2, RequeueHolds DEF Revoke
<1>3. ASSUME NEW c \in Consumer, NoticeClose(c) PROVE HoldInv'
  BY <1>3 DEF NoticeClose
<1>4. ASSUME NEW c \in Consumer, Replace(c) PROVE HoldInv'
  BY <1>4 DEF Replace, CalledBack
<1>5. ASSUME NEW c \in Consumer, NEW j \in Job, Skip(c, j) PROVE HoldInv'
  <2>1. chan[c] # "open"
    BY <1>5 DEF Skip, IsOpen, TypeInv, ChannelInv, OthersStay
  <2> QED
    BY <1>5, <2>1 DEF Skip
<1>6. ASSUME NEW c \in Consumer, NEW j \in Job, Reject(c, j) PROVE HoldInv'
  BY <1>6, RequeueHolds DEF Reject, Break
<1>7. ASSUME NEW c \in Consumer, NEW j \in Job, Submit(c, j) PROVE HoldInv'
  BY <1>7 DEF Submit
<1>8. ASSUME NEW c \in Consumer, Acknowledge(c) PROVE HoldInv'
  <2>1. CASE chan[c] = "open"
    BY <1>8, <2>1 DEF Acknowledge, Ack
  <2>2. CASE chan[c] # "open"
    BY <1>8, <2>2 DEF Acknowledge, Ack
  <2> QED
    BY <2>1, <2>2
<1>9. ASSUME NEW c \in Consumer, Fail(c) PROVE HoldInv'
  BY <1>9, RequeueHolds DEF Fail, Break
<1>10. ASSUME NEW c \in Consumer, TimeOut(c) PROVE HoldInv'
  BY <1>10 DEF TimeOut
<1>11. ASSUME NEW c \in Consumer, Cancel(c) PROVE HoldInv'
  BY <1>11 DEF Cancel
<1>12. ASSUME NEW c \in Consumer, AckLate(c) PROVE HoldInv'
  BY <1>12 DEF AckLate, Ack
<1>13. ASSUME NEW c \in Consumer, Report(c) PROVE HoldInv'
  BY <1>13 DEF Report
<1>14. ASSUME NEW w \in Worker, Work(w) PROVE HoldInv'
  BY <1>14 DEF Work, StartTask, Handle, HandlerThrows, Comodified, Complete
<1>15. CASE OnJob \/ Stop \/ ShutDown
  BY <1>15 DEF OnJob, Stop, ShutDown
<1>16. ASSUME NEW c \in Consumer, StopExecutor(c) PROVE HoldInv'
  BY <1>16, RequeueHolds DEF StopExecutor, CloseExecutorOf
<1>17. CASE ShutDownNow
  BY <1>17 DEF ShutDownNow
<1>18. CASE Abort
  BY <1>18, RequeueHolds DEF Abort
<1>19. CASE UNCHANGED vars
  BY <1>19 DEF vars
<1>20. CASE LoseConnection
  BY <1>20, RequeueHolds DEF LoseConnection
<1>21. CASE Recover
  <2>1. /\ \A c \in Consumer : chan'[c] = chan[c] \/ (chan[c] = "none" /\ chan'[c] = "open")
        /\ UNCHANGED <<broker, inbox, callback>>
    BY <1>21, RecoverFacts DEF TypeInv, ChannelInv
  <2>2. UnusedIsIdle
    BY DEF TypeInv, ChannelInv
  <2> QED
    BY <2>1, <2>2 DEF UnusedIsIdle
<1>22. ASSUME NEW c \in Consumer, Retire(c) PROVE HoldInv'
  BY <1>22, RequeueHolds DEF Retire, CloseExecutorOf
<1> QED
  BY <1>1, <1>2, <1>3, <1>4, <1>5, <1>6, <1>7, <1>8, <1>9, <1>10, <1>11, <1>12, <1>13,
     <1>14, <1>15, <1>16, <1>17, <1>18, <1>19, <1>20, <1>21, <1>22 DEF Next, Consume

\* The broker and the client agree, in every reachable state, on what each open channel
\* holds, however deliveries, timeouts, acknowledgements and closed channels interleave.
THEOREM BrokerAgrees == Spec => []UnackedAreHeld
<1>1. HoldInv => UnackedAreHeld
  BY DEF HoldInv
<1> QED
  BY <1>1, TypeInit, TypeStep, HoldInit, HoldStep, PTL DEF Spec

-----------------------------------------------------------------------------
(* JobExecution implements JobQueue.                                       *)

\* What get() returned was performed, and what is given up has timed out.
Justified ==
  \A c \in Consumer :
    /\ future[c] = "done" => cur[c] \in performed
    /\ step[c] \in {"cancel", "ackLate", "report"} => cur[c] \in timedOut

LEMMA JustifiedInit == Init => Justified
BY DEF Init, Justified

LEMMA JustifiedStep == TypeInv /\ Justified /\ [Next]_vars => Justified'
<1> SUFFICES ASSUME TypeInv, Justified, [Next]_vars PROVE Justified'
  OBVIOUS
<1> USE DEF TypeInv, TypeOK, CallbackHasJob, TaskInv, Serves, Live, CancelledIsOver,
        Justified, broker, link, callback, tasks, marks, counts, Take, Goto, Return
<1>1. ASSUME NEW c \in Consumer, NEW j \in Job, Deliver(c, j) PROVE Justified'
  BY <1>1 DEF Deliver
<1>2. ASSUME NEW c \in Consumer,
             Revoke(c) \/ NoticeClose(c) \/ Retire(c) \/ Replace(c) \/ StopExecutor(c)
      PROVE  Justified'
  BY <1>2 DEF Revoke, NoticeClose, Retire, Replace, StopExecutor
<1>3. ASSUME NEW c \in Consumer, NEW j \in Job, Skip(c, j) \/ Reject(c, j) PROVE Justified'
  BY <1>3 DEF Skip, Reject
<1>4. ASSUME NEW c \in Consumer, NEW j \in Job, Submit(c, j) PROVE Justified'
  BY <1>4 DEF Submit
<1>5. ASSUME NEW c \in Consumer, Acknowledge(c) \/ Fail(c) \/ Report(c) PROVE Justified'
  BY <1>5 DEF Acknowledge, Fail, Report
<1>6. ASSUME NEW c \in Consumer, TimeOut(c) PROVE Justified'
  BY <1>6 DEF TimeOut
<1>7. ASSUME NEW c \in Consumer, Cancel(c) PROVE Justified'
  BY <1>7 DEF Cancel
<1>8. ASSUME NEW c \in Consumer, AckLate(c) PROVE Justified'
  BY <1>8 DEF AckLate
<1>9. ASSUME NEW w \in Worker, NEW c \in Consumer, StartTask(w, c) PROVE Justified'
  BY <1>9 DEF StartTask
<1>10. ASSUME NEW w \in Worker, Handle(w) PROVE Justified'
  BY <1>10 DEF Handle, Meet
<1>11. ASSUME NEW w \in Worker, HandlerThrows(w) \/ Comodified(w) PROVE Justified'
  BY <1>11 DEF HandlerThrows, Comodified, InHandler, HasNext, Meet, Finish, Task
<1>12. ASSUME NEW w \in Worker, Complete(w) PROVE Justified'
  BY <1>12 DEF Complete, Finish, Task
<1>13. CASE OnJob \/ Stop \/ ShutDown \/ Abort \/ LoseConnection \/ Recover
  BY <1>13 DEF OnJob, Stop, ShutDown, Abort, LoseConnection, Recover
<1>14. CASE ShutDownNow
  BY <1>14 DEF ShutDownNow
<1>15. CASE UNCHANGED vars
  BY <1>15 DEF vars
<1> QED
  BY <1>1, <1>2, <1>3, <1>4, <1>5, <1>6, <1>7, <1>8, <1>9, <1>10, <1>11, <1>12, <1>13,
     <1>14, <1>15 DEF Next, Consume, Work

\* A message that is acknowledged leaves the queue, or had left it before.
LEMMA AckRemoves ==
  ASSUME TypeInv, NEW c \in Consumer, step[c] # "idle", Ack(c),
         cur[c] \in performed \cup timedOut, UNCHANGED marks
  PROVE  [JQ!Next]_(JQ!vars)
<1>1. cur[c] \in Job
  BY DEF TypeInv, CallbackHasJob
<1>2. CASE chan[c] = "open" /\ cur[c] \notin settled
  <2>1. JQ!Remove(cur[c])
    BY <1>1, <1>2 DEF Ack, JQ!Remove, marks
  <2> QED
    BY <1>1, <2>1 DEF JQ!Next
<1>3. CASE ~(chan[c] = "open" /\ cur[c] \notin settled)
  <2>1. settled' = settled
    BY <1>3 DEF Ack, broker
  <2> QED
    BY <2>1 DEF JQ!vars, marks
<1> QED
  BY <1>2, <1>3

LEMMA StepImplements == TypeInv /\ Justified /\ [Next]_vars => [JQ!Next]_(JQ!vars)
<1> SUFFICES ASSUME TypeInv, Justified, [Next]_vars PROVE [JQ!Next]_(JQ!vars)
  OBVIOUS
<1>1. ASSUME NEW c \in Consumer, Acknowledge(c) PROVE [JQ!Next]_(JQ!vars)
  BY <1>1, AckRemoves DEF Acknowledge, Justified
<1>2. ASSUME NEW c \in Consumer, AckLate(c) PROVE [JQ!Next]_(JQ!vars)
  BY <1>2, AckRemoves DEF AckLate, Justified
<1>3. ASSUME NEW c \in Consumer, TimeOut(c) PROVE [JQ!Next]_(JQ!vars)
  <2>1. cur[c] \in Job
    BY <1>3 DEF TimeOut, TypeInv, CallbackHasJob
  <2>2. JQ!Expire(cur[c])
    BY <1>3 DEF TimeOut, JQ!Expire, broker
  <2> QED
    BY <2>1, <2>2 DEF JQ!Next
<1>4. ASSUME NEW w \in Worker, Complete(w) PROVE [JQ!Next]_(JQ!vars)
  <2>1. worker[w].job \in Job
    BY <1>4 DEF Complete, TypeInv, TypeOK, Task
  <2>2. JQ!Perform(worker[w].job)
    BY <1>4 DEF Complete, JQ!Perform, broker
  <2> QED
    BY <2>1, <2>2 DEF JQ!Next
<1>5. ASSUME UNCHANGED <<settled, performed, timedOut>> PROVE [JQ!Next]_(JQ!vars)
  BY <1>5 DEF JQ!vars
<1> QED
  <2> USE DEF broker, Requeue, Break, CloseExecutorOf, marks, Meet
  <2>1. ASSUME NEW c \in Consumer, NEW j \in Job,
               Deliver(c, j) \/ Skip(c, j) \/ Reject(c, j) \/ Submit(c, j)
        PROVE  UNCHANGED <<settled, performed, timedOut>>
    BY <2>1 DEF Deliver, Skip, Reject, Submit
  <2>2. ASSUME NEW c \in Consumer,
               \/ Revoke(c) \/ NoticeClose(c) \/ Retire(c) \/ Replace(c) \/ StopExecutor(c)
               \/ Fail(c) \/ Cancel(c) \/ Report(c)
        PROVE  UNCHANGED <<settled, performed, timedOut>>
    BY <2>2 DEF Revoke, NoticeClose, Retire, Replace, StopExecutor, Fail, Cancel, Report
  <2>3. ASSUME NEW w \in Worker,
               \/ \E c \in Consumer : StartTask(w, c)
               \/ Handle(w) \/ HandlerThrows(w) \/ Comodified(w)
        PROVE  UNCHANGED <<settled, performed, timedOut>>
    BY <2>3 DEF StartTask, Handle, HandlerThrows, Comodified
  <2>4. CASE \/ OnJob \/ Stop \/ ShutDown \/ ShutDownNow \/ Abort
              \/ LoseConnection \/ Recover \/ UNCHANGED vars
    BY <1>5, <2>4 DEF OnJob, Stop, ShutDown, ShutDownNow, Abort, LoseConnection, Recover, vars
  <2> QED
    BY <1>1, <1>2, <1>3, <1>4, <1>5, <2>1, <2>2, <2>3, <2>4 DEF Next, Consume, Work

\* A dispatched job stays in the queue until the handlers have come to its end or its
\* time is over: acknowledged messages are exactly removals of the abstract queue.
THEOREM NeverLost == Spec => AtLeastOnce
<1>1. Init => JQ!Init
  BY DEF Init, JQ!Init
<1> QED
  BY <1>1, TypeInit, TypeStep, JustifiedInit, JustifiedStep, StepImplements, PTL
     DEF Spec, AtLeastOnce, JQ!Spec

-----------------------------------------------------------------------------
(* Jobs that come before onJob().                                          *)

\* An execution that is past the first handler has been with one; one that came to the
\* end has too, or found none registered; and only ended ones are acknowledged.
SeenInv ==
  /\ \A w \in Worker : worker[w] # Null /\ worker[w].at # 0 => worker[w].job \in seen
  /\ performed \subseteq seen \cup early
  /\ settled \subseteq performed \cup timedOut

LEMMA SeenInit == Init => SeenInv
BY DEF Init, SeenInv

LEMMA SeenStep == TypeInv /\ Justified /\ SeenInv /\ [Next]_vars => SeenInv'
<1> SUFFICES ASSUME TypeInv, Justified, SeenInv, [Next]_vars PROVE SeenInv'
  OBVIOUS
<1>a. TypeOK
  BY DEF TypeInv
<1> USE <1>a DEF TypeOK, SeenInv, broker, link, callback, tasks, marks, counts, Take, Goto,
        Return
<1>1. ASSUME NEW c \in Consumer, NEW j \in Job,
             Deliver(c, j) \/ Skip(c, j) \/ Reject(c, j) \/ Submit(c, j)
      PROVE  SeenInv'
  BY <1>1 DEF Deliver, Skip, Reject, Submit, Break, Requeue
<1>2. ASSUME NEW c \in Consumer,
             Revoke(c) \/ NoticeClose(c) \/ Retire(c) \/ Replace(c) \/ StopExecutor(c)
      PROVE  SeenInv'
  BY <1>2 DEF Revoke, NoticeClose, Retire, Replace, StopExecutor, CloseExecutorOf, Requeue
<1>3. ASSUME NEW c \in Consumer, Acknowledge(c) PROVE SeenInv'
  BY <1>3 DEF Acknowledge, Ack, Justified
<1>4. ASSUME NEW c \in Consumer, AckLate(c) PROVE SeenInv'
  BY <1>4 DEF AckLate, Ack, Justified
<1>5. ASSUME NEW c \in Consumer, Fail(c) \/ TimeOut(c) \/ Report(c) PROVE SeenInv'
  BY <1>5 DEF Fail, TimeOut, Report, Break, Requeue
<1>6. ASSUME NEW c \in Consumer, Cancel(c) PROVE SeenInv'
  <2>1. ASSUME NEW w \in Worker, worker'[w] # Null
        PROVE  worker[w] # Null /\ worker'[w].at = worker[w].at /\ worker'[w].job = worker[w].job
    BY <1>6, <2>1 DEF Cancel, Task
  <2>2. UNCHANGED <<marks, settled>>
    BY <1>6 DEF Cancel
  <2> QED
    BY <2>1, <2>2
<1>7. ASSUME NEW w \in Worker, NEW c \in Consumer, StartTask(w, c) PROVE SeenInv'
  BY <1>7 DEF StartTask
<1>8. ASSUME NEW w \in Worker, Handle(w) PROVE SeenInv'
  BY <1>8 DEF Handle, InHandler, HasNext, Meet, Task
<1>9. ASSUME NEW w \in Worker, HandlerThrows(w) \/ Comodified(w) PROVE SeenInv'
  BY <1>9 DEF HandlerThrows, Comodified, InHandler, HasNext, Meet, Finish
<1>10. ASSUME NEW w \in Worker, Complete(w) PROVE SeenInv'
  <2>1. worker[w].at = registered
    BY <1>10 DEF Complete, HasNext
  <2>2. worker[w].job \in seen' \cup early'
    BY <1>10, <2>1 DEF Complete
  <2>3. \A v \in Worker : worker'[v] # Null => worker'[v] = worker[v]
    BY <1>10 DEF Complete, Finish
  <2> QED
    BY <1>10, <2>2, <2>3 DEF Complete
<1>11. CASE \/ OnJob \/ Stop \/ ShutDown \/ ShutDownNow \/ Abort
             \/ LoseConnection \/ Recover
  BY <1>11 DEF OnJob, Stop, ShutDown, ShutDownNow, Abort, LoseConnection, Recover, Requeue
<1>12. CASE UNCHANGED vars
  BY <1>12 DEF vars
<1> QED
  BY <1>1, <1>2, <1>3, <1>4, <1>5, <1>6, <1>7, <1>8, <1>9, <1>10, <1>11, <1>12
     DEF Next, Consume, Work

\* Consumption starts in the constructor, before onJob() can be called
\* (JobQueueExecutor.kt:41): a job that is not over when the first handler is registered
\* is acknowledged only after a handler had it or its time was over, wherever it was.
THEOREM NoneUnseen == Spec => []SeenUnlessEarly
<1>1. SeenInv => SeenUnlessEarly
  BY DEF SeenInv, SeenUnlessEarly
<1> QED
  BY <1>1, TypeInit, TypeStep, JustifiedInit, JustifiedStep, SeenInit, SeenStep, PTL DEF Spec

-----------------------------------------------------------------------------
(* What a callback waits for.                                              *)

LEMMA WaitsStep == TypeInv /\ WaitsForSomeone /\ [Next]_vars => WaitsForSomeone'
<1> SUFFICES ASSUME TypeInv, WaitsForSomeone, [Next]_vars PROVE WaitsForSomeone'
  OBVIOUS
<1>a. TypeOK /\ CallbackHasJob /\ TaskInv
  BY DEF TypeInv
<1> USE <1>a DEF TypeOK, WaitsForSomeone, broker, link, callback, tasks, marks, counts, Take,
        Goto, Return
<1>1. ASSUME NEW c \in Consumer, NEW j \in Job, Deliver(c, j) \/ Skip(c, j) \/ Reject(c, j)
      PROVE  WaitsForSomeone'
  BY <1>1 DEF Deliver, Skip, Reject
<1>2. ASSUME NEW c \in Consumer, NEW j \in Job, Submit(c, j) PROVE WaitsForSomeone'
  BY <1>2 DEF Submit
<1>3. ASSUME NEW c \in Consumer,
             \/ Revoke(c) \/ NoticeClose(c) \/ Retire(c) \/ Replace(c) \/ StopExecutor(c)
             \/ Acknowledge(c) \/ Fail(c) \/ TimeOut(c) \/ AckLate(c) \/ Report(c)
      PROVE  WaitsForSomeone'
  BY <1>3 DEF Revoke, NoticeClose, Retire, Replace, StopExecutor, Acknowledge, Fail, TimeOut,
              AckLate, Report
<1>4. ASSUME NEW c \in Consumer, Cancel(c) PROVE WaitsForSomeone'
  <2>1. ASSUME NEW d \in Consumer, step'[d] = "waiting"
        PROVE  /\ d # c /\ step[d] = "waiting" /\ future'[d] = future[d] /\ mode' = mode
               /\ cur'[d] = cur[d]
    BY <1>4, <2>1 DEF Cancel
  <2>2. ASSUME NEW w \in Worker, worker[w] # Null, worker[w].for # c
        PROVE  worker'[w] = worker[w]
    BY <1>4, <2>2 DEF Cancel
  <2> QED
    BY <2>1, <2>2
<1>5. ASSUME NEW w \in Worker, NEW c \in Consumer, StartTask(w, c) PROVE WaitsForSomeone'
  <2>1. /\ worker[w] = Null /\ future[c] = "queued" /\ UNCHANGED <<step, cur, mode>>
        /\ future' = [future EXCEPT ![c] = "running"]
        /\ \A v \in Worker \ {w} : worker'[v] = worker[v]
    BY <1>5 DEF StartTask
  <2>2. /\ worker'[w] # Null /\ worker'[w].live
        /\ worker'[w].for = c /\ worker'[w].job = cur[c]
    <3>1. worker'[w] = [for |-> c, job |-> cur[c], at |-> 0, size |-> registered, live |-> TRUE]
      BY <1>5 DEF StartTask
    <3>2. worker'[w] # Null
      <4>1. c \in Consumer /\ cur[c] \in Job /\ registered \in Nat
        BY <2>1 DEF CallbackHasJob
      <4>2. worker'[w] \in Task
        BY <3>1, <4>1 DEF Task
      <4> QED
        BY <4>2, JobAssumption
    <3> QED
      BY <3>1, <3>2
  <2>3. ASSUME NEW d \in Consumer, d # c, step[d] = "waiting", future[d] = "running"
        PROVE  \E v \in Worker : /\ worker'[v] # Null /\ worker'[v].live
                                 /\ worker'[v].for = d /\ worker'[v].job = cur[d]
    BY <2>1, <2>3
  <2>4. future'[c] = "running" /\ \A d \in Consumer \ {c} : future'[d] = future[d]
    BY <2>1
  <2> QED
    BY <2>1, <2>2, <2>3, <2>4
<1>6. ASSUME NEW w \in Worker, Handle(w) PROVE WaitsForSomeone'
  <2>1. worker[w] \in Task /\ UNCHANGED <<step, cur, future, mode>>
    BY <1>6 DEF Handle, InHandler, HasNext
  <2>2. worker' = [worker EXCEPT ![w] = [worker[w] EXCEPT !.at = worker[w].at + 1]]
    BY <1>6 DEF Handle
  <2>3. worker'[w] = [worker[w] EXCEPT !.at = worker[w].at + 1]
    BY <2>2
  <2>4. /\ worker'[w] \in Task /\ worker'[w].live = worker[w].live
        /\ worker'[w].for = worker[w].for /\ worker'[w].job = worker[w].job
    BY <2>1, <2>3 DEF Task
  <2>5. worker'[w] # Null
    BY <2>4, JobAssumption
  <2>6. \A v \in Worker \ {w} : worker'[v] = worker[v]
    BY <2>2
  <2> QED
    BY <2>1, <2>4, <2>5, <2>6
<1>7. ASSUME NEW w \in Worker, NEW result \in {"done", "failed"}, worker[w] # Null,
             Finish(w, result), UNCHANGED <<step, cur, mode>>
      PROVE  WaitsForSomeone'
  <2>1. CASE worker[w].live
    <3>1. future' = [future EXCEPT ![worker[w].for] = result]
      BY <1>7, <2>1 DEF Finish
    <3>2. \A v \in Worker \ {w} : worker'[v] = worker[v]
      BY <1>7 DEF Finish
    <3>3. worker[w].for \in Consumer
      BY <1>7 DEF Task
    <3> QED
      BY <1>7, <3>1, <3>2, <3>3
  <2>2. CASE ~worker[w].live
    <3>1. future' = future /\ \A v \in Worker \ {w} : worker'[v] = worker[v]
      BY <1>7, <2>2 DEF Finish
    <3> QED
      BY <1>7, <2>2, <3>1
  <2> QED
    BY <2>1, <2>2
<1>8. ASSUME NEW w \in Worker, HandlerThrows(w) \/ Comodified(w) \/ Complete(w)
      PROVE  WaitsForSomeone'
  <2>1. /\ worker[w] # Null /\ UNCHANGED <<step, cur, mode>>
        /\ Finish(w, "done") \/ Finish(w, "failed")
    BY <1>8 DEF HandlerThrows, Comodified, Complete, InHandler, HasNext
  <2> QED
    BY <1>7, <2>1
<1>9. CASE OnJob \/ Stop \/ ShutDown \/ LoseConnection \/ Recover
  BY <1>9 DEF OnJob, Stop, ShutDown, LoseConnection, Recover
<1>10. CASE ShutDownNow
  BY <1>10 DEF ShutDownNow
<1>11. CASE Abort
  BY <1>11 DEF Abort
<1>12. CASE UNCHANGED vars
  BY <1>12 DEF vars
<1> QED
  BY <1>1, <1>2, <1>3, <1>4, <1>5, <1>6, <1>8, <1>9, <1>10, <1>11, <1>12
     DEF Next, Consume, Work

\* What a delivery callback waits for in future.get() (Executor.kt:82) is always with
\* someone: queued in a pool that still runs, with a thread, over, or dropped by shutdownNow().
THEOREM NobodyForgotten == Spec => []WaitsForSomeone
<1>1. Init => WaitsForSomeone
  BY DEF Init, WaitsForSomeone
<1> QED
  BY <1>1, TypeInit, TypeStep, WaitsStep, PTL DEF Spec

-----------------------------------------------------------------------------
(* Wasted work.  A submission is paid for by a message that is settled, by *)
(* a callback at work on an open channel, by a channel that has ended, or  *)
(* is a delivery that slipped past isOpen.                                 *)

AtWork == {c \in Consumer : chan[c] = "open" /\ Awaited(c)}

PaidFor == submitted <= Cardinality(settled) + Cardinality(AtWork) + closes + stale

LEMMA Finiteness ==
  ASSUME TypeInv
  PROVE  /\ IsFiniteSet(settled) /\ Cardinality(settled) \in Nat
         /\ IsFiniteSet(AtWork) /\ Cardinality(AtWork) \in Nat
<1>1. settled \in SUBSET Job /\ AtWork \in SUBSET Consumer
  BY DEF TypeInv, TypeOK, AtWork
<1> QED
  BY <1>1, JobAssumption, FS_Subset, FS_CardinalityType

LEMMA PaidForInit == Init => PaidFor
<1> SUFFICES ASSUME Init PROVE PaidFor
  OBVIOUS
<1>1. TypeInv
  BY TypeInit
<1> QED
  BY <1>1, Finiteness DEF Init, PaidFor

\* A step that leaves the callbacks at work as they are costs nothing.
LEMMA PaidForKept ==
  ASSUME PaidFor, AtWork' = AtWork, settled' = settled, UNCHANGED counts
  PROVE  PaidFor'
BY DEF PaidFor, counts

\* Each channel that ends pays for the one callback it takes from work.
LEMMA RequeuePays ==
  ASSUME TypeInv, TypeInv', PaidFor, NEW cs \in SUBSET Consumer, Requeue(cs),
         AtWork \subseteq AtWork' \cup cs
  PROVE  PaidFor'
<1> DEFINE open == {c \in cs : chan[c] = "open"}
<1>1. IsFiniteSet(open) /\ Cardinality(open) \in Nat
  BY JobAssumption, FS_Subset, FS_CardinalityType
<1>2. AtWork \subseteq AtWork' \cup open
  BY DEF AtWork
<1>3. IsFiniteSet(AtWork') /\ Cardinality(AtWork') \in Nat
  <2>1. AtWork' \in SUBSET Consumer
    BY DEF AtWork
  <2> QED
    BY <2>1, JobAssumption, FS_Subset, FS_CardinalityType
<1>4. /\ IsFiniteSet(AtWork' \cup open)
      /\ IsFiniteSet(AtWork' \cap open)
      /\ Cardinality(AtWork' \cup open) =
           Cardinality(AtWork') + Cardinality(open) - Cardinality(AtWork' \cap open)
  BY <1>1, <1>3, FS_Union, FS_Intersection
<1>5. Cardinality(AtWork' \cap open) \in Nat
  BY <1>4, FS_CardinalityType
<1>6. Cardinality(AtWork) <= Cardinality(AtWork' \cup open)
  BY <1>2, <1>4, FS_Subset
<1>7. /\ closes' = closes + Cardinality(open)
      /\ settled' = settled /\ submitted' = submitted /\ stale' = stale
  BY DEF Requeue
<1> HIDE DEF open
<1> QED
  BY <1>1, <1>3, <1>4, <1>5, <1>6, <1>7, Finiteness DEF PaidFor, TypeInv, TypeOK

\* An acknowledgement moves a callback's job from work to settled.
LEMMA AckPays ==
  ASSUME TypeInv, HoldInv, PaidFor, NEW c \in Consumer, Awaited(c), Ack(c),
         AtWork' = AtWork \ {c}, UNCHANGED counts
  PROVE  PaidFor'
<1>1. CASE chan[c] = "open"
  <2>1. c \in AtWork /\ cur[c] \in unacked[c]
    BY <1>1 DEF AtWork, HoldInv, UnackedAreHeld, Awaited
  <2>2. cur[c] \notin settled
    BY <2>1 DEF HoldInv, OnePlace
  <2>3. Cardinality(AtWork') = Cardinality(AtWork) - 1
    BY <2>1, Finiteness, FS_RemoveElement
  <2>4. Cardinality(settled') = Cardinality(settled) + 1
    BY <1>1, <2>2, Finiteness, FS_AddElement DEF Ack
  <2> QED
    BY <2>3, <2>4, Finiteness DEF PaidFor, counts, TypeInv, TypeOK
<1>2. CASE chan[c] # "open"
  BY <1>2, PaidForKept DEF Ack, broker, AtWork
<1> QED
  BY <1>1, <1>2

\* A submission on an open channel puts a callback to work, another one has slipped past.
LEMMA SubmitPays ==
  ASSUME TypeInv, HoldInv, PaidFor, NEW c \in Consumer, NEW j \in Job, Submit(c, j)
  PROVE  PaidFor'
<1> USE DEF TypeInv, TypeOK, Submit, Goto, AtWork, Awaited, Take, broker, link, marks
<1>1. CASE chan[c] = "open"
  <2>a. ~Slips(c)
    BY <1>1 DEF Slips
  <2>1. AtWork' = AtWork \cup {c} /\ c \notin AtWork
    <3>1. \A d \in Consumer : d \in AtWork' <=> d \in AtWork \/ d = c
      BY <1>1
    <3> QED
      BY <1>1, <3>1
  <2>2. Cardinality(AtWork') = Cardinality(AtWork) + 1
    BY <2>1, Finiteness, FS_AddElement
  <2> QED
    BY <1>1, <2>a, <2>2, Finiteness DEF PaidFor
<1>2. CASE chan[c] # "open"
  <2>a. Slips(c)
    BY <1>2 DEF Slips
  <2>1. AtWork' = AtWork
    <3>1. \A d \in Consumer : d \in AtWork' <=> d \in AtWork
      BY <1>2
    <3> QED
      BY <3>1
  <2> HIDE DEF AtWork
  <2> QED
    BY <1>2, <2>a, <2>1, Finiteness DEF PaidFor
<1> QED
  BY <1>1, <1>2

LEMMA PaidForStep == TypeInv /\ TypeInv' /\ HoldInv /\ PaidFor /\ [Next]_vars => PaidFor'
<1> SUFFICES ASSUME TypeInv, TypeInv', HoldInv, PaidFor, [Next]_vars PROVE PaidFor'
  OBVIOUS
<1>a. TypeOK
  BY DEF TypeInv
<1> USE <1>a DEF TypeOK, AtWork, Awaited, broker, link, callback, tasks, marks, counts, Take,
        Goto, Return
<1>1. ASSUME NEW c \in Consumer, NEW j \in Job, Deliver(c, j) PROVE PaidFor'
  BY <1>1, PaidForKept DEF Deliver
<1>2. ASSUME NEW c \in Consumer, Revoke(c) PROVE PaidFor'
  BY <1>2, RequeuePays DEF Revoke
<1>3. ASSUME NEW c \in Consumer, NoticeClose(c) PROVE PaidFor'
  BY <1>3, PaidForKept DEF NoticeClose
<1>4. ASSUME NEW c \in Consumer, Replace(c) PROVE PaidFor'
  BY <1>4, PaidForKept DEF Replace, CalledBack
<1>5. ASSUME NEW c \in Consumer, NEW j \in Job, Skip(c, j) PROVE PaidFor'
  BY <1>5, PaidForKept DEF Skip
<1>6. ASSUME NEW c \in Consumer, NEW j \in Job, Reject(c, j) PROVE PaidFor'
  BY <1>6, RequeuePays DEF Reject, Break
<1>7. ASSUME NEW c \in Consumer, NEW j \in Job, Submit(c, j) PROVE PaidFor'
  BY <1>7, SubmitPays
<1>8. ASSUME NEW c \in Consumer, Acknowledge(c) PROVE PaidFor'
  BY <1>8, AckPays DEF Acknowledge
<1>9. ASSUME NEW c \in Consumer, Fail(c) PROVE PaidFor'
  BY <1>9, RequeuePays DEF Fail, Break
<1>10. ASSUME NEW c \in Consumer, TimeOut(c) \/ Cancel(c) PROVE PaidFor'
  BY <1>10, PaidForKept DEF TimeOut, Cancel
<1>11. ASSUME NEW c \in Consumer, AckLate(c) PROVE PaidFor'
  BY <1>11, AckPays DEF AckLate
<1>12. ASSUME NEW c \in Consumer, Report(c) PROVE PaidFor'
  BY <1>12, PaidForKept DEF Report
<1>13. ASSUME NEW w \in Worker, Work(w) PROVE PaidFor'
  BY <1>13, PaidForKept DEF Work, StartTask, Handle, HandlerThrows, Comodified, Complete
<1>14. CASE OnJob \/ Stop \/ ShutDown \/ ShutDownNow
  BY <1>14, PaidForKept DEF OnJob, Stop, ShutDown, ShutDownNow
<1>15. ASSUME NEW c \in Consumer, StopExecutor(c) PROVE PaidFor'
  BY <1>15, RequeuePays DEF StopExecutor, CloseExecutorOf
<1>16. CASE Abort
  BY <1>16, RequeuePays DEF Abort
<1>17. CASE UNCHANGED vars
  BY <1>17, PaidForKept DEF vars
<1>18. CASE LoseConnection
  BY <1>18, RequeuePays DEF LoseConnection
<1>19. CASE Recover
  <2>1. /\ \A c \in Consumer : chan'[c] = chan[c] \/ (chan[c] = "none" /\ chan'[c] = "open")
        /\ UNCHANGED <<broker, callback, counts>>
    BY <1>19, RecoverFacts DEF TypeInv, ChannelInv
  <2>2. AtWork' = AtWork
    BY <2>1 DEF TypeInv, ChannelInv, UnusedIsIdle
  <2> QED
    BY <2>1, <2>2, PaidForKept
<1>20. ASSUME NEW c \in Consumer, Retire(c) PROVE PaidFor'
  BY <1>20, RequeuePays DEF Retire, CloseExecutorOf
<1> QED
  BY <1>1, <1>2, <1>3, <1>4, <1>5, <1>6, <1>7, <1>8, <1>9, <1>10, <1>11, <1>12, <1>13,
     <1>14, <1>15, <1>16, <1>17, <1>18, <1>19, <1>20 DEF Next, Consume

\* The callbacks at work are at different messages, none of them settled.
LEMMA AtWorkBounded ==
  ASSUME TypeInv, HoldInv
  PROVE  Cardinality(settled) + Cardinality(AtWork) <= Cardinality(Job)
<1> DEFINE rest == Job \ settled
           at == [c \in AtWork |-> cur[c]]
<1>1. \A c \in AtWork : cur[c] \in unacked[c] /\ cur[c] \in rest
  BY DEF AtWork, Awaited, HoldInv, UnackedAreHeld, OnePlace, TypeInv, TypeOK
<1>2. \A c, d \in AtWork : cur[c] = cur[d] => c = d
  BY <1>1 DEF AtWork, HoldInv, OnePlace
<1>3. at \in [AtWork -> rest]
  BY <1>1
<1>4. /\ IsFiniteSet(rest) /\ Cardinality(rest) \in Nat
      /\ Cardinality(rest) = Cardinality(Job) - Cardinality(settled)
  <2>1. settled \cap Job = settled
    BY DEF TypeInv, TypeOK
  <2>2. Cardinality(Job \cap settled) = Cardinality(settled)
    BY <2>1
  <2> QED
    BY <2>2, JobAssumption, FS_Difference, FS_CardinalityType
<1>5. ~ Cardinality(rest) < Cardinality(AtWork)
  <2>1. SUFFICES ASSUME Cardinality(rest) < Cardinality(AtWork) PROVE FALSE
    OBVIOUS
  <2>2. \E c, d \in AtWork : c # d /\ at[c] = at[d]
    <3> HIDE DEF at
    <3> QED
      BY <1>3, <1>4, <2>1, Finiteness, FS_PigeonHole
  <2> QED
    BY <1>2, <2>2
<1> HIDE DEF rest
<1>6. Cardinality(Job) \in Nat
  BY JobAssumption, FS_CardinalityType
<1> QED
  BY <1>4, <1>5, <1>6, Finiteness

\* Jobs are repeated only for channels that end, one for each, and by deliveries that slip
\* past the test of isOpen (Executor.kt:69) once their channel has ended, also those whose
\* executor's channel the library has recovered: for any number of messages, consumers,
\* threads, faults and recoveries.
THEOREM LittleWaste == Spec => []WasteBounded
<1>1. TypeInv /\ HoldInv /\ PaidFor => WasteBounded
  <2> SUFFICES ASSUME TypeInv, HoldInv, PaidFor PROVE WasteBounded
    OBVIOUS
  <2>1. Cardinality(Job) \in Nat
    BY JobAssumption, FS_CardinalityType
  <2> QED
    BY <2>1, AtWorkBounded, Finiteness DEF PaidFor, WasteBounded, TypeInv, TypeOK
<1> QED
  BY <1>1, TypeInit, TypeStep, HoldInit, HoldStep, PaidForInit, PaidForStep, PTL DEF Spec

=============================================================================
