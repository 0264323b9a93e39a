-------------------------- MODULE DispatcherProofs --------------------------
(***************************************************************************)
(* Theorems about Dispatcher, for every set of jobs and threads, any       *)
(* number of channels, handlers and faults.                                *)
(***************************************************************************)
EXTENDS Dispatcher, FiniteSetTheorems, TLAPS

\* What is at hand has been sent, and delivered with a tag that the broker has given.
KnownDeliveries ==
  /\ \A d \in tasks : d.tag <= tag /\ d.job \in sent
  /\ \A w \in Worker : worker[w] # Null => worker[w].tag <= tag /\ worker[w].job \in sent
  /\ \A q \in Queue : unacked[q] \subseteq sent
  /\ completed \subseteq sent

TypeInv == TypeOK /\ KnownDeliveries

LEMMA TypeInit == Init => TypeInv
BY DispatcherAssumption DEF Init, TypeInv, TypeOK, KnownDeliveries

LEMMA TypeStep == TypeInv /\ [Next]_vars => TypeInv'
<1> SUFFICES ASSUME TypeInv, [Next]_vars PROVE TypeInv'
  OBVIOUS
<1> USE DispatcherAssumption DEF TypeInv, TypeOK, KnownDeliveries, broker, conn,
        publications, results, Delivery, Queue, QueueOf
<1>1. ASSUME NEW j \in Job, Dispatch(j) PROVE TypeInv'
  BY <1>1 DEF Dispatch, OpenChannel
<1>2. ASSUME NEW j \in Job, Send(j) PROVE TypeInv'
  BY <1>2 DEF Send, OpenChannel
<1>3. ASSUME NEW j \in Job, Deliver(j) PROVE TypeInv'
  <2> DEFINE new == [job |-> j, tag |-> tag + 1]
  <2>1. new \in Delivery /\ new.tag <= tag' /\ new.job \in sent
    BY <1>3 DEF Deliver
  <2>2. \A d \in tasks : d.tag <= tag'
    BY <1>3 DEF Deliver
  <2>3. \A w \in Worker : worker[w] # Null => worker[w].tag <= tag'
    BY <1>3 DEF Deliver, Run
  <2>4. tasks' = tasks \cup {new}
    BY <1>3 DEF Deliver
  <2> HIDE DEF new
  <2>5. tasks' \subseteq Delivery /\ \A d \in tasks' : d.tag <= tag' /\ d.job \in sent
    BY <2>1, <2>2, <2>4
  <2> QED
    BY <1>3, <2>3, <2>5 DEF Deliver
<1>4. ASSUME NEW w \in Worker, NEW d \in tasks, StartTask(w, d) PROVE TypeInv'
  BY <1>4 DEF StartTask, Parses, Run
<1>5. ASSUME NEW w \in Worker, Handle(w) PROVE TypeInv'
  BY <1>5 DEF Handle, InHandler, HasNext, Executing, Run
<1>6. ASSUME NEW w \in Worker, HandlerThrows(w) \/ Comodified(w) PROVE TypeInv'
  <2>1. worker[w] \in Run
    BY <1>6 DEF HandlerThrows, Comodified, InHandler, HasNext, Executing
  <2>2. /\ [worker[w] EXCEPT !.ended = TRUE] \in Run
        /\ [worker[w] EXCEPT !.ended = TRUE].tag = worker[w].tag
        /\ [worker[w] EXCEPT !.ended = TRUE].job = worker[w].job
    BY <2>1 DEF Run
  <2>3. worker' = [worker EXCEPT ![w] = [worker[w] EXCEPT !.ended = TRUE]]
    BY <1>6 DEF HandlerThrows, Comodified, Throw, EndExecute
  <2>4. worker[w] # Null /\ worker[w].job \in Job
    BY <1>6, <2>1 DEF HandlerThrows, Comodified, InHandler, HasNext, Executing, Run
  <2>5. /\ faults' \in 0..MaxFaults /\ seen' \subseteq Job /\ threw' \subseteq Job
        /\ UNCHANGED <<publications, broker, conn, tasks, registered, completed>>
    BY <1>6, <2>4 DEF HandlerThrows, Comodified, Throw
  <2>6. /\ worker' \in [Worker -> Run \cup {Null}]
        /\ \A v \in Worker : worker'[v] # Null => worker'[v].tag <= tag /\ worker'[v].job \in sent
    BY <2>2, <2>3, <2>4
  <2> QED
    BY <2>5, <2>6
<1>7. ASSUME NEW w \in Worker, Complete(w) PROVE TypeInv'
  BY <1>7 DEF Complete, EndExecute, Executing, Run
<1>8. ASSUME NEW w \in Worker, Acknowledge(w) PROVE TypeInv'
  BY <1>8 DEF Acknowledge, Ack, Run
<1>9. ASSUME NEW q \in Queue, Register(q) PROVE TypeInv'
  BY <1>9 DEF Register
<1>10. ASSUME NEW q \in Queue, CloseChannel(q) PROVE TypeInv'
  BY <1>10 DEF CloseChannel
<1>11. CASE Recover
  BY <1>11 DEF Recover
<1>12. CASE UNCHANGED vars
  BY <1>12 DEF vars
<1> QED
  BY <1>1, <1>2, <1>3, <1>4, <1>5, <1>6, <1>7, <1>8, <1>9, <1>10, <1>11, <1>12
     DEF Next, Work

\* Every variable of the dispatcher keeps its type.
THEOREM TypeCorrect == Spec => []TypeOK
<1>1. TypeInv => TypeOK
  BY DEF TypeInv
<1> QED
  BY <1>1, TypeInit, TypeStep, PTL DEF Spec

-----------------------------------------------------------------------------
(* Every execution is accounted for.                                       *)

\* An execution that has ended has completed or thrown, and only such are acknowledged.
Tried ==
  /\ settled \subseteq completed \cup threw
  /\ \A w \in Worker :
       worker[w] # Null /\ worker[w].ended => worker[w].job \in completed \cup threw

\* A handler that a dispatched job counts on is still there, has been called first, and
\* so before the execution completed.
Called ==
  /\ \A j \in expecting : registered[QueueOf(j)] > 0
  /\ \A w \in Worker : Executing(w) /\ worker[w].at > 0 => worker[w].job \in seen
  /\ completed \cap expecting \subseteq seen

TriedInv == Tried /\ Called

LEMMA TriedInit == Init => TriedInv
BY DEF Init, TriedInv, Tried, Called, Executing

LEMMA TriedStep == TypeInv /\ TriedInv /\ [Next]_vars => TriedInv'
<1> SUFFICES ASSUME TypeInv, TriedInv, [Next]_vars PROVE TriedInv'
  OBVIOUS
<1> USE DEF TypeInv, TypeOK, KnownDeliveries, TriedInv, Tried, Called, Executing, broker,
        conn, publications, results, Delivery, Queue, QueueOf
<1>1. ASSUME NEW j \in Job, Dispatch(j) PROVE TriedInv'
  BY <1>1 DEF Dispatch
<1>2. ASSUME NEW j \in Job, Send(j) \/ Deliver(j) PROVE TriedInv'
  BY <1>2 DEF Send, Deliver
<1>3. ASSUME NEW w \in Worker, NEW d \in tasks, StartTask(w, d) PROVE TriedInv'
  <2> DEFINE run == [job |-> d.job, tag |-> d.tag, at |-> 0,
                     size |-> registered[QueueOf(d.job)], ended |-> ~Parses(d.job)]
  <2>1. run.at = 0 /\ run.job = d.job /\ (run.ended <=> ~Parses(d.job))
    OBVIOUS
  <2>2. worker' = [worker EXCEPT ![w] = run]
    BY <1>3 DEF StartTask
  <2> HIDE DEF run
  <2>3. /\ \A v \in Worker : worker'[v] # Null /\ worker'[v].ended
                              => worker'[v].job \in completed \cup threw'
        /\ \A v \in Worker : worker'[v] # Null /\ ~worker'[v].ended /\ worker'[v].at > 0
                              => worker'[v].job \in seen
    BY <1>3, <2>1, <2>2 DEF StartTask
  <2> QED
    BY <1>3, <2>3 DEF StartTask
<1>4. ASSUME NEW w \in Worker, Handle(w) PROVE TriedInv'
  BY <1>4 DEF Handle, InHandler, HasNext, Run
<1>5. ASSUME NEW w \in Worker, HandlerThrows(w) \/ Comodified(w) PROVE TriedInv'
  BY <1>5 DEF HandlerThrows, Comodified, Throw, EndExecute, InHandler, HasNext, Run
<1>6. ASSUME NEW w \in Worker, Complete(w) PROVE TriedInv'
  BY <1>6 DEF Complete, EndExecute, HasNext, Run
<1>7. ASSUME NEW w \in Worker, Acknowledge(w) PROVE TriedInv'
  BY <1>7 DEF Acknowledge, Ack
<1>8. ASSUME NEW q \in Queue, Register(q) \/ CloseChannel(q) PROVE TriedInv'
  BY <1>8 DEF Register, CloseChannel
<1>9. CASE Recover
  BY <1>9 DEF Recover
<1>10. CASE UNCHANGED vars
  BY <1>10 DEF vars
<1> QED
  BY <1>1, <1>2, <1>3, <1>4, <1>5, <1>6, <1>7, <1>8, <1>9, <1>10 DEF Next, Work

\* A handler registered before a job is dispatched is called with its notification before
\* that is acknowledged, unless the execution has thrown.
THEOREM NoneUnseen == Spec => []SeenUnlessThrown
<1>1. TriedInv => SeenUnlessThrown
  BY DEF TriedInv, Tried, Called, SeenUnlessThrown
<1> QED
  BY <1>1, TypeInit, TypeStep, TriedInit, TriedStep, PTL DEF Spec

LEMMA StepImplements == TypeInv /\ TriedInv /\ [Next]_vars => [JQ!Next]_(JQ!vars)
<1> SUFFICES ASSUME TypeInv, TriedInv, [Next]_vars PROVE [JQ!Next]_(JQ!vars)
  OBVIOUS
<1>0. \A w \in Worker : worker[w] # Null => worker[w].job \in Job
  BY DEF TypeInv, TypeOK, Run
<1>1. ASSUME NEW w \in Worker, Acknowledge(w) PROVE [JQ!Next]_(JQ!vars)
  <2> DEFINE j == worker[w].job
  <2>1. j \in Job /\ j \in completed \cup threw
    BY <1>0, <1>1 DEF Acknowledge, TriedInv, Tried
  <2>2. CASE settled' = settled \cup {j} /\ j \notin settled
    <3>1. JQ!Remove(j)
      BY <1>1, <2>1, <2>2 DEF JQ!Remove, Acknowledge, results
    <3> QED
      BY <2>1, <3>1 DEF JQ!Next
  <2>3. CASE settled' = settled
    BY <1>1, <2>3 DEF JQ!vars, Acknowledge, results
  <2> QED
    BY <1>1, <2>2, <2>3 DEF Acknowledge, Ack, broker
<1>2. ASSUME NEW w \in Worker, Complete(w) PROVE [JQ!Next]_(JQ!vars)
  <2>1. JQ!Perform(worker[w].job)
    BY <1>2 DEF Complete, JQ!Perform, broker
  <2> QED
    BY <1>0, <1>2, <2>1 DEF JQ!Next, Complete, Executing
<1>3. ASSUME NEW w \in Worker, HandlerThrows(w) \/ Comodified(w) PROVE [JQ!Next]_(JQ!vars)
  <2>1. JQ!Expire(worker[w].job)
    BY <1>3 DEF HandlerThrows, Comodified, Throw, JQ!Expire, broker
  <2> QED
    BY <1>0, <1>3, <2>1 DEF JQ!Next, HandlerThrows, Comodified, InHandler, HasNext, Executing
<1>4. ASSUME NEW w \in Worker, NEW d \in tasks, StartTask(w, d) PROVE [JQ!Next]_(JQ!vars)
  <2>1. d.job \in Job
    BY DEF TypeInv, TypeOK, Delivery
  <2>2. CASE ~Parses(d.job)
    <3>1. JQ!Expire(d.job)
      BY <1>4, <2>2 DEF StartTask, JQ!Expire, broker
    <3> QED
      BY <2>1, <3>1 DEF JQ!Next
  <2>3. CASE Parses(d.job)
    BY <1>4, <2>3 DEF StartTask, JQ!vars, broker
  <2> QED
    BY <2>2, <2>3
<1>5. ASSUME UNCHANGED <<settled, threw, completed>> PROVE [JQ!Next]_(JQ!vars)
  BY <1>5 DEF JQ!vars
<1>6. ASSUME NEW j \in Job, Dispatch(j) \/ Send(j) \/ Deliver(j)
      PROVE  UNCHANGED <<settled, threw, completed>>
  BY <1>6 DEF Dispatch, Send, Deliver, broker, results
<1>7. ASSUME NEW q \in Queue, Register(q) \/ CloseChannel(q) \/ Recover
      PROVE  UNCHANGED <<settled, threw, completed>>
  BY <1>7 DEF Register, CloseChannel, Recover, broker, results
<1>8. ASSUME NEW w \in Worker, Handle(w) PROVE UNCHANGED <<settled, threw, completed>>
  BY <1>8 DEF Handle, broker
<1>9. CASE Recover \/ UNCHANGED vars
  BY <1>5, <1>9 DEF Recover, vars, broker, results
<1> QED
  BY <1>1, <1>2, <1>3, <1>4, <1>5, <1>6, <1>7, <1>8, <1>9 DEF Next, Work

\* A notification stays in its queue until its execution has completed or thrown.
THEOREM NeverLostUntried == Spec => KeptUntilTried
<1>1. Init => JQ!Init
  BY DEF Init, JQ!Init
<1> QED
  BY <1>1, TypeInit, TypeStep, TriedInit, TriedStep, StepImplements, PTL
     DEF Spec, KeptUntilTried, JQ!Spec

-----------------------------------------------------------------------------
(* Each unacknowledged message is with one task or one thread.             *)

Waits(d, j) == d \in tasks /\ d.job = j /\ d.tag > base

Holds(w, j) == worker[w] # Null /\ worker[w].job = j /\ worker[w].tag > base

\* OneHolder without counting, for one notification: who has it is the only one, and
\* somebody has it exactly while it is not acknowledged, in which time it is not ready.
HeldOnce(j) ==
  /\ j \in unacked[QueueOf(j)] <=> \/ \E d : Waits(d, j)
                                   \/ \E w \in Worker : Holds(w, j)
  /\ \A d, e : Waits(d, j) /\ Waits(e, j) => d = e
  /\ \A v, w \in Worker : Holds(v, j) /\ Holds(w, j) => v = w
  /\ \A d : \A w \in Worker : ~(Waits(d, j) /\ Holds(w, j))
  /\ j \in ready => j \notin unacked[QueueOf(j)]

HeldInv ==
  /\ \A q \in Queue : \A j \in unacked[q] : QueueOf(j) = q
  /\ \A j \in Job : chan[QueueOf(j)] = "open" => HeldOnce(j)

LEMMA HeldInit == Init => HeldInv
BY DEF Init, HeldInv, HeldOnce, Waits, Holds, Queue, QueueOf

\* Steps that move no delivery keep who holds what.
LEMMA HeldKept ==
  ASSUME HeldInv, UNCHANGED <<unacked, chan, base, tasks, worker>>, ready' \subseteq ready
  PROVE  HeldInv'
BY DEF HeldInv, HeldOnce, Waits, Holds

\* A thread goes on with its delivery.
LEMMA HeldGoesOn ==
  ASSUME HeldInv, UNCHANGED <<broker, conn, tasks>>,
         \A v \in Worker :
           /\ worker'[v] = Null <=> worker[v] = Null
           /\ worker[v] # Null => /\ worker'[v].job = worker[v].job
                                  /\ worker'[v].tag = worker[v].tag
  PROVE  HeldInv'
BY DEF HeldInv, HeldOnce, Waits, Holds, broker, conn

LEMMA HeldStep == TypeInv /\ TypeInv' /\ HeldInv /\ [Next]_vars => HeldInv'
<1> SUFFICES ASSUME TypeInv, TypeInv', HeldInv, [Next]_vars PROVE HeldInv'
  OBVIOUS
<1>1. ASSUME NEW j \in Job, Dispatch(j) PROVE HeldInv'
  BY <1>1, HeldKept DEF Dispatch, broker, conn
<1>2. ASSUME NEW j \in Job, Send(j) PROVE HeldInv'
  BY <1>2 DEF Send, conn, TypeInv, KnownDeliveries, HeldInv, HeldOnce, Waits, Holds, Queue,
              QueueOf
<1>3. ASSUME NEW j \in Job, Deliver(j) PROVE HeldInv'
  <2> DEFINE new == [job |-> j, tag |-> tag + 1]
  <2>1. tasks' = tasks \cup {new} /\ new.job = j /\ new.tag = tag + 1
    BY <1>3 DEF Deliver
  <2>2. new.tag > base /\ \A d \in tasks : d # new
    BY <2>1 DEF TypeInv, TypeOK, KnownDeliveries, Delivery
  <2> HIDE DEF new
  <2>3. ASSUME NEW k \in Job, chan[QueueOf(k)] = "open" PROVE HeldOnce(k)'
    <3> USE <1>3 DEF Deliver, HeldInv, Waits, Holds
    <3>1. \A w \in Worker : Holds(w, k)' <=> Holds(w, k)
      OBVIOUS
    <3>2. CASE k # j
      <4>1. \A d : Waits(d, k)' <=> Waits(d, k)
        BY <2>1, <3>2
      <4>2. k \in unacked'[QueueOf(k)] <=> k \in unacked[QueueOf(k)]
        BY <3>2 DEF TypeInv, TypeOK
      <4>3. HeldOnce(k) /\ (k \in ready' => k \in ready)
        BY <2>3
      <4> HIDE <1>3 DEF Waits, Holds, Deliver, HeldInv
      <4> QED
        BY <3>1, <4>1, <4>2, <4>3 DEF HeldOnce
    <3>3. CASE k = j
      <4>1. j \notin unacked[QueueOf(j)] /\ HeldOnce(j)
        BY <3>3 DEF HeldOnce
      <4>2. /\ \A d : ~Waits(d, j)
            /\ \A w \in Worker : ~Holds(w, j)'
        BY <4>1, <3>1, <3>3 DEF HeldOnce
      <4>3. \A d : Waits(d, j)' <=> d = new
        BY <2>1, <2>2, <4>2
      <4>4. j \in unacked'[QueueOf(j)] /\ j \notin ready'
        BY DEF TypeInv, TypeOK, Queue, QueueOf
      <4> QED
        BY <3>3, <4>2, <4>3, <4>4 DEF HeldOnce
    <3> QED
      BY <3>2, <3>3
  <2> QED
    BY <1>3, <2>3 DEF HeldInv, Deliver, TypeInv, TypeOK
<1>4. ASSUME NEW w \in Worker, NEW d \in tasks, StartTask(w, d) PROVE HeldInv'
  <2> DEFINE run == worker'[w]
  <2>1. /\ run.job = d.job /\ run.tag = d.tag /\ run # Null
        /\ \A v \in Worker \ {w} : worker'[v] = worker[v]
        /\ tasks' = tasks \ {d} /\ worker[w] = Null
    <3>1. run = [job |-> d.job, tag |-> d.tag, at |-> 0,
                 size |-> registered[QueueOf(d.job)], ended |-> ~Parses(d.job)]
      BY <1>4 DEF StartTask, TypeInv, TypeOK
    <3>2. d.job \in Job /\ d.tag \in Nat /\ registered[QueueOf(d.job)] \in Nat
      BY DEF TypeInv, TypeOK, Delivery, Queue, QueueOf
    <3>3. run \in Run
      BY <3>1, <3>2 DEF Run
    <3> QED
      BY <1>4, <3>1, <3>3, NullAssumption DEF StartTask, TypeInv, TypeOK
  <2>2. UNCHANGED <<ready, unacked, chan, base>>
    BY <1>4 DEF StartTask, broker, conn
  <2> HIDE DEF run
  <2>3. ASSUME NEW k \in Job, HeldOnce(k) PROVE HeldOnce(k)'
    <3>1. CASE d.job = k /\ d.tag > base
      <4>1. Waits(d, k)
        BY <3>1 DEF Waits
      <4>2. \A e : ~Waits(e, k)'
        BY <2>1, <2>2, <2>3, <4>1 DEF HeldOnce, Waits
      <4>3. \A v \in Worker : Holds(v, k)' <=> v = w
        BY <2>1, <2>2, <2>3, <3>1, <4>1 DEF HeldOnce, Holds, run
      <4> QED
        BY <2>2, <2>3, <4>1, <4>2, <4>3 DEF HeldOnce
    <3>2. CASE ~(d.job = k /\ d.tag > base)
      <4>1. \A e : Waits(e, k)' <=> Waits(e, k)
        BY <2>1, <2>2, <3>2 DEF Waits
      <4>2. \A v \in Worker : Holds(v, k)' <=> Holds(v, k)
        BY <2>1, <2>2, <3>2 DEF Holds, run
      <4> QED
        BY <2>2, <2>3, <4>1, <4>2 DEF HeldOnce, Waits
    <3> QED
      BY <3>1, <3>2
  <2> QED
    BY <2>2, <2>3 DEF HeldInv
<1>5. ASSUME NEW w \in Worker,
             Handle(w) \/ HandlerThrows(w) \/ Comodified(w) \/ Complete(w)
      PROVE  HeldInv'
  <2>1. worker[w] \in Run /\ worker[w] # Null
    BY <1>5 DEF Handle, HandlerThrows, Comodified, Complete, InHandler, HasNext, Executing,
                TypeInv, TypeOK
  <2>2. /\ [worker[w] EXCEPT !.at = @ + 1] \in Run
        /\ [worker[w] EXCEPT !.ended = TRUE] \in Run
    <3>1. worker[w].at + 1 \in Nat
      BY <2>1 DEF Run
    <3> QED
      BY <2>1, <3>1 DEF Run
  <2>3. \/ worker' = [worker EXCEPT ![w] = [worker[w] EXCEPT !.at = @ + 1]]
        \/ worker' = [worker EXCEPT ![w] = [worker[w] EXCEPT !.ended = TRUE]]
    BY <1>5 DEF Handle, HandlerThrows, Comodified, Complete, Throw, EndExecute
  <2>4. worker'[w] # Null /\ worker'[w].job = worker[w].job /\ worker'[w].tag = worker[w].tag
    <3>1. worker'[w] \in Run
      BY <2>2, <2>3 DEF TypeInv, TypeOK
    <3>2. worker'[w].job = worker[w].job /\ worker'[w].tag = worker[w].tag
      BY <2>1, <2>3 DEF TypeInv, TypeOK, Run
    <3> QED
      BY <3>1, <3>2, NullAssumption
  <2>5. \A v \in Worker \ {w} : worker'[v] = worker[v]
    BY <2>3 DEF TypeInv, TypeOK
  <2>6. UNCHANGED <<broker, conn, tasks>>
    BY <1>5 DEF Handle, HandlerThrows, Comodified, Complete
  <2> QED
    BY <2>1, <2>4, <2>5, <2>6, HeldGoesOn
<1>6. ASSUME NEW w \in Worker, Acknowledge(w) PROVE HeldInv'
  BY <1>6 DEF Acknowledge, Ack, broker, conn, TypeInv, TypeOK, HeldInv, HeldOnce, Waits,
              Holds, Queue, QueueOf, Run
<1>7. ASSUME NEW q \in Queue, Register(q) PROVE HeldInv'
  BY <1>7, HeldKept DEF Register, broker, conn
<1>8. ASSUME NEW q \in Queue, CloseChannel(q) PROVE HeldInv'
  BY <1>8 DEF CloseChannel, TypeInv, TypeOK, HeldInv, HeldOnce, Waits, Holds, Queue, QueueOf
<1>9. CASE Recover
  BY <1>9 DEF Recover, TypeInv, TypeOK, KnownDeliveries, HeldInv, HeldOnce, Waits, Holds,
              Queue, QueueOf, Delivery, Run
<1>10. CASE UNCHANGED vars
  BY <1>10, HeldKept DEF vars, broker, conn
<1> QED
  BY <1>1, <1>2, <1>3, <1>4, <1>5, <1>6, <1>7, <1>8, <1>9, <1>10 DEF Next, Work

LEMMA HeldIsOneHolder == HeldInv => OneHolder
<1> SUFFICES ASSUME HeldInv, NEW q \in Queue, NEW j \in Job, chan[q] = "open", QueueOf(j) = q
             PROVE  LET waiting == {d \in tasks : d.job = j /\ d.tag > base}
                        running == {w \in Worker : /\ worker[w] # Null /\ worker[w].job = j
                                                   /\ worker[w].tag > base}
                    IN  Cardinality(waiting) + Cardinality(running) =
                          IF j \in unacked[q] THEN 1 ELSE 0
  BY DEF OneHolder
<1> DEFINE waiting == {d \in tasks : d.job = j /\ d.tag > base}
           running == {w \in Worker : worker[w] # Null /\ worker[w].job = j /\ worker[w].tag > base}
<1>1. HeldOnce(j)
  BY DEF HeldInv
<1>2. ASSUME j \notin unacked[q] PROVE Cardinality(waiting) + Cardinality(running) = 0
  <2>1. waiting = {} /\ running = {}
    BY <1>1, <1>2 DEF HeldOnce, Waits, Holds
  <2> HIDE DEF waiting, running
  <2> QED
    BY <2>1, FS_EmptySet
<1>3. ASSUME j \in unacked[q], NEW d, Waits(d, j)
      PROVE  Cardinality(waiting) + Cardinality(running) = 1
  <2>1. waiting = {d} /\ running = {}
    BY <1>1, <1>3 DEF HeldOnce, Waits, Holds
  <2> HIDE DEF waiting, running
  <2>2. Cardinality(waiting) = 1
    BY <2>1, FS_Singleton
  <2>3. Cardinality(running) = 0
    BY <2>1, FS_EmptySet
  <2> QED
    BY <2>2, <2>3
<1>4. ASSUME j \in unacked[q], NEW w \in Worker, Holds(w, j)
      PROVE  Cardinality(waiting) + Cardinality(running) = 1
  <2>1. waiting = {} /\ running = {w}
    BY <1>1, <1>4 DEF HeldOnce, Waits, Holds
  <2> HIDE DEF waiting, running
  <2>2. Cardinality(running) = 1
    BY <2>1, FS_Singleton
  <2>3. Cardinality(waiting) = 0
    BY <2>1, FS_EmptySet
  <2> QED
    BY <2>2, <2>3
<1>5. Cardinality(waiting) + Cardinality(running) = IF j \in unacked[q] THEN 1 ELSE 0
  <2> HIDE DEF waiting, running
  <2> QED
    BY <1>1, <1>2, <1>3, <1>4 DEF HeldOnce
<1> QED
  BY <1>5

\* The worker threads hold each unacknowledged notification of an open channel once, so
\* no delivery tag is acknowledged twice and none is forgotten.
THEOREM HeldByOne == Spec => []OneHolder
<1> QED
  BY TypeInit, TypeStep, HeldInit, HeldStep, HeldIsOneHolder, PTL DEF Spec

=============================================================================
