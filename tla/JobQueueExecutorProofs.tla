----------------------- MODULE JobQueueExecutorProofs -----------------------
(***************************************************************************)
(* JobQueueExecutor implements JobExecution, so that its theorems hold of  *)
(* the whole; and what the calls of stop() and the channels add to them.   *)
(***************************************************************************)
EXTENDS JobQueueExecutor, JobExecutionProofs

-----------------------------------------------------------------------------
(* The refinement.                                                         *)

LEMMA StepsRefine == [ExecutorNext]_everything => [Next]_vars
<1> SUFFICES ASSUME [ExecutorNext]_everything PROVE [Next]_vars
  OBVIOUS
<1>1. CASE Rest
  BY <1>1 DEF Rest, Next
<1>2. ASSUME NEW c \in Consumer, Replacing(c) PROVE [Next]_vars
  BY <1>2 DEF Replacing, ReplaceOnChannel, ReplaceThrows, Next
<1>3. ASSUME NEW w \in Worker, Working(w) PROVE [Next]_vars
  BY <1>3 DEF Working, Send, SendThrows, Work, Next
<1>4. ASSUME NEW t \in Caller, CallStop(t) PROVE [Next]_vars
  BY <1>4 DEF CallStop, Next
<1>5. ASSUME NEW t \in Caller, Calling(t) PROVE [Next]_vars
  BY <1>5 DEF Calling, ShutDownThreads, Await, Interrupted, ShutDownThreadsNow,
              AbortConnection, Next
<1>6. CASE CallStopNow
  BY <1>6 DEF CallStopNow, Next
<1>7. CASE CloseExecutor
  BY <1>7 DEF CloseExecutor, Next
<1>8. CASE RecoverNumbers
  BY <1>8 DEF RecoverNumbers, Next
<1>9. CASE UNCHANGED everything
  BY <1>9 DEF everything
<1> QED
  BY <1>1, <1>2, <1>3, <1>4, <1>5, <1>6, <1>7, <1>8, <1>9 DEF ExecutorNext

\* Whatever handlers publish and whoever calls shutdown() or stopNow(), the jobs take
\* the ways that JobExecution gives them.
THEOREM ExecutorImplements == ExecutorSpec => Spec
<1>1. ExecutorInit => Init
  BY DEF ExecutorInit
<1> QED
  BY <1>1, StepsRefine, PTL DEF ExecutorSpec, Spec

\* No job is lost, with the calls and the notifications too: a message leaves the queue
\* only after its handlers have come to the end or its job has timed out.
THEOREM ExecutorNeverLoses == ExecutorSpec => AtLeastOnce
BY ExecutorImplements, NeverLost, PTL

\* With handlers that publish or call shutdown(), executors that are not replaced for want
\* of a channel and connections that are lost and recovered: client and broker still agree
\* on what is unacknowledged, jobs are repeated only as WasteBounded says, none is
\* acknowledged unseen, and what a delivery callback waits for is with someone.
THEOREM ExecutorInherits ==
  ExecutorSpec => [](UnackedAreHeld /\ WasteBounded /\ SeenUnlessEarly /\ WaitsForSomeone)
BY ExecutorImplements, BrokerAgrees, LittleWaste, NoneUnseen, NobodyForgotten, PTL

-----------------------------------------------------------------------------
(* The types.                                                              *)

Listening == {c \in Consumer : chan[c] \in {"open", "revoked"}}

CallsTyped == call \in [Caller -> Stage] /\ published \in Nat /\ dead \subseteq Consumer

LEMMA ListeningFinite ==
  /\ IsFiniteSet(Listening) /\ Cardinality(Listening) \in Nat
  /\ IsFiniteSet(Listening') /\ Cardinality(Listening') \in Nat
<1>1. Listening \subseteq Consumer /\ Listening' \subseteq Consumer /\ IsFiniteSet(Consumer)
  BY JobAssumption DEF Listening
<1> QED
  BY <1>1, FS_Subset, FS_CardinalityType

\* The steps of JobExecution that open no channel: all but Replace and Recover.
OpensNone ==
  \/ \E c \in Consumer, j \in Job : Deliver(c, j)
  \/ \E c \in Consumer :
       Revoke(c) \/ NoticeClose(c) \/ Retire(c) \/ StopExecutor(c) \/ Consume(c)
  \/ LoseConnection
  \/ \E w \in Worker : Work(w)
  \/ OnJob \/ Stop \/ ShutDown \/ ShutDownNow \/ Abort

LEMMA OpensNoneHolds ==
  ASSUME TypeOK, [OpensNone]_vars
  PROVE  Listening' \subseteq Listening
<1> USE DEF TypeOK, Listening, Break, CloseExecutorOf, link
<1>1. ASSUME NEW c \in Consumer, NEW j \in Job, Deliver(c, j) PROVE chan' = chan
  BY <1>1 DEF Deliver
<1>2. ASSUME NEW c \in Consumer, Revoke(c) \/ NoticeClose(c) \/ Retire(c) \/ StopExecutor(c)
      PROVE  Listening' \subseteq Listening
  BY <1>2 DEF Revoke, NoticeClose, Retire, StopExecutor
<1>3. ASSUME NEW c \in Consumer, Consume(c) PROVE Listening' \subseteq Listening
  BY <1>3 DEF Consume, Skip, Reject, Submit, Acknowledge, Fail, TimeOut, Cancel, AckLate, Report
<1>4. ASSUME NEW w \in Worker, Work(w) PROVE chan' = chan
  BY <1>4 DEF Work, StartTask, Handle, HandlerThrows, Comodified, Complete
<1>5. CASE OnJob \/ Stop \/ ShutDown \/ ShutDownNow
  BY <1>5 DEF OnJob, Stop, ShutDown, ShutDownNow
<1>6. CASE Abort \/ LoseConnection
  BY <1>6 DEF Abort, LoseConnection
<1>7. CASE UNCHANGED vars
  BY <1>7 DEF vars
<1> QED
  BY <1>1, <1>2, <1>3, <1>4, <1>5, <1>6, <1>7 DEF OpensNone

LEMMA CallsInit == ExecutorInit => ExecutorTypeOK
<1> SUFFICES ASSUME ExecutorInit PROVE ExecutorTypeOK
  OBVIOUS
<1>1. Listening = Consumer \ Spare
  BY DEF ExecutorInit, Init, Listening
<1>2. ChannelsInUse = Cardinality(Consumer \ Spare) + 0
  BY <1>1 DEF ExecutorInit, ChannelsInUse, Listening
<1>3. Cardinality(Consumer \ Spare) \in Nat /\ Cardinality(Consumer \ Spare) <= ChannelMax
  <2>1. IsFiniteSet(Consumer \ Spare)
    BY JobAssumption, FS_Difference
  <2> QED
    BY <2>1, ExecutorAssumption, FS_CardinalityType
<1> QED
  BY <1>2, <1>3 DEF ExecutorInit, ExecutorTypeOK, Stage

LEMMA CallsTypedStep ==
  ASSUME CallsTyped, [ExecutorNext]_everything
  PROVE  CallsTyped'
<1> USE DEF CallsTyped, own, Reach, Stage
<1>1. CASE Rest \/ RecoverNumbers \/ CloseExecutor
  BY <1>1 DEF Rest, RecoverNumbers, CloseExecutor
<1>2. ASSUME NEW c \in Consumer, Replacing(c) PROVE CallsTyped'
  BY <1>2 DEF Replacing, ReplaceOnChannel, ReplaceThrows
<1>3. ASSUME NEW w \in Worker, Working(w) PROVE CallsTyped'
  BY <1>3 DEF Working, Send, SendThrows
<1>4. ASSUME NEW t \in Caller, CallStop(t) PROVE CallsTyped'
  BY <1>4 DEF CallStop
<1>5. ASSUME NEW t \in Caller, Calling(t) PROVE CallsTyped'
  BY <1>5 DEF Calling, ShutDownThreads, Await, Interrupted, ShutDownThreadsNow, AbortConnection
<1>6. CASE CallStopNow
  BY <1>6 DEF CallStopNow
<1>7. CASE UNCHANGED everything
  BY <1>7 DEF everything
<1> QED
  BY <1>1, <1>2, <1>3, <1>4, <1>5, <1>6, <1>7 DEF ExecutorNext

LEMMA CallsStep ==
  ASSUME TypeOK, ExecutorTypeOK, [ExecutorNext]_everything
  PROVE  ExecutorTypeOK'
<1>1. CallsTyped'
  BY CallsTypedStep DEF ExecutorTypeOK, CallsTyped
<1>2. /\ ChannelsInUse = Cardinality(Listening) + published
      /\ ChannelsInUse' = Cardinality(Listening') + published'
      /\ ChannelsInUse <= ChannelMax /\ published \in Nat /\ ChannelMax \in Nat
  BY ExecutorAssumption DEF ChannelsInUse, Listening, ExecutorTypeOK
<1>3. ASSUME Listening' \subseteq Listening
      PROVE  Cardinality(Listening') <= Cardinality(Listening)
  BY <1>3, ListeningFinite, FS_Subset
<1>4. ASSUME NEW c \in Consumer, Replace(c)
      PROVE  Cardinality(Listening') = Cardinality(Listening) + 1
  <2>1. chan[c] = "closed" /\ chan' = [chan EXCEPT ![c] = "open"]
    BY <1>4 DEF Replace
  <2>2. Listening' = Listening \cup {c} /\ c \notin Listening
    BY <2>1 DEF Listening, TypeOK
  <2> QED
    BY <2>2, ListeningFinite, FS_AddElement
<1>5. CASE \E c \in Consumer : ReplaceOnChannel(c)
  <2>1. PICK c \in Consumer : Replace(c) /\ CanCreate /\ published' = published
    BY <1>5 DEF ReplaceOnChannel, own
  <2>2. ChannelsInUse' <= ChannelMax
    BY <1>2, <1>4, <2>1, ListeningFinite DEF CanCreate, ChannelFree
  <2> QED
    BY <1>1, <2>2 DEF ExecutorTypeOK, CallsTyped
<1>6. CASE \E w \in Worker : Send(w)
  <2>1. Listening' = Listening /\ published' = published + 1 /\ ChannelFree
    BY <1>6 DEF Send, Handle, Listening, CanCreate, link
  <2>2. ChannelsInUse' <= ChannelMax
    BY <1>2, <2>1, ListeningFinite DEF ChannelFree
  <2> QED
    BY <1>1, <2>2 DEF ExecutorTypeOK, CallsTyped
<1>7. CASE RecoverNumbers
  <2>1. ChannelsInUse' <= ChannelMax
    BY <1>7 DEF RecoverNumbers
  <2> QED
    BY <1>1, <2>1 DEF ExecutorTypeOK, CallsTyped
<1>8. CASE /\ ~\E c \in Consumer : ReplaceOnChannel(c)
           /\ ~\E w \in Worker : Send(w)
           /\ ~RecoverNumbers
  <2>1. published' = published
    BY <1>8 DEF ExecutorNext, Rest, Replacing, ReplaceThrows, Working, SendThrows, CallStop,
       Calling, ShutDownThreads, Await, Interrupted, ShutDownThreadsNow, AbortConnection,
       CallStopNow, CloseExecutor, everything, own
  <2>2. Listening' \subseteq Listening
    <3>1. [OpensNone]_vars
      BY <1>8 DEF ExecutorNext, Rest, Replacing, ReplaceThrows, Working, SendThrows, Work,
         CallStop, Calling, ShutDownThreads, Await, Interrupted, ShutDownThreadsNow,
         AbortConnection, CallStopNow, CloseExecutor, everything, OpensNone
    <3> QED
      BY <3>1, OpensNoneHolds
  <2>3. ChannelsInUse' <= ChannelMax
    BY <1>2, <1>3, <2>1, <2>2, ListeningFinite
  <2> QED
    BY <1>1, <2>3 DEF ExecutorTypeOK, CallsTyped
<1> QED
  BY <1>5, <1>6, <1>8, <1>7

\* The connection never has more channels than it may, and every call is where it can be.
THEOREM ExecutorTypeCorrect == ExecutorSpec => []ExecutorTypeOK
<1>1. ExecutorSpec => []TypeOK
  BY ExecutorImplements, TypeCorrect, PTL
<1>2. TypeOK /\ ExecutorTypeOK /\ [ExecutorNext]_everything => ExecutorTypeOK'
  BY CallsStep
<1> QED
  BY <1>1, <1>2, CallsInit, PTL DEF ExecutorSpec

-----------------------------------------------------------------------------
(* The end of a call.  Once the threads are shut down nothing is submitted, *)
(* so that idle threads and an empty queue stay so; and until stopNow()    *)
(* only a timeout drops a job, after which its callback waits no longer.   *)

Ended == \E t \in Caller : call[t] = "ended"

DroppedLate ==
  mode \in {"up", "closing", "shutdown"}
    => \A c \in Consumer : future[c] = "dropped" => step[c] # "waiting"

EndInv == (Ended => Terminated) /\ DroppedLate

LEMMA EndInit == ExecutorInit => EndInv
BY DEF ExecutorInit, Init, EndInv, Ended, DroppedLate

LEMMA TerminatedStays == TypeOK /\ Terminated /\ [Next]_vars => Terminated'
<1> SUFFICES ASSUME TypeOK, Terminated, [Next]_vars PROVE Terminated'
  OBVIOUS
<1> USE JobAssumption DEF TypeOK, Terminated, Goto, Return, tasks, callback
<1>1. CASE \E c \in Consumer, j \in Job : Deliver(c, j)
  BY <1>1 DEF Deliver
<1>2. ASSUME NEW c \in Consumer,
             Revoke(c) \/ NoticeClose(c) \/ Retire(c) \/ Replace(c) \/ StopExecutor(c)
      PROVE  Terminated'
  BY <1>2 DEF Revoke, NoticeClose, Retire, Replace, StopExecutor
<1>3. ASSUME NEW c \in Consumer, Consume(c) PROVE Terminated'
  BY <1>3 DEF Consume, Skip, Reject, Submit, Acknowledge, Fail, TimeOut, Cancel, AckLate, Report
<1>4. ASSUME NEW w \in Worker, Work(w) PROVE Terminated'
  BY <1>4 DEF Work, StartTask, Handle, InHandler, HasNext, HandlerThrows, Comodified, Complete
<1>5. CASE \/ OnJob \/ Stop \/ ShutDown \/ ShutDownNow \/ Abort
            \/ LoseConnection \/ Recover
  BY <1>5 DEF OnJob, Stop, ShutDown, ShutDownNow, Abort, LoseConnection, Recover
<1>6. CASE UNCHANGED vars
  BY <1>6 DEF vars
<1> QED
  BY <1>1, <1>2, <1>3, <1>4, <1>5, <1>6 DEF Next

LEMMA DroppedStays == TypeOK /\ DroppedLate /\ [Next]_vars => DroppedLate'
<1> SUFFICES ASSUME TypeOK, DroppedLate, [Next]_vars PROVE DroppedLate'
  OBVIOUS
<1> USE JobAssumption DEF TypeOK, DroppedLate, Goto, Return, tasks, callback
<1>1. CASE \E c \in Consumer, j \in Job : Deliver(c, j)
  BY <1>1 DEF Deliver
<1>2. ASSUME NEW c \in Consumer,
             Revoke(c) \/ NoticeClose(c) \/ Retire(c) \/ Replace(c) \/ StopExecutor(c)
      PROVE  DroppedLate'
  BY <1>2 DEF Revoke, NoticeClose, Retire, Replace, StopExecutor
<1>3. ASSUME NEW c \in Consumer, Consume(c) PROVE DroppedLate'
  BY <1>3 DEF Consume, Skip, Reject, Submit, Acknowledge, Fail, TimeOut, Cancel, AckLate, Report
<1>4. ASSUME NEW w \in Worker, Work(w) PROVE DroppedLate'
  BY <1>4 DEF Work, StartTask, Handle, HandlerThrows, Comodified, Complete, Finish
<1>5. CASE \/ OnJob \/ Stop \/ ShutDown \/ ShutDownNow \/ Abort
            \/ LoseConnection \/ Recover
  BY <1>5 DEF OnJob, Stop, ShutDown, ShutDownNow, Abort, LoseConnection, Recover
<1>6. CASE UNCHANGED vars
  BY <1>6 DEF vars
<1> QED
  BY <1>1, <1>2, <1>3, <1>4, <1>5, <1>6 DEF Next

LEMMA EndStep ==
  ASSUME TypeOK, ExecutorTypeOK, EndInv, [ExecutorNext]_everything
  PROVE  EndInv'
<1>1. DroppedLate' /\ (Terminated => Terminated')
  BY StepsRefine, DroppedStays, TerminatedStays DEF EndInv
<1>2. ASSUME NEW t \in Caller, Await(t) PROVE Terminated
  BY <1>2 DEF Await
<1>3. ASSUME ~\E t \in Caller : Await(t) PROVE Ended' => Ended
  <2> USE DEF ExecutorTypeOK, Ended, own, Reach, Stage
  <2>1. CASE Rest \/ RecoverNumbers \/ CloseExecutor
    BY <2>1 DEF Rest, RecoverNumbers, CloseExecutor
  <2>2. ASSUME NEW c \in Consumer, Replacing(c) PROVE Ended' => Ended
    BY <2>2 DEF Replacing, ReplaceOnChannel, ReplaceThrows
  <2>3. ASSUME NEW w \in Worker, Working(w) PROVE Ended' => Ended
    BY <2>3 DEF Working, Send, SendThrows
  <2>4. ASSUME NEW t \in Caller, CallStop(t) PROVE Ended' => Ended
    BY <2>4 DEF CallStop
  <2>5. ASSUME NEW t \in Caller, Calling(t) PROVE Ended' => Ended
    BY <1>3, <2>5 DEF Calling, ShutDownThreads, Interrupted, ShutDownThreadsNow,
                      AbortConnection
  <2>6. CASE CallStopNow
    BY <2>6 DEF CallStopNow
  <2>7. CASE UNCHANGED everything
    BY <2>7 DEF everything
  <2> QED
    BY <2>1, <2>2, <2>3, <2>4, <2>5, <2>6, <2>7 DEF ExecutorNext
<1> QED
  BY <1>1, <1>2, <1>3 DEF EndInv

\* When shutdown() has waited, no handler runs or will run, and no submitted job was
\* dropped unless stopNow() came: awaitTermination() after shutdown()
\* (JobQueueExecutorPool.kt:95-102), with any other calls, timeouts and deliveries.
THEOREM EndsQuietly == ExecutorSpec => []EndedIsQuiet
<1>1. ExecutorSpec => []TypeOK
  BY ExecutorImplements, TypeCorrect, PTL
<1>2. TypeOK /\ ExecutorTypeOK /\ EndInv /\ [ExecutorNext]_everything => EndInv'
  BY EndStep
<1>3. EndInv => EndedIsQuiet
  BY DEF EndInv, Ended, Terminated, DroppedLate, EndedIsQuiet
<1> QED
  BY <1>1, <1>2, <1>3, EndInit, ExecutorTypeCorrect, PTL DEF ExecutorSpec
=============================================================================
