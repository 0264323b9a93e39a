-------------------------- MODULE JobQueueExecutor --------------------------
(***************************************************************************)
(* A JobQueueExecutor and the application around it: JobExecution, where   *)
(* the handlers send notifications, each on a channel of its own out of    *)
(* the connection's limited number, and where shutdown() and stopNow() are *)
(* calls made by threads, which wait for the jobs: by a thread of the      *)
(* application, by a job handler, or by the shutdown callback in which the *)
(* failure policy halts the pool.  Each thread makes one such call (a      *)
(* bound).                                                                 *)
(***************************************************************************)
EXTENDS JobExecution

CONSTANTS
  App, Policy,  \* a thread of the application; the one that runs the shutdown callback
  ChannelMax    \* how many channels the connection may have

Caller == {App, Policy} \cup Worker

ASSUME ExecutorAssumption ==
  /\ ChannelMax \in Nat
  /\ Cardinality(Consumer \ Spare) <= ChannelMax
  /\ App # Policy /\ {App, Policy} \cap Worker = {}

VARIABLES
  call,       \* how far a thread is in stop() or stopNow()
  published,  \* channels opened for a notification: none is ever closed
  dead        \* consumers whose executor could not be replaced: no channel, no connection

own == <<call, published, dead>>
everything == <<vars, own>>

\* "leave", "block", "now": in a stop() that does not block, one that does, or stopNow(),
\* before the pool's threads are shut down; "kill": before the connection is aborted;
\* "awaiting": in awaitTermination(); "ended": it has seen the threads end; "left": the
\* call is over for another reason.
Stage == {"none", "leave", "block", "now", "kill", "awaiting", "ended", "left"}

ExecutorInit ==
  /\ Init
  /\ call = [t \in Caller |-> "none"]
  /\ published = 0
  /\ dead = {}

Reach(t, stage) == call' = [call EXCEPT ![t] = stage]

-----------------------------------------------------------------------------
(* Channels.  The client gives the number of a channel that it knows is    *)
(* closed to the next one, and createChannel() returns null for want of a  *)
(* number; the caller then dereferences it.  It throws while the           *)
(* connection is down.                                                     *)

ChannelsInUse ==
  Cardinality({c \in Consumer : chan[c] \in {"open", "revoked"}}) + published

\* Mutant of ChannelFree: the broker's limit is not heeded.
ChannelAlways == TRUE

ChannelFree == ChannelsInUse < ChannelMax

CanCreate == ChannelFree /\ conn = "up" /\ mode # "aborted"

\* A channel whose number has been given away is not recovered.
RecoverNumbers == Recover /\ UNCHANGED own /\ ChannelsInUse' <= ChannelMax

\* A handler calls sendSuccess() or sendError() as the last thing it does ...
Send(w) ==
  /\ Handle(w)
  /\ CanCreate
  /\ published' = published + 1
  /\ UNCHANGED <<call, dead>>

\* ... which throws when there is no channel for it.
SendThrows(w) ==
  /\ HandlerThrows(w)
  /\ ~CanCreate
  /\ UNCHANGED own

\* The shutdown callback makes a new executor, or throws, and nobody tries again.
ReplaceOnChannel(c) ==
  /\ c \notin dead
  /\ Replace(c) /\ CanCreate
  /\ UNCHANGED own

ReplaceThrows(c) ==
  /\ c \notin dead
  /\ chan[c] = "closed" /\ CalledBack(c) /\ mode = "up"
  /\ ~CanCreate
  /\ dead' = dead \cup {c}
  /\ UNCHANGED <<vars, call, published>>

-----------------------------------------------------------------------------
(* shutdown() and stopNow().                                               *)

\* stop(): called by the application or by a handler, one whose job has not timed out.
CallStop(t) ==
  /\ call[t] = "none"
  /\ t = App \/ (t \in Worker /\ InHandler(t) /\ worker[t].live)
  /\ \E stage \in {"leave", "block"} : Reach(t, stage)
  /\ Stop \/ (mode # "up" /\ UNCHANGED vars)
  /\ UNCHANGED <<published, dead>>

\* stopNow(): the failure policy says halt once channels have died (ExecutorPool and
\* FailurePolicy have the details).
CallStopNow ==
  /\ call[Policy] = "none"
  /\ closes > 0 /\ \E c \in Consumer : chan[c] \in {"ended", "closed"}
  /\ Reach(Policy, "now")
  /\ Stop \/ (mode # "up" /\ UNCHANGED vars)
  /\ UNCHANGED <<published, dead>>

\* stopExecutors() is over, for a second caller once it gets the monitor; then shutdown().
\* An interrupt of shutdownNow() makes the wait throw, unless the handler has swallowed it.
ShutDownThreads(t) ==
  /\ call[t] \in {"leave", "block"}
  /\ IF mode = "closing" THEN ShutDown ELSE UNCHANGED vars
  /\ \/ call[t] = "leave" /\ Reach(t, "left")
     \/ call[t] = "block" /\ Reach(t, "awaiting")
     \/ call[t] = "block" /\ t \in Worker /\ mode \in {"now", "aborted"} /\ Reach(t, "left")
  /\ UNCHANGED <<published, dead>>

\* shutdownNow() interrupts the handlers: those that wait in stop() leave it.
ShutDownThreadsNow ==
  /\ call[Policy] = "now"
  /\ ShutDownNow
  /\ call' = [t \in Caller |->
       IF t = Policy THEN "kill"
       ELSE IF t \in Worker /\ call[t] = "awaiting" THEN "left" ELSE call[t]]
  /\ UNCHANGED <<published, dead>>

AbortConnection ==
  /\ call[Policy] = "kill"
  /\ Abort
  /\ Reach(Policy, "awaiting")
  /\ UNCHANGED <<published, dead>>

\* ExecutorService.isTerminated.
Terminated ==
  /\ mode \in {"shutdown", "now", "aborted"}
  /\ \A w \in Worker : worker[w] = Null
  /\ \A c \in Consumer : future[c] # "queued"

\* awaitTermination(): the 10 000 days of shutdown(), and more, never pass.
Await(t) ==
  /\ call[t] = "awaiting"
  /\ Terminated
  /\ Reach(t, "ended")
  /\ UNCHANGED <<vars, published, dead>>

\* The job timed out: future.cancel(true) interrupts the handler that waits.
Interrupted(w) ==
  /\ call[w] = "awaiting"
  /\ ~worker[w].live
  /\ Reach(w, "left")
  /\ UNCHANGED <<vars, published, dead>>

-----------------------------------------------------------------------------
Calling(t) ==
  \/ ShutDownThreads(t) \/ Await(t)
  \/ t \in Worker /\ Interrupted(t)
  \/ t = Policy /\ (ShutDownThreadsNow \/ AbortConnection)

\* stopExecutors(), by the thread in the monitor.
CloseExecutor == (\E c \in Consumer : StopExecutor(c)) /\ UNCHANGED own

\* A thread that waits in stop() is in a handler and goes no further with it.
Working(w) ==
  /\ call[w] \in {"none", "ended", "left"}
  /\ \/ Work(w) /\ UNCHANGED own
     \/ Send(w)
     \/ SendThrows(w)

Replacing(c) == ReplaceOnChannel(c) \/ ReplaceThrows(c)

Rest ==
  /\ \/ \E c \in Consumer, j \in Job : Deliver(c, j)
     \/ \E c \in Consumer : Revoke(c) \/ NoticeClose(c) \/ Retire(c) \/ Consume(c)
     \/ LoseConnection \/ OnJob
  /\ UNCHANGED own

ExecutorNext ==
  \/ Rest \/ RecoverNumbers
  \/ \E c \in Consumer : Replacing(c)
  \/ \E w \in Worker : Working(w)
  \/ \E t \in Caller : CallStop(t) \/ Calling(t)
  \/ CallStopNow \/ CloseExecutor

ExecutorSpec == ExecutorInit /\ [][ExecutorNext]_everything

\* As in JobExecution; and a thread in stop() goes on.  Nothing is assumed of the handlers.
FairExecutorSpec ==
  /\ ExecutorSpec
  /\ \A j \in Job : WF_everything(\E c \in Consumer : Deliver(c, j) /\ UNCHANGED own)
  /\ \A c \in Consumer :
       /\ WF_everything(Consume(c) /\ UNCHANGED own)
       /\ WF_everything(NoticeClose(c) /\ UNCHANGED own)
       /\ WF_everything(Retire(c) /\ UNCHANGED own)
       /\ WF_everything(Replacing(c))
  /\ WF_everything(RecoverNumbers)
  /\ WF_everything(CloseExecutor)
  /\ \A t \in Caller : WF_everything(Calling(t))

-----------------------------------------------------------------------------
\* Every variable of its own has its type, and an open channel its number.
ExecutorTypeOK ==
  /\ call \in [Caller -> Stage]
  /\ published \in Nat /\ ChannelsInUse <= ChannelMax
  /\ dead \subseteq Consumer

\* A call that waits for the jobs ends only when no handler runs any longer nor will, and,
\* unless stopNow() is called too, no job that had been submitted was dropped, whatever
\* deliveries, timeouts, leaked executors and other calls are still under way.
EndedIsQuiet ==
  (\E t \in Caller : call[t] = "ended") =>
    /\ \A w \in Worker : worker[w] = Null
    /\ \A c \in Consumer :
         /\ future[c] # "queued"
         /\ mode = "shutdown" /\ step[c] = "waiting" => future[c] # "dropped"

\* A call of shutdown() or stopNow() that waits comes to an end if the handlers do, also
\* when handlers themselves make such calls and so wait for the thread that they run on.
CallsReturn ==
  (\A w \in Worker : WF_everything(Working(w)))
    => \A t \in Caller : call[t] = "awaiting" ~> call[t] \in {"ended", "left"}

-----------------------------------------------------------------------------
(* What the source says and the code does not keep.                        *)

\* JobQueueExecutor.kt:88-90: sendSuccess "sends a success notification to the job
\* dispatcher to alert it that a submitted job has succeeded": one can always be sent.
CanNotify == (\E w \in Worker : InHandler(w)) /\ mode = "up" => ChannelFree

=============================================================================
