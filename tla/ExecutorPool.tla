---------------------------- MODULE ExecutorPool ----------------------------
(***************************************************************************)
(* The life cycle of the consumers of JobQueueExecutorPool: start() fills  *)
(* the pool, onConsumerShutdown() replaces a consumer whose channel died,  *)
(* stop() and stopNow() close what is listed.                              *)
(*                                                                         *)
(* Threads: the application thread that runs start() (Starter), the one    *)
(* that calls stop() or stopNow() (Stopper), and one thread per consumer   *)
(* that runs its shutdown callback.  The client library runs the callbacks *)
(* of one channel one after another and those of different channels in     *)
(* parallel, so the callbacks interleave; of the pool's methods only       *)
(* stopExecutors() takes the monitor.  One step is one source statement.   *)
(*                                                                         *)
(* An element of Executor is an Executor object with the one consumer of   *)
(* its channel.  When a lost connection comes back, the library opens the  *)
(* channels again that the pool has not closed and subscribes their        *)
(* consumers: such a consumer is an element of its own, `of` the Executor  *)
(* whose channel it is.  Its shutdown callback is that Executor's too.     *)
(***************************************************************************)
EXTENDS Naturals, FiniteSets, Functions

CONSTANTS
  Executor,      \* the Executor objects and consumers there are to allocate (a bound)
  PoolSize,      \* ExecutorPoolConfig.poolSize
  MaxFailures,   \* the limit of the MaxFailureEnforcer in use
  MaxDeaths,     \* how many have died when the broker or an exception ends another (a bound)
  MaxFaults,     \* how many connections are lost or subscriptions refused (a bound)
  Starter, Stopper, Null

Thread == Executor \cup {Starter, Stopper}

ASSUME PoolAssumption ==
  /\ PoolSize \in 1..64
  /\ IsFiniteSet(Executor)
  /\ MaxFailures \in Nat
  /\ MaxDeaths \in Nat
  /\ MaxFaults \in Nat
  /\ Starter # Stopper
  /\ {Starter, Stopper, Null} \cap Executor = {}
  /\ Null \notin {Starter, Stopper}

VARIABLES
  conn,      \* the connection: "up", "lost" or "aborted"
  faults,    \* lost connections and refused subscriptions so far
  chan,      \* the channel of an executor: "none" (not allocated), "open", "closed"
  cause,     \* who closed it: "server", "exception" (the library, after a callback threw), "pool"
  of,        \* the Executor object whose consumer it is: itself, or that of the one come back
  stopped,   \* the Executor objects whose stop() has been called
  head, tail, next, prev,   \* the pool's linked list
  closing,   \* the AtomicBoolean of that name
  monitor,   \* the thread in synchronized(this), or Null
  walk,      \* stopExecutors()'s local `next`
  failureCount,             \* MaxFailureEnforcer.failureCount
  pc,        \* what a thread executes next
  started,   \* how many executors start() has made
  made,      \* the executor a thread has created and not yet added
  after,     \* the value of `tail` read by `tail!!.next = ex`
  seen       \* the value of failureCount read by failureCount++

list == <<head, tail, next, prev>>
registry == <<of, stopped>>
channels == <<conn, faults, chan, cause, registry>>
stopVars == <<closing, monitor, walk>>
locals == <<started, made, after>>
counts == <<failureCount, seen>>
vars == <<channels, list, stopVars, counts, locals, pc>>

-----------------------------------------------------------------------------
Open == {e \in Executor : chan[e] = "open"}
Fresh == {e \in Executor : chan[e] = "none"}
Died == {e \in Executor : chan[e] = "closed"}
ServerClosed == {e \in Executor : cause[e] = "server"}
Recovered == {e \in Executor : of[e] # e}

Goto(t, label) == pc' = [pc EXCEPT ![t] = label]

\* x?.link = y: nothing happens when x is null.
SetLink(link, x, y) == IF x = Null THEN link ELSE [link EXCEPT ![x] = y]

\* Every channel of `es` closes; a later close() of a closed channel changes nothing.
Close(es, why) ==
  /\ chan' = [e \in Executor |-> IF e \in es /\ chan[e] = "open" THEN "closed" ELSE chan[e]]
  /\ cause' = [e \in Executor |-> IF e \in es /\ chan[e] = "open" THEN why ELSE cause[e]]

\* x.stop(), for an Executor object x: its channel closes, whichever consumer is on it,
\* and the library forgets the channel, open or not.
Stop(x) ==
  /\ Close({e \in Executor : of[e] = x}, "pool")
  /\ stopped' = stopped \cup {x}

Init ==
  /\ conn = "up" /\ faults = 0
  /\ chan = [e \in Executor |-> "none"]
  /\ cause = [e \in Executor |-> "none"]
  /\ of = [e \in Executor |-> e] /\ stopped = {}
  /\ head = Null /\ tail = Null
  /\ next = [e \in Executor |-> Null]
  /\ prev = [e \in Executor |-> Null]
  /\ closing = FALSE /\ monitor = Null /\ walk = Null
  /\ failureCount = 0 /\ seen = [t \in Executor |-> 0]
  /\ started = 0
  /\ made = [t \in Thread |-> Null]
  /\ after = [t \in Thread |-> Null]
  /\ pc = [t \in Thread |-> IF t = Starter THEN "create" ELSE "idle"]

-----------------------------------------------------------------------------
(* createNew() with the init() that subscribes the new executor.  It throws *)
(* when the connection is not open, or when the broker refuses to declare  *)
(* the queue or to subscribe; nothing catches that, and the thread is over. *)
Create(t) ==
  /\ pc[t] = "create"
  /\ \/ /\ conn = "up"
        /\ \E e \in Fresh :
             /\ chan' = [chan EXCEPT ![e] = "open"]
             /\ made' = [made EXCEPT ![t] = e]
        /\ started' = IF t = Starter THEN started + 1 ELSE started
        /\ Goto(t, "addTest")
        /\ UNCHANGED faults
     \/ /\ IF conn = "up" THEN faults < MaxFaults /\ faults' = faults + 1
                          ELSE UNCHANGED faults
        /\ Goto(t, "failed")
        /\ UNCHANGED <<chan, made, started>>
  /\ UNCHANGED <<conn, cause, registry, list, stopVars, counts, after>>

-----------------------------------------------------------------------------
(* add(ex), for ex = made[t].                                              *)
AddTest(t) ==
  /\ pc[t] = "addTest"
  /\ Goto(t, IF head = Null THEN "addFirst" ELSE "addLast")
  /\ UNCHANGED <<channels, list, stopVars, counts, locals>>

AddFirst(t) ==
  /\ pc[t] = "addFirst"
  /\ head' = made[t]
  /\ Goto(t, "addTail")
  /\ UNCHANGED <<channels, tail, next, prev, stopVars, counts, locals>>

\* Mutant of AddLast: the tail is moved before the old one is linked to the new.
AddLastSwapped(t) ==
  /\ pc[t] = "addLast"
  /\ tail' = made[t]
  /\ after' = [after EXCEPT ![t] = made[t]]
  /\ Goto(t, "addLink")
  /\ UNCHANGED <<channels, head, next, prev, stopVars, counts, started, made>>

\* `tail!!` throws when tail is null: the executor is subscribed and not listed.
AddLast(t) ==
  /\ pc[t] = "addLast"
  /\ IF tail = Null THEN /\ made' = [made EXCEPT ![t] = Null]
                         /\ Goto(t, "failed")
                         /\ UNCHANGED after
                    ELSE /\ after' = [after EXCEPT ![t] = tail]
                         /\ Goto(t, "addLink")
                         /\ UNCHANGED made
  /\ UNCHANGED <<channels, list, stopVars, counts, started>>

AddLink(t) ==
  /\ pc[t] = "addLink"
  /\ next' = [next EXCEPT ![after[t]] = made[t]]
  /\ after' = [after EXCEPT ![t] = Null]
  /\ Goto(t, "addTail")
  /\ UNCHANGED <<channels, head, tail, prev, stopVars, counts, started, made>>

\* Mutant of AddTail: start() counts from 0 to PoolSize, both included.
AddTailInclusive(t) ==
  /\ pc[t] = "addTail"
  /\ tail' = made[t]
  /\ made' = [made EXCEPT ![t] = Null]
  /\ Goto(t, IF t = Starter /\ started <= PoolSize THEN "create" ELSE "done")
  /\ UNCHANGED <<channels, head, next, prev, stopVars, counts, started, after>>

\* The end of add(); start() goes on until it has made PoolSize executors.
AddTail(t) ==
  /\ pc[t] = "addTail"
  /\ tail' = made[t]
  /\ made' = [made EXCEPT ![t] = Null]
  /\ Goto(t, IF t = Starter /\ started < PoolSize THEN "create" ELSE "done")
  /\ UNCHANGED <<channels, head, next, prev, stopVars, counts, started, after>>

-----------------------------------------------------------------------------
\* Mutant of OnConsumerShutdown: a shutdown of the application's own counts too.
OnAnyShutdown(e) ==
  /\ pc[e] = "idle"
  /\ chan[e] = "closed"
  /\ Goto(e, "mark")
  /\ UNCHANGED <<channels, list, stopVars, counts, locals>>

\* Mutant of OnConsumerShutdown: whoever closed a channel for the application, the
\* callback returns.
OnServerShutdown(e) ==
  /\ pc[e] = "idle"
  /\ chan[e] = "closed"
  /\ Goto(e, IF cause[e] = "server" THEN "mark" ELSE "done")
  /\ UNCHANGED <<channels, list, stopVars, counts, locals>>

(* onConsumerShutdown(e), the consumer's shutdown callback.                *)
OnConsumerShutdown(e) ==
  /\ pc[e] = "idle"
  /\ chan[e] = "closed"
  /\ Goto(e, IF cause[e] = "server" THEN "mark" ELSE "remove")
  /\ UNCHANGED <<channels, list, stopVars, counts, locals>>

\* markFailure() is failureCount++ on a plain field: a read, then a write.
MarkRead(e) ==
  /\ pc[e] = "mark"
  /\ seen' = [seen EXCEPT ![e] = failureCount]
  /\ Goto(e, "markWrite")
  /\ UNCHANGED <<channels, list, stopVars, failureCount, locals>>

MarkWrite(e) ==
  /\ pc[e] = "markWrite"
  /\ failureCount' = seen[e] + 1
  /\ seen' = [seen EXCEPT ![e] = 0]
  /\ Goto(e, "check")
  /\ UNCHANGED <<channels, list, stopVars, locals>>

ShouldHalt == failureCount > MaxFailures

Check(e) ==
  /\ pc[e] = "check"
  /\ Goto(e, IF ShouldHalt THEN "stop" ELSE "remove")
  /\ UNCHANGED <<channels, list, stopVars, counts, locals>>

\* remove(ex), for ex = of[e]: which of its three branches is taken ...
RemoveTest(e) ==
  /\ pc[e] = "remove"
  /\ Goto(e, IF head = of[e] THEN "unlinkHead" ELSE "removeTail")
  /\ UNCHANGED <<channels, list, stopVars, counts, locals>>

RemoveTailTest(e) ==
  /\ pc[e] = "removeTail"
  /\ Goto(e, IF tail = of[e] THEN "unlinkTail" ELSE "unlinkMid")
  /\ UNCHANGED <<channels, list, stopVars, counts, locals>>

\* ... and what each branch writes.  add() never sets `prev`, so that the statements that
\* go through it, the second of the first branch and both of the last, change nothing:
\* they are one step with the one before.
UnlinkHead(e) ==
  /\ pc[e] = "unlinkHead"
  /\ head' = next[of[e]]
  /\ prev' = SetLink(prev, next[of[e]], Null)
  /\ Goto(e, "stopOwn")
  /\ UNCHANGED <<channels, tail, next, stopVars, counts, locals>>

UnlinkTail(e) ==
  /\ pc[e] = "unlinkTail"
  /\ tail' = prev[of[e]]
  /\ Goto(e, "cutTail")
  /\ UNCHANGED <<channels, head, next, prev, stopVars, counts, locals>>

\* `tail?.next = null` reads `tail` again.
CutTail(e) ==
  /\ pc[e] = "cutTail"
  /\ next' = SetLink(next, tail, Null)
  /\ Goto(e, "stopOwn")
  /\ UNCHANGED <<channels, head, tail, prev, stopVars, counts, locals>>

UnlinkMid(e) ==
  /\ pc[e] = "unlinkMid"
  /\ prev' = SetLink(prev, next[of[e]], prev[of[e]])
  /\ next' = SetLink(next, prev[of[e]], next[of[e]])
  /\ Goto(e, "stopOwn")
  /\ UNCHANGED <<channels, head, tail, stopVars, counts, locals>>

\* ex.stop().  The channel is closed already, unless the connection has come back before
\* the callback got here: then it closes the consumer that has come back.
StopOwn(e) ==
  /\ pc[e] = "stopOwn"
  /\ Stop(of[e])
  /\ Goto(e, "replace")
  /\ UNCHANGED <<conn, faults, of, list, stopVars, counts, locals>>

\* Mutant of Replace: the test of `closing` is the wrong way round.
ReplaceInverted(e) ==
  /\ pc[e] = "replace"
  /\ Goto(e, IF closing THEN "create" ELSE "done")
  /\ UNCHANGED <<channels, list, stopVars, counts, locals>>

\* The test of `closing`.
Replace(e) ==
  /\ pc[e] = "replace"
  /\ Goto(e, IF closing THEN "done" ELSE "create")
  /\ UNCHANGED <<channels, list, stopVars, counts, locals>>

-----------------------------------------------------------------------------
(* stop() and stopNow(): the application calls them on a constructed pool, *)
(* onConsumerShutdown() calls stopNow() when the policy says halt.         *)
CallStop ==
  /\ pc[Stopper] = "idle"
  /\ pc[Starter] = "done"
  /\ Goto(Stopper, "stop")
  /\ UNCHANGED <<channels, list, stopVars, counts, locals>>

\* stopExecutors() enters the monitor; a second caller leaves it at once.
StopEnter(t) ==
  /\ pc[t] = "stop"
  /\ monitor = Null
  /\ IF closing THEN /\ Goto(t, "kill")
                     /\ UNCHANGED <<closing, monitor>>
                ELSE /\ closing' = TRUE
                     /\ monitor' = t
                     /\ Goto(t, "detachHead")
  /\ UNCHANGED <<channels, list, walk, counts, locals>>

DetachHead(t) ==
  /\ pc[t] = "detachHead"
  /\ walk' = head
  /\ head' = Null
  /\ Goto(t, "detachTail")
  /\ UNCHANGED <<channels, tail, next, prev, closing, monitor, counts, locals>>

DetachTail(t) ==
  /\ pc[t] = "detachTail"
  /\ tail' = Null
  /\ Goto(t, "walk")
  /\ UNCHANGED <<channels, head, next, prev, stopVars, counts, locals>>

\* Mutant of Walk: the monitor is not left with the last round.
WalkKeepsMonitor(t) ==
  /\ pc[t] = "walk"
  /\ IF walk = Null
     THEN /\ Goto(t, "kill")
          /\ UNCHANGED <<chan, cause, stopped, next, prev, walk>>
     ELSE /\ Stop(walk)
          /\ next' = [next EXCEPT ![walk] = Null]
          /\ prev' = [prev EXCEPT ![walk] = Null]
          /\ walk' = next[walk]
          /\ UNCHANGED pc
  /\ UNCHANGED <<conn, faults, of, monitor, head, tail, closing, counts, locals>>

\* One round of the while loop; the monitor is left with the last one.
Walk(t) ==
  /\ pc[t] = "walk"
  /\ IF walk = Null
     THEN /\ monitor' = Null
          /\ Goto(t, "kill")
          /\ UNCHANGED <<chan, cause, stopped, next, prev, walk>>
     ELSE /\ Stop(walk)
          /\ next' = [next EXCEPT ![walk] = Null]
          /\ prev' = [prev EXCEPT ![walk] = Null]
          /\ walk' = next[walk]
          /\ UNCHANGED <<monitor, pc>>
  /\ UNCHANGED <<conn, faults, of, head, tail, closing, counts, locals>>

\* Mutant of Kill: shutdownCB is not called.
KillSpares(t) ==
  /\ pc[t] = "kill"
  /\ Goto(t, "done")
  /\ UNCHANGED <<channels, list, stopVars, counts, locals>>

\* shutdownCB aborts the connection: in stopNow(), and in stop() once killAfter
\* has passed.  A stop() that does not block, or that drains, leaves it alone.
Kill(t) ==
  /\ pc[t] = "kill"
  /\ Goto(t, "done")
  /\ \/ /\ conn' = "aborted"
        /\ Close(Executor, "pool")
     \/ /\ t = Stopper
        /\ UNCHANGED <<conn, chan, cause>>
  /\ UNCHANGED <<faults, registry, list, stopVars, counts, locals>>

-----------------------------------------------------------------------------
(* The environment: the broker, the network and the client library.        *)

\* Deaths are bounded so that an executor is left for each replacement.
CanDie ==
  /\ Cardinality(Died) <= MaxDeaths
  /\ Cardinality(Died) + Cardinality(Recovered) + PoolSize < Cardinality(Executor)

\* The broker closes a channel: not initiated by the application.
ServerClose(e) ==
  /\ chan[e] = "open" /\ CanDie
  /\ Close({e}, "server")
  /\ UNCHANGED <<conn, faults, registry, list, stopVars, counts, locals, pc>>

\* A delivery callback threw: the library closes the channel on the application's behalf.
DeliveryThrows(e) ==
  /\ chan[e] = "open" /\ CanDie
  /\ Close({e}, "exception")
  /\ UNCHANGED <<conn, faults, registry, list, stopVars, counts, locals, pc>>

ConnectionLost ==
  /\ conn = "up" /\ faults < MaxFaults
  /\ conn' = "lost" /\ faults' = faults + 1
  /\ Close(Executor, "server")
  /\ UNCHANGED <<registry, list, stopVars, counts, locals, pc>>

\* The Executor objects whose channel comes back with the connection: all that stop() has
\* not been called on, for the library keeps a channel that was not closed through it.
Returning == {of[e] : e \in Died} \ stopped

\* The library reconnects after a pause, without regard to the callbacks of the consumers
\* that died: each waits behind the delivery callback of its channel, which may sit in
\* future.get(jobTimeout) for longer than the pause.
ConnectionRestored ==
  /\ conn = "lost"
  /\ conn' = "up"
  /\ \E back \in Injection(Returning, Fresh) :
       /\ chan' = [e \in Executor |-> IF e \in Range(back) THEN "open" ELSE chan[e]]
       /\ of' = [e \in Executor |-> IF e \in Range(back)
                                      THEN Inverse(back, Returning, Fresh)[e]
                                      ELSE of[e]]
  /\ UNCHANGED <<faults, cause, stopped, list, stopVars, counts, locals, pc>>

-----------------------------------------------------------------------------
Adding(t) == Create(t) \/ AddTest(t) \/ AddFirst(t) \/ AddLast(t) \/ AddLink(t) \/ AddTail(t)

Stopping(t) == StopEnter(t) \/ DetachHead(t) \/ DetachTail(t) \/ Walk(t) \/ Kill(t)

Callback(e) ==
  \/ OnConsumerShutdown(e) \/ MarkRead(e) \/ MarkWrite(e) \/ Check(e)
  \/ RemoveTest(e) \/ RemoveTailTest(e) \/ UnlinkHead(e) \/ UnlinkTail(e) \/ CutTail(e)
  \/ UnlinkMid(e) \/ StopOwn(e) \/ Replace(e)

\* What a thread of the program does next.
Step(t) == Adding(t) \/ Stopping(t) \/ (t \in Executor /\ Callback(t))

Environment ==
  \/ \E e \in Executor : ServerClose(e) \/ DeliveryThrows(e)
  \/ ConnectionLost
  \/ ConnectionRestored
  \/ CallStop

Next ==
  \/ Environment
  \/ \E t \in Thread : Adding(t) \/ Stopping(t)
  \/ \E e \in Executor : Callback(e)

Spec == Init /\ [][Next]_vars

\* Every started thread goes on; nothing is assumed of the environment.
FairSpec == Spec /\ \A t \in Thread : WF_vars(Step(t))

-----------------------------------------------------------------------------
Label == {"idle", "done", "failed", "create", "addTest", "addFirst", "addLast", "addLink",
          "addTail", "mark", "markWrite", "check", "remove", "removeTail", "unlinkHead",
          "unlinkTail", "cutTail", "unlinkMid", "stopOwn", "replace", "stop",
          "detachHead", "detachTail", "walk", "kill"}

\* Every variable has its type.
TypeOK ==
  /\ conn \in {"up", "lost", "aborted"}
  /\ faults \in 0..MaxFaults
  /\ chan \in [Executor -> {"none", "open", "closed"}]
  /\ cause \in [Executor -> {"none", "server", "exception", "pool"}]
  /\ of \in [Executor -> Executor] /\ stopped \subseteq Executor
  /\ head \in Executor \cup {Null} /\ tail \in Executor \cup {Null}
  /\ next \in [Executor -> Executor \cup {Null}]
  /\ prev \in [Executor -> Executor \cup {Null}]
  /\ closing \in BOOLEAN
  /\ monitor \in Thread \cup {Null}
  /\ walk \in Executor \cup {Null}
  /\ failureCount \in Nat /\ seen \in [Executor -> Nat]
  /\ started \in 0..PoolSize
  /\ made \in [Thread -> Executor \cup {Null}]
  /\ after \in [Thread -> Executor \cup {Null}]
  /\ pc \in [Thread -> Label]

\* A thread is inside the pool's code, or a shutdown callback is due.
Busy(t) ==
  \/ pc[t] \notin {"idle", "done", "failed"}
  \/ t \in Died /\ pc[t] = "idle"

-----------------------------------------------------------------------------
\* However deaths, replacements, start() and stop() interleave, each death is replaced at
\* most once.  That is not poolSize consumers at most: a consumer that comes back with the
\* connection is replaced nevertheless when the callback of its death comes late, and once
\* more when that callback's ex.stop() has closed it.  Each that comes back adds one at most.
ConsumersBounded == Cardinality(Open) <= PoolSize + Cardinality(Recovered)

\* The unsynchronised add() and remove() may lose executors from the list but
\* never close a cycle, so the while loop of stopExecutors() comes to an end.
ListAcyclic ==
  \A S \in (SUBSET Executor) \ {{}} : \E e \in S : next[e] \notin S

\* The policy halts the pool only when the broker or the network really did kill
\* more than MaxFailures consumers: the racing increments never count too much.
NoSpuriousHalt ==
  \A e \in Executor :
    (pc[e] = "stop" \/ (closing /\ pc[Stopper] = "idle"))
      => Cardinality(ServerClosed) > MaxFailures

\* A pool that is not being shut down gets back to poolSize consumers after
\* deaths, unless the connection was lost or the broker refused a subscription.
PoolRefills ==
  (pc[Starter] = "done" /\ ~closing)
    ~> (Cardinality(Open) = PoolSize \/ closing \/ faults > 0)

\* A halt ordered by the failure policy ends with no consumer subscribed, for
\* good, whatever replacements other callbacks or start() are still making.
HaltStopsConsumers ==
  \A e \in Executor : pc[e] = "stop" ~> [](Open = {})

\* stop() and stopNow() get through the monitor and the list and return.
StopReturns == pc[Stopper] = "stop" ~> pc[Stopper] = "done"

-----------------------------------------------------------------------------
(* What the pool promises, seen from the broker.                           *)

\* Where the callback of a dead consumer may still come to its replacement.
MayReplace == {"idle", "mark", "markWrite", "check", "remove", "removeTail", "unlinkHead",
               "unlinkTail", "cutTail", "unlinkMid", "stopOwn", "replace", "create"}

Owed == {e \in Executor : chan[e] = "closed" /\ pc[e] \in MayReplace}

Halting == closing \/ \E t \in Thread : pc[t] = "stop"

Pool == INSTANCE ConsumerPool WITH
  subscribed <- Open,
  owed <- Owed,
  killed <- ServerClosed,
  recovered <- Recovered,
  opened <- started,
  halting <- Halting

\* Each death of a consumer is answered by one replacement, whatever killed it, unless a
\* shutdown has been ordered (by the application after start(), by the policy after more
\* than MaxFailures deaths that the pool did not bring about) or the connection is down or
\* refuses the new one; a consumer that comes back with the connection counts as one more,
\* and only as many come back as are still to be replaced; and nothing is subscribed on a
\* connection that is aborted.
ReplacesItsDead == Pool!Spec

-----------------------------------------------------------------------------
(* What the source says and the code does not keep.                        *)

\* JobQueueExecutorPool.kt:207 asserts with `tail!!` that a list with a head has a
\* tail: even for a single thread, when no other is inside the pool's code.
TailFollowsHead ==
  \A t \in Thread :
    (pc[t] = "addLast" /\ \A u \in Thread \ {t} : ~Busy(u)) => tail # Null

\* JobQueueExecutorPool.kt:21: "If an executor's consumer dies, the executor will be replaced."
DeadReplaced ==
  (pc[Starter] = "done" /\ conn = "up" /\ ~closing)
    ~> (Cardinality(Open) >= PoolSize \/ conn # "up" \/ closing)

=============================================================================
