------------------------- MODULE ExecutorPoolProofs -------------------------
(***************************************************************************)
(* Theorems about ExecutorPool, for every pool size, policy limit and set  *)
(* of executors.                                                           *)
(***************************************************************************)
EXTENDS ExecutorPool, FiniteSetTheorems, TLAPS

\* start() is about to create an executor only while it has made too few.
StartGoesOn == pc[Starter] = "create" => started < PoolSize

TypeInv == TypeOK /\ StartGoesOn

\* What a connection that comes back does: Executors that are not stopped get a fresh
\* consumer each, subscribed under their name.
RestoredBy(back) ==
  /\ back \in Injection(Returning, Fresh)
  /\ Range(back) \subseteq Fresh
  /\ chan' = [e \in Executor |-> IF e \in Range(back) THEN "open" ELSE chan[e]]
  /\ of' \in [Executor -> Executor]
  /\ \A e \in Executor \ Range(back) : of'[e] = of[e]
  /\ \A e \in Range(back) : of'[e] \in Returning /\ back[of'[e]] = e

LEMMA RestoredFacts ==
  ASSUME TypeOK, ConnectionRestored
  PROVE  \E back : RestoredBy(back)
<1>1. PICK back \in Injection(Returning, Fresh) :
        /\ chan' = [e \in Executor |-> IF e \in Range(back) THEN "open" ELSE chan[e]]
        /\ of' = [e \in Executor |-> IF e \in Range(back)
                                       THEN Inverse(back, Returning, Fresh)[e]
                                       ELSE of[e]]
  BY DEF ConnectionRestored
<1>2. back \in [Returning -> Fresh] /\ Returning \subseteq Executor /\ Fresh \subseteq Executor
  BY DEF Injection, Returning, Fresh, TypeOK, Died
<1>3. Range(back) \subseteq Fresh
  BY <1>2 DEF Range
<1>4. ASSUME NEW e \in Range(back)
      PROVE  /\ Inverse(back, Returning, Fresh)[e] \in Returning
             /\ back[Inverse(back, Returning, Fresh)[e]] = e
  <2>1. Inverse(back, Returning, Fresh)[e] =
          CHOOSE x \in Returning : e \in Range(back) => back[x] = e
    BY <1>3 DEF Inverse
  <2>2. \E x \in Returning : back[x] = e
    BY <1>2 DEF Range
  <2> QED
    BY <2>1, <2>2
<1> QED
  BY <1>1, <1>2, <1>3, <1>4 DEF RestoredBy, TypeOK

LEMMA TypeInit == Init => TypeInv
<1> SUFFICES ASSUME Init PROVE TypeInv
  OBVIOUS
<1>1. 0 \in 0..MaxFaults /\ 0 \in 0..PoolSize /\ 0 < PoolSize
  BY PoolAssumption
<1>r. of \in [Executor -> Executor] /\ stopped \subseteq Executor
  BY DEF Init
<1>2. pc \in [Thread -> Label] /\ made \in [Thread -> Executor \cup {Null}]
      /\ after \in [Thread -> Executor \cup {Null}]
  BY DEF Init, Label
<1>3. TypeOK
  BY <1>1, <1>2, <1>r DEF Init, TypeOK
<1>4. StartGoesOn
  BY <1>1 DEF Init, StartGoesOn
<1> QED
  BY <1>3, <1>4 DEF TypeInv

LEMMA TypeStep == TypeInv /\ [Next]_vars => TypeInv'
<1> SUFFICES ASSUME TypeInv, [Next]_vars PROVE TypeInv'
  OBVIOUS
<1> USE PoolAssumption DEF TypeInv, TypeOK, StartGoesOn, Thread, Label, Goto,
        channels, registry, list, stopVars, locals, counts
<1>1. ASSUME NEW t \in Thread, Create(t) PROVE TypeInv'
  BY <1>1 DEF Create, Fresh
<1>2. ASSUME NEW t \in Thread, AddTest(t) PROVE TypeInv'
  BY <1>2 DEF AddTest
<1>3. ASSUME NEW t \in Thread, AddFirst(t) PROVE TypeInv'
  BY <1>3 DEF AddFirst
<1>4. ASSUME NEW t \in Thread, AddLast(t) PROVE TypeInv'
  BY <1>4 DEF AddLast
<1>5. ASSUME NEW t \in Thread, AddLink(t) PROVE TypeInv'
  BY <1>5 DEF AddLink
<1>6. ASSUME NEW t \in Thread, AddTail(t) PROVE TypeInv'
  BY <1>6 DEF AddTail
<1>7. ASSUME NEW t \in Thread, StopEnter(t) PROVE TypeInv'
  BY <1>7 DEF StopEnter
<1>8. ASSUME NEW t \in Thread, DetachHead(t) PROVE TypeInv'
  BY <1>8 DEF DetachHead
<1>9. ASSUME NEW t \in Thread, DetachTail(t) PROVE TypeInv'
  BY <1>9 DEF DetachTail
<1>10. ASSUME NEW t \in Thread, Walk(t) PROVE TypeInv'
  BY <1>10 DEF Walk, Stop, Close
<1>11. ASSUME NEW t \in Thread, Kill(t) PROVE TypeInv'
  BY <1>11 DEF Kill, Close
<1>12. ASSUME NEW e \in Executor, OnConsumerShutdown(e) PROVE TypeInv'
  BY <1>12 DEF OnConsumerShutdown
<1>13. ASSUME NEW e \in Executor, MarkRead(e) PROVE TypeInv'
  BY <1>13 DEF MarkRead
<1>14. ASSUME NEW e \in Executor, MarkWrite(e) PROVE TypeInv'
  BY <1>14 DEF MarkWrite
<1>15. ASSUME NEW e \in Executor, Check(e) PROVE TypeInv'
  BY <1>15 DEF Check
<1>16. ASSUME NEW e \in Executor, RemoveTest(e) \/ RemoveTailTest(e) PROVE TypeInv'
  BY <1>16 DEF RemoveTest, RemoveTailTest
<1>17. ASSUME NEW e \in Executor, UnlinkHead(e) PROVE TypeInv'
  BY <1>17 DEF UnlinkHead, SetLink
<1>18. ASSUME NEW e \in Executor, UnlinkTail(e) \/ CutTail(e) PROVE TypeInv'
  BY <1>18 DEF UnlinkTail, CutTail, SetLink
<1>19. ASSUME NEW e \in Executor, UnlinkMid(e) PROVE TypeInv'
  BY <1>19 DEF UnlinkMid, SetLink
<1>20. ASSUME NEW e \in Executor, Replace(e) \/ StopOwn(e) PROVE TypeInv'
  BY <1>20 DEF Replace, StopOwn, Stop, Close
<1>21. ASSUME NEW e \in Executor, ServerClose(e) PROVE TypeInv'
  BY <1>21 DEF ServerClose, Close
<1>22. ASSUME NEW e \in Executor, DeliveryThrows(e) PROVE TypeInv'
  BY <1>22 DEF DeliveryThrows, Close
<1>23. CASE ConnectionLost
  BY <1>23 DEF ConnectionLost, Close
<1>24. CASE ConnectionRestored
  BY <1>24, RestoredFacts DEF ConnectionRestored, RestoredBy
<1>25. CASE CallStop
  BY <1>25 DEF CallStop
<1>26. CASE UNCHANGED vars
  BY <1>26 DEF vars
<1> QED
  BY <1>1, <1>2, <1>3, <1>4, <1>5, <1>6, <1>7, <1>8, <1>9, <1>10, <1>11, <1>12, <1>13,
     <1>14, <1>15, <1>16, <1>17, <1>18, <1>19, <1>20, <1>21, <1>22, <1>23, <1>24, <1>25,
     <1>26 DEF Next, Environment, Adding, Stopping, Callback

\* Every variable keeps its type: in particular `started` never passes PoolSize,
\* for start() (JobQueueExecutorPool.kt:62-65) counts up to it and no further.
THEOREM TypeCorrect == Spec => []TypeOK
<1>1. Spec => []TypeInv
  BY TypeInit, TypeStep, PTL DEF Spec
<1>2. TypeInv => TypeOK
  BY DEF TypeInv
<1> QED
  BY <1>1, <1>2, PTL
-----------------------------------------------------------------------------
(* A bounded number of consumers.  The invariant counts slots: an open channel *)
(* is a slot, and so is a dead one whose callback may still replace it.  A *)
(* death keeps the slot, a replacement moves it; start() makes one, and so  *)
(* does a consumer that comes back with the connection.                     *)

Slots ==
  {e \in Executor : chan[e] = "open" \/ (chan[e] = "closed" /\ pc[e] \in MayReplace)}

CallbackFollowsDeath == \A e \in Executor : pc[e] # "idle" => chan[e] = "closed"

RolesKept ==
  /\ pc[Stopper] \in {"idle", "stop", "detachHead", "detachTail", "walk", "kill", "done"}
  /\ pc[Starter] \in {"create", "addTest", "addFirst", "addLast", "addLink", "addTail", "done",
                     "failed"}

\* A consumer that is not one yet is its own Executor's, and nobody else's.
OwnersMade ==
  \A e \in Executor : IF e \in Fresh THEN of[e] = e ELSE of[e] \notin Fresh

SlotsBounded == Cardinality(Slots) <= started + Cardinality(Recovered)

SlotInv == TypeInv /\ CallbackFollowsDeath /\ RolesKept /\ OwnersMade /\ SlotsBounded

LEMMA SlotsFinite ==
  /\ IsFiniteSet(Slots) /\ Cardinality(Slots) \in Nat
  /\ IsFiniteSet(Recovered) /\ Cardinality(Recovered) \in Nat
<1>1. Slots \subseteq Executor /\ Recovered \subseteq Executor /\ IsFiniteSet(Executor)
  BY PoolAssumption DEF Slots, Recovered
<1> QED
  BY <1>1, FS_Subset, FS_CardinalityType

LEMMA SlotInit == Init => SlotInv
<1> SUFFICES ASSUME Init PROVE SlotInv
  OBVIOUS
<1>1. Slots = {}
  BY DEF Init, Slots
<1>2. SlotsBounded
  BY <1>1, FS_EmptySet, SlotsFinite DEF Init, SlotsBounded
<1>3. CallbackFollowsDeath /\ RolesKept /\ OwnersMade
  BY PoolAssumption DEF Init, CallbackFollowsDeath, RolesKept, OwnersMade, Fresh, Thread
<1> QED
  BY <1>2, <1>3, TypeInit DEF SlotInv

\* What every step but a successful Create and the return of the connection does to the
\* slots and to the small invariants: it makes no new slot.
SlotsKept ==
  /\ Slots' \subseteq Slots
  /\ of' = of /\ Fresh' = Fresh
  /\ started' = started
  /\ CallbackFollowsDeath'
  /\ RolesKept'

LEMMA SlotsKeptBounded == ASSUME SlotInv, SlotsKept PROVE OwnersMade' /\ SlotsBounded'
<1>1. Cardinality(Slots') <= Cardinality(Slots)
  BY SlotsFinite, FS_Subset DEF SlotsKept
<1>2. Cardinality(Slots') \in Nat
  BY SlotsFinite, FS_Subset, FS_CardinalityType DEF SlotsKept
<1>3. Recovered' = Recovered /\ OwnersMade'
  BY DEF SlotsKept, Recovered, SlotInv, OwnersMade
<1> QED
  BY <1>1, <1>2, <1>3, SlotsFinite, PoolAssumption
     DEF SlotInv, SlotsBounded, SlotsKept, TypeInv, TypeOK

\* A new executor takes a slot of its own (start()) or that of the dead one.
LEMMA CreateSlots ==
  ASSUME SlotInv, NEW t \in Thread, Create(t)
  PROVE  CallbackFollowsDeath' /\ RolesKept' /\ OwnersMade' /\ SlotsBounded'
<1> USE PoolAssumption DEF SlotInv, TypeInv, TypeOK, Thread, Create, Goto, CallbackFollowsDeath,
        RolesKept
<1>1. CallbackFollowsDeath' /\ RolesKept'
  BY DEF Fresh
<1>r. of' = of /\ Recovered' = Recovered
  BY DEF registry, Recovered
<1>2. CASE pc'[t] = "failed"
  <2>1. SlotsKept
    BY <1>1, <1>2, <1>r DEF SlotsKept, Slots, MayReplace, Fresh
  <2> QED
    BY <1>1, <2>1, SlotsKeptBounded
<1>3. CASE pc'[t] # "failed"
  <2>1. PICK e \in Fresh : chan' = [chan EXCEPT ![e] = "open"]
    BY <1>3
  <2>2. e \in Executor /\ chan[e] = "none" /\ e \notin Slots /\ e # t
    BY <2>1 DEF Fresh, Slots
  <2>o. OwnersMade'
    BY <1>r, <2>1, <2>2 DEF OwnersMade, Fresh
  <2>3. CASE t = Starter
    <3>1. Slots' = Slots \cup {e}
      BY <1>3, <2>1, <2>2, <2>3 DEF Slots, MayReplace
    <3>2. Cardinality(Slots') = Cardinality(Slots) + 1
      BY <2>2, <3>1, SlotsFinite, FS_AddElement
    <3> QED
      BY <1>1, <1>3, <1>r, <2>o, <2>3, <3>2, SlotsFinite DEF SlotsBounded
  <2>4. CASE t \in Executor
    <3>1. t \in Slots
      BY <2>4 DEF Slots, MayReplace
    <3>2. Slots' = (Slots \ {t}) \cup {e}
      BY <1>3, <2>1, <2>2, <2>4 DEF Slots, MayReplace
    <3>3. IsFiniteSet(Slots \ {t}) /\ Cardinality(Slots \ {t}) = Cardinality(Slots) - 1
      BY <3>1, SlotsFinite, FS_RemoveElement
    <3>4. Cardinality(Slots') = Cardinality(Slots \ {t}) + 1
      BY <2>2, <3>2, <3>3, FS_AddElement
    <3>5. Cardinality(Slots') = Cardinality(Slots)
      BY <3>3, <3>4, SlotsFinite
    <3> QED
      BY <1>1, <1>3, <1>r, <2>o, <2>4, <3>5 DEF SlotsBounded
  <2> QED
    BY <2>3, <2>4
<1> QED
  BY <1>1, <1>2, <1>3

\* Each consumer that comes back is a slot, and counts on the other side too.
LEMMA RestoredSlots ==
  ASSUME SlotInv, ConnectionRestored
  PROVE  CallbackFollowsDeath' /\ RolesKept' /\ OwnersMade' /\ SlotsBounded'
<1> USE DEF SlotInv, TypeInv
<1>1. PICK back : RestoredBy(back)
  BY RestoredFacts
<1> DEFINE R == Range(back)
<1>2. pc' = pc /\ started' = started
  BY DEF ConnectionRestored, locals
<1>3. R \subseteq Fresh /\ R \subseteq Executor /\ \A e \in R : pc[e] = "idle" /\ of[e] = e
  BY <1>1 DEF RestoredBy, CallbackFollowsDeath, OwnersMade, Fresh
<1>4. CallbackFollowsDeath' /\ RolesKept'
  BY <1>1, <1>2, <1>3 DEF RestoredBy, CallbackFollowsDeath, RolesKept
<1>5. /\ Fresh' = Fresh \ R
      /\ \A e \in R : of'[e] \in Executor /\ of'[e] \notin Fresh
  BY <1>1, <1>3 DEF RestoredBy, Fresh, Returning, Died, OwnersMade, TypeOK
<1>6. OwnersMade'
  BY <1>1, <1>3, <1>5 DEF RestoredBy, OwnersMade, Fresh
<1>7. Slots' = Slots \cup R
  BY <1>1, <1>2, <1>3 DEF RestoredBy, Slots
<1>8. Recovered' = Recovered \cup R /\ Recovered \cap R = {}
  BY <1>1, <1>3, <1>5 DEF RestoredBy, Recovered
<1>9. IsFiniteSet(R) /\ Cardinality(R) \in Nat
  BY <1>3, PoolAssumption, FS_Subset, FS_CardinalityType
<1> HIDE DEF R
<1>10. Cardinality(Recovered') = Cardinality(Recovered) + Cardinality(R)
  <2>1. Cardinality(Recovered \cap R) = 0
    BY <1>8, FS_EmptySet
  <2>2. Cardinality(Recovered \cup R) = Cardinality(Recovered) + Cardinality(R) - 0
    BY <1>9, <2>1, SlotsFinite, FS_Union
  <2> QED
    BY <1>8, <1>9, <2>2, SlotsFinite
<1>11. Cardinality(Slots') <= Cardinality(Slots) + Cardinality(R)
  <2>1. IsFiniteSet(Slots \cap R) /\ Cardinality(Slots \cap R) \in Nat
    BY <1>9, FS_Subset, FS_CardinalityType
  <2>2. Cardinality(Slots') = Cardinality(Slots) + Cardinality(R) - Cardinality(Slots \cap R)
    BY <1>7, <1>9, SlotsFinite, FS_Union
  <2> QED
    BY <1>9, <2>1, <2>2, SlotsFinite
<1>12. IsFiniteSet(Slots') /\ Cardinality(Slots') \in Nat
  BY <1>7, <1>9, SlotsFinite, FS_Union, FS_CardinalityType
<1>13. SlotsBounded'
  BY <1>2, <1>9, <1>10, <1>11, <1>12, SlotsFinite, PoolAssumption DEF SlotsBounded, TypeOK
<1> QED
  BY <1>4, <1>6, <1>13

LEMMA SlotStep == SlotInv /\ [Next]_vars => SlotInv'
<1> SUFFICES ASSUME SlotInv, [Next]_vars PROVE SlotInv'
  OBVIOUS
<1>1. TypeInv'
  BY TypeStep DEF SlotInv
<1> SUFFICES CallbackFollowsDeath' /\ RolesKept' /\ OwnersMade' /\ SlotsBounded'
  BY <1>1 DEF SlotInv
<1>2. ASSUME NEW t \in Thread, Create(t)
      PROVE  CallbackFollowsDeath' /\ RolesKept' /\ OwnersMade' /\ SlotsBounded'
  BY <1>2, CreateSlots
<1>r. CASE ConnectionRestored
  BY <1>r, RestoredSlots
<1>3. ASSUME ~\E t \in Thread : Create(t), ~ConnectionRestored PROVE SlotsKept
  <2> USE PoolAssumption DEF SlotInv, TypeInv, TypeOK, Thread, Goto, CallbackFollowsDeath,
          RolesKept, SlotsKept, Slots, MayReplace, Fresh, channels, registry, list, stopVars,
          locals, counts
  <2>1. ASSUME NEW t \in Thread, AddTest(t) PROVE SlotsKept
    BY <2>1 DEF AddTest
  <2>2. ASSUME NEW t \in Thread, AddFirst(t) PROVE SlotsKept
    BY <2>2 DEF AddFirst
  <2>3. ASSUME NEW t \in Thread, AddLast(t) PROVE SlotsKept
    BY <2>3 DEF AddLast
  <2>4. ASSUME NEW t \in Thread, AddLink(t) PROVE SlotsKept
    BY <2>4 DEF AddLink
  <2>5. ASSUME NEW t \in Thread, AddTail(t) PROVE SlotsKept
    BY <2>5 DEF AddTail
  <2>6. ASSUME NEW t \in Thread, StopEnter(t) PROVE SlotsKept
    BY <2>6 DEF StopEnter
  <2>7. ASSUME NEW t \in Thread, DetachHead(t) PROVE SlotsKept
    BY <2>7 DEF DetachHead
  <2>8. ASSUME NEW t \in Thread, DetachTail(t) PROVE SlotsKept
    BY <2>8 DEF DetachTail
  <2>9. ASSUME NEW t \in Thread, Walk(t) PROVE SlotsKept
    BY <2>9 DEF Walk, Stop, Close
  <2>10. ASSUME NEW t \in Thread, Kill(t) PROVE SlotsKept
    BY <2>10 DEF Kill, Close
  <2>11. ASSUME NEW e \in Executor, OnConsumerShutdown(e) PROVE SlotsKept
    BY <2>11 DEF OnConsumerShutdown
  <2>12. ASSUME NEW e \in Executor, MarkRead(e) PROVE SlotsKept
    BY <2>12 DEF MarkRead
  <2>13. ASSUME NEW e \in Executor, MarkWrite(e) PROVE SlotsKept
    BY <2>13 DEF MarkWrite
  <2>14. ASSUME NEW e \in Executor, Check(e) PROVE SlotsKept
    BY <2>14 DEF Check
  <2>15. ASSUME NEW e \in Executor, RemoveTest(e) \/ RemoveTailTest(e) PROVE SlotsKept
    BY <2>15 DEF RemoveTest, RemoveTailTest
  <2>16. ASSUME NEW e \in Executor, UnlinkHead(e) PROVE SlotsKept
    BY <2>16 DEF UnlinkHead
  <2>17. ASSUME NEW e \in Executor, UnlinkTail(e) \/ CutTail(e) PROVE SlotsKept
    BY <2>17 DEF UnlinkTail, CutTail, SetLink
  <2>18. ASSUME NEW e \in Executor, UnlinkMid(e) PROVE SlotsKept
    BY <2>18 DEF UnlinkMid
  <2>19. ASSUME NEW e \in Executor, Replace(e) \/ StopOwn(e) PROVE SlotsKept
    BY <2>19 DEF Replace, StopOwn, Stop, Close
  <2>20. ASSUME NEW e \in Executor, ServerClose(e) PROVE SlotsKept
    BY <2>20 DEF ServerClose, Close
  <2>21. ASSUME NEW e \in Executor, DeliveryThrows(e) PROVE SlotsKept
    BY <2>21 DEF DeliveryThrows, Close
  <2>22. CASE ConnectionLost
    BY <2>22 DEF ConnectionLost, Close
  <2>24. CASE CallStop
    BY <2>24 DEF CallStop
  <2>25. CASE UNCHANGED vars
    BY <2>25 DEF vars
  <2> QED
    BY <1>3, <2>1, <2>2, <2>3, <2>4, <2>5, <2>6, <2>7, <2>8, <2>9, <2>10, <2>11,
       <2>12, <2>13, <2>14, <2>15, <2>16, <2>17, <2>18, <2>19, <2>20, <2>21, <2>22,
       <2>24, <2>25 DEF Next, Environment, Adding, Stopping, Callback
<1> QED
  BY <1>2, <1>3, <1>r, SlotsKeptBounded DEF SlotsKept

\* Whatever deaths, replacements, start() and shutdowns interleave, and whenever the
\* connection comes back, at most poolSize consumers are subscribed and one more for each
\* that has come back with the connection: start() makes poolSize of them
\* (JobQueueExecutorPool.kt:62-65), onConsumerShutdown() replaces each death at most once
\* (JobQueueExecutorPool.kt:194-198), that of a consumer which has come back included.
THEOREM SurplusBounded == Spec => []ConsumersBounded
<1>1. Spec => []SlotInv
  BY SlotInit, SlotStep, PTL DEF Spec
<1>2. SlotInv => ConsumersBounded
  <2> SUFFICES ASSUME SlotInv PROVE ConsumersBounded
    OBVIOUS
  <2>1. Open \subseteq Slots
    BY DEF Open, Slots
  <2>2. Cardinality(Open) <= Cardinality(Slots) /\ Cardinality(Open) \in Nat
    BY <2>1, SlotsFinite, FS_Subset, FS_CardinalityType
  <2> QED
    BY <2>2, SlotsFinite, PoolAssumption
       DEF SlotInv, SlotsBounded, ConsumersBounded, TypeInv, TypeOK
<1> QED
  BY <1>1, <1>2, PTL
-----------------------------------------------------------------------------
(* No spurious halt.  Racing increments lose counts and never invent any:   *)
(* failureCount is at most the number of callbacks that have written it,    *)
(* and so is what a callback has read and not yet written.                  *)

Counted == {e \in ServerClosed : pc[e] \notin {"idle", "mark", "markWrite"}}

OnlyTheServerCounts ==
  \A e \in Executor : pc[e] \in {"mark", "markWrite", "check"} => cause[e] = "server"

ClosedForACause == \A e \in Executor : cause[e] # "none" => chan[e] = "closed"

CountBounded ==
  /\ failureCount <= Cardinality(Counted)
  /\ \A e \in Executor : pc[e] = "markWrite" => seen[e] <= Cardinality(Counted)

Enough == Cardinality(ServerClosed) > MaxFailures

HaltJustified ==
  /\ \A e \in Executor : pc[e] \in {"stop", "detachHead", "detachTail", "walk", "kill"} => Enough
  /\ closing /\ pc[Stopper] = "idle" => Enough

HaltInv == SlotInv /\ OnlyTheServerCounts /\ ClosedForACause /\ CountBounded /\ HaltJustified

LEMMA CountedFinite ==
  /\ IsFiniteSet(Counted) /\ IsFiniteSet(ServerClosed)
  /\ Cardinality(Counted) \in Nat /\ Cardinality(ServerClosed) \in Nat
  /\ Cardinality(Counted) <= Cardinality(ServerClosed)
<1>1. Counted \subseteq ServerClosed /\ ServerClosed \subseteq Executor /\ IsFiniteSet(Executor)
  BY PoolAssumption DEF Counted, ServerClosed
<1> QED
  BY <1>1, FS_Subset, FS_CardinalityType

\* The same facts in the next state.
LEMMA CountedFiniteNext ==
  /\ IsFiniteSet(Counted') /\ IsFiniteSet(ServerClosed')
  /\ Cardinality(Counted') \in Nat /\ Cardinality(ServerClosed') \in Nat
<1>1. Counted' \subseteq Executor /\ ServerClosed' \subseteq Executor /\ IsFiniteSet(Executor)
  BY PoolAssumption DEF Counted, ServerClosed
<1> QED
  BY <1>1, FS_Subset, FS_CardinalityType

LEMMA HaltInit == Init => HaltInv
<1> SUFFICES ASSUME Init PROVE HaltInv
  OBVIOUS
<1>1. pc \in [Thread -> {"create", "idle"}] /\ \A e \in Executor : pc[e] = "idle"
  BY PoolAssumption DEF Init, Thread
<1>2. OnlyTheServerCounts /\ ClosedForACause /\ HaltJustified
  BY <1>1 DEF Init, OnlyTheServerCounts, ClosedForACause, HaltJustified
<1>3. CountBounded
  BY <1>1, CountedFinite DEF Init, CountBounded
<1> QED
  BY <1>2, <1>3, SlotInit DEF HaltInv

\* What every step does but the three that count and decide: it forgets no death,
\* counts none, and halts nothing that was not being halted.
HaltKept ==
  /\ ServerClosed \subseteq ServerClosed'
  /\ Counted \subseteq Counted'
  /\ failureCount' = failureCount
  /\ \A e \in Executor : pc'[e] = "markWrite" => pc[e] = "markWrite" /\ seen'[e] = seen[e]
  /\ \A e \in Executor : pc'[e] \in {"stop", "detachHead", "detachTail", "walk", "kill"} =>
       pc[e] \in {"stop", "detachHead", "detachTail", "walk", "kill"}
  /\ closing' /\ pc'[Stopper] = "idle" =>
       \/ closing /\ pc[Stopper] = "idle"
       \/ \E e \in Executor : pc[e] = "stop"

LEMMA HaltKeptPreserves ==
  ASSUME HaltInv, HaltKept PROVE CountBounded' /\ HaltJustified'
<1> USE DEF HaltInv, HaltKept, SlotInv, TypeInv, TypeOK
<1>1. /\ Cardinality(Counted) <= Cardinality(Counted')
      /\ Cardinality(ServerClosed) <= Cardinality(ServerClosed')
  BY CountedFiniteNext, FS_Subset
<1>2. CountBounded'
  BY <1>1, CountedFinite, CountedFiniteNext DEF CountBounded
<1>3. Enough => Enough'
  BY <1>1, CountedFinite, CountedFiniteNext, PoolAssumption DEF Enough
<1>4. HaltJustified'
  BY <1>3 DEF HaltJustified
<1> QED
  BY <1>2, <1>4

LEMMA MarkReadHalt ==
  ASSUME HaltInv, NEW e \in Executor, MarkRead(e) PROVE CountBounded' /\ HaltJustified'
<1> USE DEF HaltInv, SlotInv, TypeInv, TypeOK, MarkRead, Goto, channels, registry, list, stopVars,
        locals
<1>1. Counted' = Counted /\ ServerClosed' = ServerClosed
  BY DEF Counted, ServerClosed, Thread
<1>2. CountBounded'
  BY <1>1 DEF CountBounded, Thread
<1>3. HaltJustified'
  BY <1>1, PoolAssumption DEF HaltJustified, Enough, Thread
<1> QED
  BY <1>2, <1>3

LEMMA MarkWriteHalt ==
  ASSUME HaltInv, NEW e \in Executor, MarkWrite(e) PROVE CountBounded' /\ HaltJustified'
<1> USE DEF HaltInv, SlotInv, TypeInv, TypeOK, MarkWrite, Goto, channels, registry, list, stopVars,
        locals
<1>1. ServerClosed' = ServerClosed /\ e \in ServerClosed /\ e \notin Counted
  BY DEF Counted, ServerClosed, OnlyTheServerCounts
<1>2. Counted' = Counted \cup {e}
  BY <1>1 DEF Counted, ServerClosed, Thread
<1>3. Cardinality(Counted') = Cardinality(Counted) + 1
  BY <1>1, <1>2, CountedFinite, FS_AddElement
<1>4. CountBounded'
  BY <1>3, CountedFinite DEF CountBounded, Thread
<1>5. HaltJustified'
  BY <1>1, PoolAssumption DEF HaltJustified, Enough, Thread
<1> QED
  BY <1>4, <1>5

LEMMA CheckHalt ==
  ASSUME HaltInv, NEW e \in Executor, Check(e) PROVE CountBounded' /\ HaltJustified'
<1> USE DEF HaltInv, SlotInv, TypeInv, TypeOK, Check, Goto, channels, registry, list, stopVars,
        locals, counts
<1>1. Counted' = Counted /\ ServerClosed' = ServerClosed
  BY DEF Counted, ServerClosed, Thread
<1>2. CountBounded'
  BY <1>1 DEF CountBounded, Thread
<1>3. ShouldHalt => Enough
  BY CountedFinite, PoolAssumption DEF CountBounded, ShouldHalt, Enough
<1>4. HaltJustified'
  BY <1>1, <1>3, PoolAssumption DEF HaltJustified, Enough, Thread
<1> QED
  BY <1>2, <1>4

LEMMA CauseStep == HaltInv /\ [Next]_vars => OnlyTheServerCounts' /\ ClosedForACause'
<1> SUFFICES ASSUME HaltInv, [Next]_vars PROVE OnlyTheServerCounts' /\ ClosedForACause'
  OBVIOUS
<1> USE PoolAssumption DEF HaltInv, SlotInv, TypeInv, TypeOK, Thread, Goto, OnlyTheServerCounts,
        ClosedForACause, CallbackFollowsDeath, channels, registry, list, stopVars, locals, counts
<1>1. ASSUME NEW t \in Thread, Create(t) PROVE OnlyTheServerCounts' /\ ClosedForACause'
  BY <1>1 DEF Create, Fresh
<1>2. ASSUME NEW t \in Thread, AddTest(t) PROVE OnlyTheServerCounts' /\ ClosedForACause'
  BY <1>2 DEF AddTest
<1>3. ASSUME NEW t \in Thread, AddFirst(t) PROVE OnlyTheServerCounts' /\ ClosedForACause'
  BY <1>3 DEF AddFirst
<1>4. ASSUME NEW t \in Thread, AddLast(t) PROVE OnlyTheServerCounts' /\ ClosedForACause'
  BY <1>4 DEF AddLast
<1>5. ASSUME NEW t \in Thread, AddLink(t) PROVE OnlyTheServerCounts' /\ ClosedForACause'
  BY <1>5 DEF AddLink
<1>6. ASSUME NEW t \in Thread, AddTail(t) PROVE OnlyTheServerCounts' /\ ClosedForACause'
  BY <1>6 DEF AddTail
<1>7. ASSUME NEW t \in Thread, StopEnter(t) PROVE OnlyTheServerCounts' /\ ClosedForACause'
  BY <1>7 DEF StopEnter
<1>8. ASSUME NEW t \in Thread, DetachHead(t) PROVE OnlyTheServerCounts' /\ ClosedForACause'
  BY <1>8 DEF DetachHead
<1>9. ASSUME NEW t \in Thread, DetachTail(t) PROVE OnlyTheServerCounts' /\ ClosedForACause'
  BY <1>9 DEF DetachTail
<1>10. ASSUME NEW t \in Thread, Walk(t) PROVE OnlyTheServerCounts' /\ ClosedForACause'
  BY <1>10 DEF Walk, Stop, Close
<1>11. ASSUME NEW t \in Thread, Kill(t) PROVE OnlyTheServerCounts' /\ ClosedForACause'
  BY <1>11 DEF Kill, Close
<1>12. ASSUME NEW e \in Executor, OnConsumerShutdown(e)
      PROVE  OnlyTheServerCounts' /\ ClosedForACause'
  BY <1>12 DEF OnConsumerShutdown
<1>13. ASSUME NEW e \in Executor, MarkRead(e) PROVE OnlyTheServerCounts' /\ ClosedForACause'
  BY <1>13 DEF MarkRead
<1>14. ASSUME NEW e \in Executor, MarkWrite(e) PROVE OnlyTheServerCounts' /\ ClosedForACause'
  BY <1>14 DEF MarkWrite
<1>15. ASSUME NEW e \in Executor, Check(e) PROVE OnlyTheServerCounts' /\ ClosedForACause'
  BY <1>15 DEF Check
<1>16. ASSUME NEW e \in Executor, RemoveTest(e) \/ RemoveTailTest(e)
      PROVE  OnlyTheServerCounts' /\ ClosedForACause'
  BY <1>16 DEF RemoveTest, RemoveTailTest
<1>17. ASSUME NEW e \in Executor, UnlinkHead(e) PROVE OnlyTheServerCounts' /\ ClosedForACause'
  BY <1>17 DEF UnlinkHead
<1>18. ASSUME NEW e \in Executor, UnlinkTail(e) \/ CutTail(e)
      PROVE  OnlyTheServerCounts' /\ ClosedForACause'
  BY <1>18 DEF UnlinkTail, CutTail, SetLink
<1>19. ASSUME NEW e \in Executor, UnlinkMid(e) PROVE OnlyTheServerCounts' /\ ClosedForACause'
  BY <1>19 DEF UnlinkMid
<1>20. ASSUME NEW e \in Executor, Replace(e) \/ StopOwn(e)
      PROVE  OnlyTheServerCounts' /\ ClosedForACause'
  BY <1>20 DEF Replace, StopOwn, Stop, Close
<1>21. ASSUME NEW e \in Executor, ServerClose(e) PROVE OnlyTheServerCounts' /\ ClosedForACause'
  BY <1>21 DEF ServerClose, Close
<1>22. ASSUME NEW e \in Executor, DeliveryThrows(e)
      PROVE  OnlyTheServerCounts' /\ ClosedForACause'
  BY <1>22 DEF DeliveryThrows, Close
<1>23. CASE ConnectionLost
  BY <1>23 DEF ConnectionLost, Close
<1>24. CASE ConnectionRestored
  <2>1. PICK back : RestoredBy(back)
    BY <1>24, RestoredFacts
  <2>2. \A e \in Executor : chan'[e] = chan[e] \/ chan[e] = "none"
    BY <2>1 DEF RestoredBy, Fresh
  <2>3. cause' = cause /\ pc' = pc
    BY <1>24 DEF ConnectionRestored
  <2> QED
    BY <2>2, <2>3
<1>25. CASE CallStop
  BY <1>25 DEF CallStop
<1>26. CASE UNCHANGED vars
  BY <1>26 DEF vars
<1> QED
  BY <1>1, <1>2, <1>3, <1>4, <1>5, <1>6, <1>7, <1>8, <1>9, <1>10, <1>11, <1>12, <1>13,
     <1>14, <1>15, <1>16, <1>17, <1>18, <1>19, <1>20, <1>21, <1>22, <1>23, <1>24, <1>25,
     <1>26 DEF Next, Environment, Adding, Stopping, Callback

LEMMA HaltStep == HaltInv /\ [Next]_vars => HaltInv'
<1> SUFFICES ASSUME HaltInv, [Next]_vars PROVE HaltInv'
  OBVIOUS
<1>1. SlotInv' /\ OnlyTheServerCounts' /\ ClosedForACause'
  BY SlotStep, CauseStep DEF HaltInv
<1>2. ASSUME NEW e \in Executor, MarkRead(e) \/ MarkWrite(e) \/ Check(e)
      PROVE  CountBounded' /\ HaltJustified'
  BY <1>2, MarkReadHalt, MarkWriteHalt, CheckHalt
<1>3. ASSUME ~\E e \in Executor : MarkRead(e) \/ MarkWrite(e) \/ Check(e) PROVE HaltKept
  <2> USE PoolAssumption DEF HaltInv, SlotInv, TypeInv, TypeOK, Thread, Goto, HaltKept, Counted,
          ServerClosed, CallbackFollowsDeath, ClosedForACause, RolesKept, channels, registry, list,
          stopVars, locals, counts
  <2>1. ASSUME NEW t \in Thread, Create(t) PROVE HaltKept
    BY <2>1 DEF Create, Fresh
  <2>2. ASSUME NEW t \in Thread, AddTest(t) PROVE HaltKept
    BY <2>2 DEF AddTest
  <2>3. ASSUME NEW t \in Thread, AddFirst(t) PROVE HaltKept
    BY <2>3 DEF AddFirst
  <2>4. ASSUME NEW t \in Thread, AddLast(t) PROVE HaltKept
    BY <2>4 DEF AddLast
  <2>5. ASSUME NEW t \in Thread, AddLink(t) PROVE HaltKept
    BY <2>5 DEF AddLink
  <2>6. ASSUME NEW t \in Thread, AddTail(t) PROVE HaltKept
    BY <2>6 DEF AddTail
  <2>7. ASSUME NEW t \in Thread, StopEnter(t) PROVE HaltKept
    BY <2>7 DEF StopEnter
  <2>8. ASSUME NEW t \in Thread, DetachHead(t) PROVE HaltKept
    BY <2>8 DEF DetachHead
  <2>9. ASSUME NEW t \in Thread, DetachTail(t) PROVE HaltKept
    BY <2>9 DEF DetachTail
  <2>10. ASSUME NEW t \in Thread, Walk(t) PROVE HaltKept
    BY <2>10 DEF Walk, Stop, Close
  <2>11. ASSUME NEW t \in Thread, Kill(t) PROVE HaltKept
    BY <2>11 DEF Kill, Close
  <2>12. ASSUME NEW e \in Executor, OnConsumerShutdown(e) PROVE HaltKept
    BY <2>12 DEF OnConsumerShutdown
  <2>13. ASSUME NEW e \in Executor, RemoveTest(e) \/ RemoveTailTest(e) PROVE HaltKept
    BY <2>13 DEF RemoveTest, RemoveTailTest
  <2>14. ASSUME NEW e \in Executor, UnlinkHead(e) PROVE HaltKept
    BY <2>14 DEF UnlinkHead
  <2>15. ASSUME NEW e \in Executor, UnlinkTail(e) \/ CutTail(e) PROVE HaltKept
    BY <2>15 DEF UnlinkTail, CutTail, SetLink
  <2>16. ASSUME NEW e \in Executor, UnlinkMid(e) PROVE HaltKept
    BY <2>16 DEF UnlinkMid
  <2>17. ASSUME NEW e \in Executor, Replace(e) \/ StopOwn(e) PROVE HaltKept
    BY <2>17 DEF Replace, StopOwn, Stop, Close
  <2>18. ASSUME NEW e \in Executor, ServerClose(e) PROVE HaltKept
    BY <2>18 DEF ServerClose, Close
  <2>19. ASSUME NEW e \in Executor, DeliveryThrows(e) PROVE HaltKept
    BY <2>19 DEF DeliveryThrows, Close
  <2>20. CASE ConnectionLost
    BY <2>20 DEF ConnectionLost, Close
  <2>21. CASE ConnectionRestored
    BY <2>21 DEF ConnectionRestored
  <2>22. CASE CallStop
    BY <2>22 DEF CallStop
  <2>23. CASE UNCHANGED vars
    BY <2>23 DEF vars
  <2> QED
    BY <1>3, <2>1, <2>2, <2>3, <2>4, <2>5, <2>6, <2>7, <2>8, <2>9, <2>10, <2>11, <2>12,
       <2>13, <2>14, <2>15, <2>16, <2>17, <2>18, <2>19, <2>20, <2>21, <2>22, <2>23 DEF
       Next, Environment, Adding, Stopping, Callback
<1> QED
  BY <1>1, <1>2, <1>3, HaltKeptPreserves DEF HaltInv

\* The failure policy shuts the pool down only when the broker really has killed
\* more than maxFailures consumers (ExecutorFailurePolicy.kt:42-44), although
\* markFailure() is not atomic (MaxFailureEnforcer.kt:6).
THEOREM NeverSpurious == Spec => []NoSpuriousHalt
<1>1. Spec => []HaltInv
  BY HaltInit, HaltStep, PTL DEF Spec
<1>2. HaltInv => NoSpuriousHalt
  BY DEF HaltInv, HaltJustified, Enough, NoSpuriousHalt
<1> QED
  BY <1>1, <1>2, PTL
-----------------------------------------------------------------------------
(* The list stays acyclic.  A link is only ever made from an executor that  *)
(* has been the tail to one that has not: `after` was read from tail, and a *)
(* made executor is neither the tail nor linked until its add() is over.    *)

\* Nothing leads away from e yet, and no thread is about to make something.
Unlinked(e) == next[e] = Null /\ tail # e /\ \A t \in Thread : after[t] # e

\* add() never writes `prev` (JobQueueExecutorPool.kt:202-212).
NoLinksBack == \A e \in Executor : prev[e] = Null

FreshUnlinked == \A e \in Fresh : Unlinked(e) /\ \A t \in Thread : made[t] # e

MadeUnlinked == \A t \in Thread : made[t] # Null => Unlinked(made[t]) /\ made[t] \notin Fresh

MadeApart == \A t, u \in Thread : t # u /\ made[t] # Null => made[t] # made[u]

LinksReady ==
  /\ \A t \in Thread : pc[t] \in {"addTest", "addFirst", "addLast", "addLink", "addTail"}
                         => made[t] # Null
  /\ \A t \in Thread : pc[t] = "addLink" => after[t] # Null

LinkInv ==
  TypeInv /\ NoLinksBack /\ FreshUnlinked /\ MadeUnlinked /\ MadeApart /\ LinksReady

LEMMA LinkInit == Init => LinkInv /\ ListAcyclic
<1> SUFFICES ASSUME Init PROVE LinkInv /\ ListAcyclic
  OBVIOUS
<1>1. TypeInv
  BY TypeInit
<1>2. NoLinksBack /\ FreshUnlinked /\ MadeUnlinked /\ MadeApart /\ LinksReady
  BY PoolAssumption DEF Init, NoLinksBack, FreshUnlinked, MadeUnlinked, MadeApart,
     LinksReady, Unlinked, Fresh, Thread
<1>3. ListAcyclic
  BY PoolAssumption DEF Init, ListAcyclic
<1> QED
  BY <1>1, <1>2, <1>3 DEF LinkInv

\* What a step does that touches neither a link nor what is read to make one.
LinksKept ==
  /\ next' = next /\ prev' = prev
  /\ tail' = tail \/ tail' = Null
  /\ made' = made /\ after' = after
  /\ \A e \in Executor : chan'[e] = "none" => chan[e] = "none"
  /\ LinksReady'

LEMMA LinksKeptSafe ==
  ASSUME LinkInv, ListAcyclic, TypeInv', LinksKept
  PROVE  LinkInv' /\ ListAcyclic'
<1>1. Fresh' \subseteq Fresh /\ made' = made
  BY DEF LinksKept, Fresh
<1>2. ASSUME NEW e \in Executor, Unlinked(e) PROVE Unlinked(e)'
  BY <1>2, PoolAssumption DEF LinksKept, Unlinked
<1>3. \A t \in Thread : made[t] # Null => made[t] \in Executor
  BY DEF LinkInv, TypeInv, TypeOK
<1>4. MadeUnlinked'
  BY <1>1, <1>2, <1>3 DEF MadeUnlinked, LinkInv
<1>5. FreshUnlinked'
  BY <1>1, <1>2 DEF FreshUnlinked, LinkInv, Fresh
<1>6. MadeApart' /\ NoLinksBack' /\ LinksReady' /\ ListAcyclic'
  BY DEF MadeApart, NoLinksBack, ListAcyclic, LinkInv, LinksKept
<1> QED
  BY <1>4, <1>5, <1>6 DEF LinkInv

\* The steps that create, link and list an executor, and the loop that takes links away.
LEMMA LinkMade ==
  ASSUME LinkInv, ListAcyclic, TypeInv', NEW t \in Thread,
         \/ Create(t) \/ AddLast(t) \/ AddLink(t) \/ AddTail(t) \/ Walk(t)
         \/ t \in Executor /\ CutTail(t)
  PROVE  LinkInv' /\ ListAcyclic'
<1> USE PoolAssumption
<1>t. /\ next \in [Executor -> Executor \cup {Null}] /\ prev \in [Executor -> Executor \cup {Null}]
      /\ made \in [Thread -> Executor \cup {Null}] /\ after \in [Thread -> Executor \cup {Null}]
      /\ pc \in [Thread -> Label] /\ chan \in [Executor -> {"none", "open", "closed"}]
      /\ tail \in Executor \cup {Null} /\ walk \in Executor \cup {Null}
  BY DEF LinkInv, TypeInv, TypeOK
<1>1. CASE Create(t)
  <2> USE <1>1, <1>t DEF Create, Goto, LinkInv
  <2>1. ListAcyclic' /\ NoLinksBack'
    BY DEF ListAcyclic, NoLinksBack, list
  <2>2. CASE pc'[t] = "failed"
    <3>1. LinksKept
      BY <2>2 DEF LinksKept, LinksReady, list
    <3> QED
      BY <3>1, LinksKeptSafe
  <2>3. CASE pc'[t] # "failed"
    <3>1. PICK e \in Fresh : /\ chan' = [chan EXCEPT ![e] = "open"]
                             /\ made' = [made EXCEPT ![t] = e]
                             /\ pc' = [pc EXCEPT ![t] = "addTest"]
      BY <2>3
    <3>2. /\ next' = next /\ tail' = tail /\ after' = after
          /\ e \in Executor /\ Unlinked(e) /\ e # Null /\ \A u \in Thread : made[u] # e
      BY <3>1 DEF list, FreshUnlinked, Fresh
    <3>3. Fresh' = Fresh \ {e}
      BY <3>1, <3>2 DEF Fresh
    <3>4. FreshUnlinked'
      BY <3>1, <3>2, <3>3 DEF FreshUnlinked, Unlinked
    <3>5. MadeUnlinked'
      BY <3>1, <3>2, <3>3 DEF MadeUnlinked, Unlinked
    <3>6. MadeApart' /\ LinksReady'
      BY <3>1, <3>2 DEF MadeApart, LinksReady
    <3> QED
      BY <2>1, <3>4, <3>5, <3>6
  <2> QED
    BY <2>2, <2>3
<1>2. CASE AddLast(t)
  <2> USE <1>2, <1>t DEF AddLast, Goto, LinkInv
  <2>1. /\ next' = next /\ prev' = prev /\ tail' = tail /\ chan' = chan /\ Fresh' = Fresh
        /\ ListAcyclic' /\ NoLinksBack'
    BY DEF list, channels, ListAcyclic, NoLinksBack, Fresh
  <2>2. LinksReady' /\ MadeApart'
    BY DEF LinksReady, MadeApart
  <2>3. ASSUME NEW e \in Executor, Unlinked(e) PROVE Unlinked(e)'
    BY <2>1, <2>3 DEF Unlinked
  <2>4. \A u \in Thread : made'[u] # Null => made'[u] = made[u]
    OBVIOUS
  <2>5. MadeUnlinked'
    BY <2>1, <2>3, <2>4 DEF MadeUnlinked
  <2>6. FreshUnlinked'
    BY <2>1, <2>3, <2>4 DEF FreshUnlinked, Fresh
  <2> QED
    BY <2>1, <2>2, <2>5, <2>6
<1>3. CASE AddLink(t)
  <2> USE <1>3, <1>t DEF AddLink, Goto, LinkInv
  <2>1. /\ after[t] \in Executor /\ made[t] \in Executor /\ made[t] # after[t]
        /\ next[made[t]] = Null
    BY DEF LinksReady, MadeUnlinked, Unlinked
  <2>2. /\ next' = [next EXCEPT ![after[t]] = made[t]] /\ made' = made /\ tail' = tail
        /\ after' = [after EXCEPT ![t] = Null] /\ prev' = prev /\ Fresh' = Fresh
    BY DEF channels, Fresh
  <2>3. ASSUME NEW e \in Executor, Unlinked(e) PROVE Unlinked(e)'
    BY <2>1, <2>2, <2>3 DEF Unlinked
  <2>4. MadeUnlinked' /\ FreshUnlinked'
    BY <2>2, <2>3 DEF MadeUnlinked, FreshUnlinked, Fresh
  <2>5. MadeApart' /\ NoLinksBack' /\ LinksReady'
    BY <2>2 DEF MadeApart, NoLinksBack, LinksReady
  <2>6. ASSUME NEW S \in (SUBSET Executor) \ {{}} PROVE \E e \in S : next'[e] \notin S
    <3>1. CASE made[t] \in S
      BY <2>1, <2>2, <3>1
    <3>2. CASE made[t] \notin S
      <4>1. PICK e \in S : next[e] \notin S
        BY DEF ListAcyclic
      <4> QED
        BY <2>1, <2>2, <3>2, <4>1
    <3> QED
      BY <3>1, <3>2
  <2> QED
    BY <2>4, <2>5, <2>6 DEF ListAcyclic
<1>4. CASE AddTail(t)
  <2> USE <1>4, <1>t DEF AddTail, Goto, LinkInv
  <2>1. /\ next' = next /\ prev' = prev /\ after' = after /\ Fresh' = Fresh
        /\ tail' = made[t] /\ made' = [made EXCEPT ![t] = Null] /\ made[t] # Null
    BY DEF channels, Fresh, LinksReady
  <2>2. ListAcyclic' /\ NoLinksBack' /\ MadeApart'
    BY <2>1 DEF ListAcyclic, NoLinksBack, MadeApart
  <2>3. LinksReady'
    BY <2>1 DEF LinksReady
  <2>4. ASSUME NEW e \in Executor, Unlinked(e), e # made[t] PROVE Unlinked(e)'
    BY <2>1, <2>4 DEF Unlinked
  <2>5. MadeUnlinked'
    BY <2>1, <2>4 DEF MadeUnlinked, MadeApart
  <2>6. FreshUnlinked'
    BY <2>1, <2>4 DEF FreshUnlinked, Fresh
  <2> QED
    BY <2>2, <2>3, <2>5, <2>6
<1>5. CASE Walk(t) \/ CutTail(t)
  <2> USE <1>t DEF Goto, LinkInv
  <2>1. /\ tail' = tail /\ made' = made /\ after' = after /\ Fresh' = Fresh
        /\ \A e \in Executor : next'[e] \in {next[e], Null} /\ prev'[e] \in {prev[e], Null}
    <3>1. CASE Walk(t)
      BY <3>1 DEF Walk, Stop, Close, Fresh, locals
    <3>2. CASE CutTail(t)
      BY <3>2 DEF CutTail, SetLink, Fresh, locals, channels
    <3> QED
      BY <1>5, <3>1, <3>2
  <2>2. NoLinksBack' /\ MadeApart' /\ LinksReady'
    BY <1>5, <2>1 DEF NoLinksBack, MadeApart, LinksReady, Walk, CutTail
  <2>3. ASSUME NEW e \in Executor, Unlinked(e) PROVE Unlinked(e)'
    BY <2>1, <2>3 DEF Unlinked
  <2>4. MadeUnlinked' /\ FreshUnlinked'
    BY <2>1, <2>3 DEF MadeUnlinked, FreshUnlinked, Fresh
  <2>5. ListAcyclic'
    BY <2>1 DEF ListAcyclic
  <2> QED
    BY <2>2, <2>4, <2>5
<1> QED
  BY <1>1, <1>2, <1>3, <1>4, <1>5

LEMMA LinkStep == LinkInv /\ ListAcyclic /\ [Next]_vars => LinkInv' /\ ListAcyclic'
<1> SUFFICES ASSUME LinkInv, ListAcyclic, [Next]_vars PROVE LinkInv' /\ ListAcyclic'
  OBVIOUS
<1>1. TypeInv'
  BY TypeStep DEF LinkInv
<1>2. ASSUME NEW t \in Thread,
             \/ Create(t) \/ AddLast(t) \/ AddLink(t) \/ AddTail(t) \/ Walk(t)
             \/ t \in Executor /\ CutTail(t)
      PROVE  LinkInv' /\ ListAcyclic'
  BY <1>1, <1>2, LinkMade
<1>3. ASSUME ~\E t \in Thread :
               \/ Create(t) \/ AddLast(t) \/ AddLink(t) \/ AddTail(t) \/ Walk(t)
               \/ t \in Executor /\ CutTail(t)
      PROVE  LinksKept
  <2> USE PoolAssumption DEF LinkInv, TypeInv, TypeOK, Thread, Goto, LinksReady, LinksKept,
          channels, registry, list, stopVars, locals, counts
  <2>1. ASSUME NEW t \in Thread, AddTest(t) PROVE LinksKept
    BY <2>1 DEF AddTest
  <2>2. ASSUME NEW t \in Thread, AddFirst(t) PROVE LinksKept
    BY <2>2 DEF AddFirst
  <2>3. ASSUME NEW t \in Thread, StopEnter(t) PROVE LinksKept
    BY <2>3 DEF StopEnter
  <2>4. ASSUME NEW t \in Thread, DetachHead(t) \/ DetachTail(t) PROVE LinksKept
    BY <2>4 DEF DetachHead, DetachTail
  <2>5. ASSUME NEW t \in Thread, Kill(t) PROVE LinksKept
    BY <2>5 DEF Kill, Close
  <2>6. ASSUME NEW e \in Executor, OnConsumerShutdown(e) PROVE LinksKept
    BY <2>6 DEF OnConsumerShutdown
  <2>7. ASSUME NEW e \in Executor, MarkRead(e) \/ MarkWrite(e) PROVE LinksKept
    BY <2>7 DEF MarkRead, MarkWrite
  <2>8. ASSUME NEW e \in Executor, Check(e) PROVE LinksKept
    BY <2>8 DEF Check
  <2>9. ASSUME NEW e \in Executor, RemoveTest(e) \/ RemoveTailTest(e) PROVE LinksKept
    BY <2>9 DEF RemoveTest, RemoveTailTest
  <2>10. ASSUME NEW e \in Executor, UnlinkHead(e) \/ UnlinkTail(e) \/ UnlinkMid(e)
         PROVE  LinksKept
    <3>1. of[e] \in Executor /\ prev[of[e]] = Null /\ \A x \in Executor : prev[x] = Null
      BY DEF NoLinksBack
    <3>2. next' = next /\ prev' = prev
      BY <2>10, <3>1 DEF UnlinkHead, UnlinkTail, UnlinkMid, SetLink
    <3> QED
      BY <2>10, <3>1, <3>2 DEF UnlinkHead, UnlinkTail, UnlinkMid
  <2>11. ASSUME NEW e \in Executor, Replace(e) \/ StopOwn(e) PROVE LinksKept
    BY <2>11 DEF Replace, StopOwn, Stop, Close
  <2>12. ASSUME NEW e \in Executor, ServerClose(e) \/ DeliveryThrows(e) PROVE LinksKept
    BY <2>12 DEF ServerClose, DeliveryThrows, Close
  <2>13. CASE ConnectionLost \/ CallStop
    BY <2>13 DEF ConnectionLost, CallStop, Close
  <2>r. CASE ConnectionRestored
    <3>1. PICK back : RestoredBy(back)
      BY <2>r, RestoredFacts
    <3>2. \A e \in Executor : chan'[e] = "none" => chan[e] = "none"
      BY <3>1 DEF RestoredBy
    <3> QED
      BY <2>r, <3>2 DEF ConnectionRestored
  <2>14. CASE UNCHANGED vars
    BY <2>14 DEF vars
  <2> QED
    BY <1>3, <2>1, <2>2, <2>3, <2>4, <2>5, <2>6, <2>7, <2>8, <2>9, <2>10, <2>11, <2>12,
       <2>13, <2>14, <2>r DEF Next, Environment, Adding, Stopping, Callback
<1> QED
  BY <1>1, <1>2, <1>3, LinksKeptSafe

\* The list never closes a cycle, so the while loop of stopExecutors()
\* (JobQueueExecutorPool.kt:164-170) ends, however callbacks race with each other.
THEOREM NeverCyclic == Spec => []ListAcyclic
BY LinkInit, LinkStep, PTL DEF Spec
-----------------------------------------------------------------------------
(* The promise.  A dead consumer is owed a replacement until its callback   *)
(* subscribes one or leaves: by the policy's halt, because it has found     *)
(* `closing`, or by the exception of a subscription that fails.             *)

\* Who is inside stopExecutors(), or past it, has set `closing` or found it set; only
\* they abort the connection; and start() comes to its end with poolSize consumers.
ClosingFirst ==
  /\ \A t \in Thread : pc[t] \in {"detachHead", "detachTail", "walk", "kill"} => closing
  /\ conn = "aborted" => closing
  /\ pc[Starter] = "done" => started = PoolSize

LEMMA ClosingInit == Init => ClosingFirst
BY PoolAssumption DEF Init, ClosingFirst, Thread

LEMMA ClosingStep == SlotInv /\ ClosingFirst /\ [Next]_vars => ClosingFirst'
<1> SUFFICES ASSUME SlotInv, ClosingFirst, [Next]_vars PROVE ClosingFirst'
  OBVIOUS
<1> USE PoolAssumption DEF SlotInv, TypeInv, TypeOK, RolesKept, Thread, Goto, ClosingFirst,
        channels, registry, list, stopVars, locals, counts
<1>1. ASSUME NEW t \in Thread, Create(t) PROVE ClosingFirst'
  BY <1>1 DEF Create
<1>2. ASSUME NEW t \in Thread, AddTest(t) PROVE ClosingFirst'
  BY <1>2 DEF AddTest
<1>3. ASSUME NEW t \in Thread, AddFirst(t) PROVE ClosingFirst'
  BY <1>3 DEF AddFirst
<1>4. ASSUME NEW t \in Thread, AddLast(t) PROVE ClosingFirst'
  BY <1>4 DEF AddLast
<1>5. ASSUME NEW t \in Thread, AddLink(t) PROVE ClosingFirst'
  BY <1>5 DEF AddLink
<1>6. ASSUME NEW t \in Thread, AddTail(t) PROVE ClosingFirst'
  BY <1>6 DEF AddTail
<1>7. ASSUME NEW t \in Thread, StopEnter(t) PROVE ClosingFirst'
  BY <1>7 DEF StopEnter
<1>8. ASSUME NEW t \in Thread, DetachHead(t) PROVE ClosingFirst'
  BY <1>8 DEF DetachHead
<1>9. ASSUME NEW t \in Thread, DetachTail(t) PROVE ClosingFirst'
  BY <1>9 DEF DetachTail
<1>10. ASSUME NEW t \in Thread, Walk(t) PROVE ClosingFirst'
  BY <1>10 DEF Walk, Stop, Close
<1>11. ASSUME NEW t \in Thread, Kill(t) PROVE ClosingFirst'
  BY <1>11 DEF Kill, Close
<1>12. ASSUME NEW e \in Executor, OnConsumerShutdown(e) PROVE ClosingFirst'
  BY <1>12 DEF OnConsumerShutdown
<1>13. ASSUME NEW e \in Executor, MarkRead(e) PROVE ClosingFirst'
  BY <1>13 DEF MarkRead
<1>14. ASSUME NEW e \in Executor, MarkWrite(e) PROVE ClosingFirst'
  BY <1>14 DEF MarkWrite
<1>15. ASSUME NEW e \in Executor, Check(e) PROVE ClosingFirst'
  BY <1>15 DEF Check
<1>16. ASSUME NEW e \in Executor, RemoveTest(e) \/ RemoveTailTest(e) PROVE ClosingFirst'
  BY <1>16 DEF RemoveTest, RemoveTailTest
<1>17. ASSUME NEW e \in Executor, UnlinkHead(e) PROVE ClosingFirst'
  BY <1>17 DEF UnlinkHead
<1>18. ASSUME NEW e \in Executor, UnlinkTail(e) \/ CutTail(e) PROVE ClosingFirst'
  BY <1>18 DEF UnlinkTail, CutTail, SetLink
<1>19. ASSUME NEW e \in Executor, UnlinkMid(e) PROVE ClosingFirst'
  BY <1>19 DEF UnlinkMid
<1>20. ASSUME NEW e \in Executor, Replace(e) \/ StopOwn(e) PROVE ClosingFirst'
  BY <1>20 DEF Replace, StopOwn, Stop, Close
<1>21. ASSUME NEW e \in Executor, ServerClose(e) PROVE ClosingFirst'
  BY <1>21 DEF ServerClose, Close
<1>22. ASSUME NEW e \in Executor, DeliveryThrows(e) PROVE ClosingFirst'
  BY <1>22 DEF DeliveryThrows, Close
<1>23. CASE ConnectionLost
  BY <1>23 DEF ConnectionLost, Close
<1>24. CASE ConnectionRestored
  BY <1>24 DEF ConnectionRestored
<1>25. CASE CallStop
  BY <1>25 DEF CallStop
<1>26. CASE UNCHANGED vars
  BY <1>26 DEF vars
<1> QED
  BY <1>1, <1>2, <1>3, <1>4, <1>5, <1>6, <1>7, <1>8, <1>9, <1>10, <1>11, <1>12, <1>13, <1>14,
     <1>15, <1>16, <1>17, <1>18, <1>19, <1>20, <1>21, <1>22, <1>23, <1>24, <1>25, <1>26
     DEF Next, Environment, Adding, Stopping, Callback

-----------------------------------------------------------------------------
(* Who can come back.  A connection that is down has no consumer, and each  *)
(* Executor has one at most; and until its callback has come to ex.stop(),  *)
(* a dead consumer's callback is on its way to the replacement, unless a    *)
(* shutdown has been ordered.                                               *)

DownIsEmpty == conn # "up" => Open = {}

OneEach == \A d, e \in Open : of[d] = of[e] => d = e

BeforeStop == {"idle", "mark", "markWrite", "check", "remove", "removeTail", "unlinkHead",
               "unlinkTail", "cutTail", "unlinkMid", "stopOwn"}

StoppedFirst == \A e \in Executor : pc[e] \in BeforeStop \/ of[e] \in stopped \/ Halting

ReturnInv == DownIsEmpty /\ OneEach /\ StoppedFirst

LEMMA ReturnInit == Init => ReturnInv
BY PoolAssumption DEF Init, ReturnInv, DownIsEmpty, OneEach, StoppedFirst, BeforeStop, Open, Thread

\* A shutdown that has been ordered stays ordered.
LEMMA HaltingStays ==
  ASSUME SlotInv, [Next]_vars, Halting PROVE Halting'
<1> USE PoolAssumption DEF SlotInv, TypeInv, TypeOK, Thread, Goto, Halting, channels, registry,
        list, stopVars, locals, counts
<1>1. ASSUME NEW t \in Thread, Adding(t) PROVE Halting'
  BY <1>1 DEF Adding, Create, AddTest, AddFirst, AddLast, AddLink, AddTail
<1>2. ASSUME NEW t \in Thread, Stopping(t) PROVE Halting'
  BY <1>2 DEF Stopping, StopEnter, DetachHead, DetachTail, Walk, Kill
<1>3. ASSUME NEW e \in Executor, OnConsumerShutdown(e) \/ MarkRead(e) \/ MarkWrite(e) \/ Check(e)
      PROVE  Halting'
  BY <1>3 DEF OnConsumerShutdown, MarkRead, MarkWrite, Check
<1>4. ASSUME NEW e \in Executor,
             RemoveTest(e) \/ RemoveTailTest(e) \/ UnlinkHead(e) \/ UnlinkTail(e) \/ CutTail(e)
      PROVE  Halting'
  BY <1>4 DEF RemoveTest, RemoveTailTest, UnlinkHead, UnlinkTail, CutTail
<1>5. ASSUME NEW e \in Executor, UnlinkMid(e) \/ StopOwn(e) \/ Replace(e) PROVE Halting'
  BY <1>5 DEF UnlinkMid, StopOwn, Replace
<1>6. CASE Environment
  BY <1>6 DEF Environment, ServerClose, DeliveryThrows, ConnectionLost, ConnectionRestored, CallStop
<1>7. CASE UNCHANGED vars
  BY <1>7 DEF vars
<1> QED
  BY <1>1, <1>2, <1>3, <1>4, <1>5, <1>6, <1>7 DEF Next, Callback

\* What the steps do that open no channel.
NoneOpened ==
  /\ Open' \subseteq Open /\ of' = of
  /\ conn' # "up" => conn # "up" \/ Open' = {}
  /\ StoppedFirst'

LEMMA OpenShrinks == ASSUME ReturnInv, NoneOpened PROVE ReturnInv'
BY DEF ReturnInv, DownIsEmpty, OneEach, NoneOpened

LEMMA ReturnStep == HaltInv /\ ReturnInv /\ [Next]_vars => ReturnInv'
<1> SUFFICES ASSUME HaltInv, ReturnInv, [Next]_vars PROVE ReturnInv'
  OBVIOUS
<1>h. Halting => Halting'
  BY HaltingStays DEF HaltInv
<1>t. /\ of \in [Executor -> Executor] /\ stopped \subseteq Executor /\ pc \in [Thread -> Label]
      /\ chan \in [Executor -> {"none", "open", "closed"}] /\ Executor \subseteq Thread
      /\ CallbackFollowsDeath /\ OwnersMade /\ RolesKept
  BY DEF HaltInv, SlotInv, TypeInv, TypeOK, Thread
<1>1. ASSUME NEW t \in Thread, Create(t) PROVE ReturnInv'
  <2> USE <1>1, <1>t DEF Create, Goto, registry
  <2>1. StoppedFirst'
    BY <1>h DEF ReturnInv, StoppedFirst, BeforeStop
  <2>2. CASE pc'[t] = "failed"
    BY <2>1, <2>2, OpenShrinks DEF Open, NoneOpened
  <2>3. CASE pc'[t] # "failed"
    <3>1. PICK e \in Fresh : chan' = [chan EXCEPT ![e] = "open"]
      BY <2>3
    <3>2. conn = "up" /\ conn' = "up" /\ Open' = Open \cup {e} /\ of' = of
      BY <2>3, <3>1 DEF Fresh, Open
    <3>3. of[e] = e /\ \A d \in Open : of[d] # e
      BY <3>1 DEF OwnersMade, Fresh, Open
    <3>4. OneEach' /\ DownIsEmpty'
      BY <3>2, <3>3 DEF OneEach, DownIsEmpty, ReturnInv
    <3> QED
      BY <2>1, <3>4 DEF ReturnInv
  <2> QED
    BY <2>2, <2>3
<1>2. CASE ConnectionRestored
  <2> USE <1>2, <1>t
  <2>1. PICK back : RestoredBy(back)
    BY RestoredFacts DEF HaltInv, SlotInv, TypeInv
  <2>2. pc' = pc /\ conn = "lost" /\ conn' = "up" /\ stopped' = stopped
    BY DEF ConnectionRestored
  <2>3. Open = {} /\ Open' = Range(back)
    BY <2>1, <2>2 DEF RestoredBy, Open, Fresh, ReturnInv, DownIsEmpty
  <2>4. OneEach' /\ DownIsEmpty'
    BY <2>1, <2>2, <2>3 DEF RestoredBy, OneEach, DownIsEmpty
  <2>5. \A e \in Range(back) : pc[e] = "idle"
    BY <2>1 DEF RestoredBy, Fresh, CallbackFollowsDeath
  <2>6. StoppedFirst'
    BY <1>h, <2>1, <2>2, <2>5 DEF StoppedFirst, RestoredBy, ReturnInv, BeforeStop
  <2> QED
    BY <2>4, <2>6 DEF ReturnInv
<1>3. ASSUME ~ConnectionRestored, ~\E t \in Thread : Create(t)
      PROVE  NoneOpened
  <2> USE <1>t, <1>h, PoolAssumption DEF ReturnInv, StoppedFirst, BeforeStop, Goto, Open, RolesKept,
          NoneOpened, channels, registry, list, stopVars, locals, counts
  <2>1. ASSUME NEW t \in Thread, AddTest(t) \/ AddFirst(t) \/ AddLast(t) PROVE NoneOpened
    BY <2>1 DEF AddTest, AddFirst, AddLast
  <2>2. ASSUME NEW t \in Thread, AddLink(t) \/ AddTail(t) PROVE NoneOpened
    BY <2>2 DEF AddLink, AddTail
  <2>3. ASSUME NEW t \in Thread, StopEnter(t) PROVE NoneOpened
    BY <2>3 DEF StopEnter
  <2>4. ASSUME NEW t \in Thread, DetachHead(t) \/ DetachTail(t) PROVE NoneOpened
    BY <2>4 DEF DetachHead, DetachTail
  <2>5. ASSUME NEW t \in Thread, Walk(t) PROVE NoneOpened
    BY <2>5 DEF Walk, Stop, Close
  <2>6. ASSUME NEW t \in Thread, Kill(t) PROVE NoneOpened
    BY <2>6 DEF Kill, Close
  <2>7. ASSUME NEW e \in Executor, OnConsumerShutdown(e) \/ MarkRead(e) \/ MarkWrite(e)
        PROVE  NoneOpened
    BY <2>7 DEF OnConsumerShutdown, MarkRead, MarkWrite
  <2>8. ASSUME NEW e \in Executor, Check(e) PROVE NoneOpened
    <3>1. CASE ShouldHalt
      <4>1. pc'[e] = "stop" /\ e \in Thread
        BY <2>8, <3>1 DEF Check
      <4>2. Halting'
        BY <4>1 DEF Halting
      <4> QED
        BY <2>8, <4>2 DEF Check
    <3>2. CASE ~ShouldHalt
      BY <2>8, <3>2 DEF Check
    <3> QED
      BY <3>1, <3>2
  <2>9. ASSUME NEW e \in Executor, RemoveTest(e) \/ RemoveTailTest(e) PROVE NoneOpened
    BY <2>9 DEF RemoveTest, RemoveTailTest
  <2>10. ASSUME NEW e \in Executor, UnlinkHead(e) \/ UnlinkTail(e) \/ CutTail(e) \/ UnlinkMid(e)
         PROVE  NoneOpened
    BY <2>10 DEF UnlinkHead, UnlinkTail, CutTail, UnlinkMid
  <2>11. ASSUME NEW e \in Executor, StopOwn(e) PROVE NoneOpened
    BY <2>11 DEF StopOwn, Stop, Close
  <2>12. ASSUME NEW e \in Executor, Replace(e) PROVE NoneOpened
    BY <2>12 DEF Replace
  <2>13. ASSUME NEW e \in Executor, ServerClose(e) \/ DeliveryThrows(e) PROVE NoneOpened
    BY <2>13 DEF ServerClose, DeliveryThrows, Close
  <2>14. CASE ConnectionLost
    BY <2>14 DEF ConnectionLost, Close
  <2>15. CASE CallStop
    BY <2>15 DEF CallStop
  <2>16. CASE UNCHANGED vars
    BY <2>16 DEF vars
  <2> QED
    BY <1>3, <2>1, <2>2, <2>3, <2>4, <2>5, <2>6, <2>7, <2>8, <2>9, <2>10, <2>11, <2>12, <2>13,
       <2>14, <2>15, <2>16 DEF Next, Environment, Adding, Stopping, Callback
<1> QED
  BY <1>1, <1>2, <1>3, OpenShrinks
-----------------------------------------------------------------------------
(* The refinement.                                                          *)

PromiseInv == HaltInv /\ ClosingFirst /\ ReturnInv

LEMMA SameCardinality == \A S : Pool!Cardinality(S) = Cardinality(S)
BY Zenon DEF Pool!Cardinality, Cardinality

\* What the steps do that the broker does not see.
Unseen ==
  /\ chan' = chan /\ cause' = cause /\ conn' = conn /\ faults' = faults
  /\ started' = started /\ of' = of
  /\ \A e \in Executor : pc'[e] \in MayReplace <=> pc[e] \in MayReplace
  /\ Halting' = Halting

LEMMA UnseenStutters == Unseen => UNCHANGED Pool!vars
BY DEF Unseen, Pool!vars, Open, Owed, ServerClosed, Recovered

\* Every consumer that a step closes was subscribed, and is owed a replacement after it.
LEMMA CloseUnsubscribes ==
  ASSUME PromiseInv, NEW es \in SUBSET Executor, NEW why, Close(es, why),
         \A e \in Executor : pc'[e] \in MayReplace <=> pc[e] \in MayReplace
  PROVE  /\ Open' = Open \ (es \cap Open)
         /\ Owed' = Owed \cup (es \cap Open)
         /\ ServerClosed' = IF why = "server" THEN ServerClosed \cup (es \cap Open)
                                              ELSE ServerClosed
<1> USE DEF PromiseInv, HaltInv, SlotInv, TypeInv, TypeOK, Close
<1>1. Open' = Open \ (es \cap Open)
  BY DEF Open
<1>2. \A e \in Open : pc[e] \in MayReplace
  BY DEF Open, CallbackFollowsDeath, MayReplace
<1>3. Owed' = Owed \cup (es \cap Open)
  BY <1>2 DEF Owed, Open
<1>4. \A e \in Open : cause[e] = "none"
  BY DEF Open, ClosedForACause
<1>5. ServerClosed' = IF why = "server" THEN ServerClosed \cup (es \cap Open) ELSE ServerClosed
  BY <1>4 DEF ServerClosed, Open
<1> QED
  BY <1>1, <1>3, <1>5

LEMMA CreateRefines ==
  ASSUME PromiseInv, NEW t \in Thread, Create(t)
  PROVE  [Pool!Next]_(Pool!vars)
<1> USE PoolAssumption DEF PromiseInv, HaltInv, SlotInv, TypeInv, TypeOK, Thread, Create, Goto,
        CallbackFollowsDeath, RolesKept
<1>1. t \in Executor \/ t = Starter
  OBVIOUS
<1>2. Halting' = Halting /\ ServerClosed' = ServerClosed /\ conn' = conn /\ Recovered' = Recovered
  BY DEF Halting, ServerClosed, Recovered, stopVars, registry
<1>3. t \in Executor => t \in Owed
  BY DEF Owed, MayReplace
<1>4. CASE pc'[t] = "failed"
  <2>1. chan' = chan /\ started' = started /\ pc' = [pc EXCEPT ![t] = "failed"]
    BY <1>4
  <2>2. Open' = Open
    BY <2>1 DEF Open
  <2>3. CASE t \in Executor
    <3>1. Owed' = Owed \ {t}
      BY <2>1, <2>3 DEF Owed, MayReplace
    <3>2. \/ (Halting \/ conn = "lost") /\ faults' = faults
          \/ faults' = faults + 1
      BY <1>4 DEF ClosingFirst, Halting
    <3>3. Pool!GiveUp(t)
      BY <1>2, <1>3, <2>1, <2>2, <2>3, <3>1, <3>2 DEF Pool!GiveUp
    <3> QED
      BY <2>3, <3>3 DEF Pool!Next
  <2>4. CASE t = Starter
    <3>1. Owed' = Owed
      BY <2>1, <2>4 DEF Owed
    <3>2. faults' = faults \/ faults' = faults + 1
      BY <1>4
    <3>3. UNCHANGED Pool!vars \/ Pool!Refuse
      BY <1>2, <2>1, <2>2, <3>1, <3>2 DEF Pool!vars, Pool!Refuse
    <3> QED
      BY <3>3 DEF Pool!Next
  <2> QED
    BY <1>1, <2>3, <2>4
<1>5. CASE pc'[t] # "failed"
  <2>1. PICK e \in Fresh : chan' = [chan EXCEPT ![e] = "open"]
    BY <1>5
  <2>2. /\ conn = "up" /\ faults' = faults /\ pc' = [pc EXCEPT ![t] = "addTest"]
        /\ started' = IF t = Starter THEN started + 1 ELSE started
    BY <1>5
  <2>3. e \in Executor /\ chan[e] = "none" /\ e # t /\ e \notin ServerClosed
    BY <2>1 DEF Fresh, ClosedForACause, ServerClosed
  <2>4. Open' = Open \cup {e} /\ e \notin Open \cup Owed \cup ServerClosed
    BY <2>1, <2>3 DEF Open, Owed
  <2>5. Pool!Subscribe(e)
    BY <1>2, <2>2, <2>4 DEF Pool!Subscribe
  <2>6. CASE t \in Executor
    <3>1. Owed' = Owed \ {t}
      BY <2>1, <2>2, <2>3, <2>6 DEF Owed, MayReplace
    <3>2. Pool!Replace(t, e)
      BY <1>3, <2>2, <2>5, <2>6, <3>1 DEF Pool!Replace
    <3> QED
      BY <2>3, <2>6, <3>2 DEF Pool!Next
  <2>7. CASE t = Starter
    <3>1. Owed' = Owed
      BY <2>1, <2>2, <2>3, <2>7 DEF Owed
    <3>2. started < PoolSize
      BY <2>7 DEF StartGoesOn
    <3>3. Pool!Start(e)
      BY <2>2, <2>5, <2>7, <3>1, <3>2 DEF Pool!Start
    <3> QED
      BY <2>3, <3>3 DEF Pool!Next
  <2> QED
    BY <1>1, <2>6, <2>7
<1> QED
  BY <1>4, <1>5

\* The callback that asks the policy, and the one that asks `closing`.
LEMMA DecisionRefines ==
  ASSUME PromiseInv, NEW e \in Executor, Check(e) \/ Replace(e)
  PROVE  [Pool!Next]_(Pool!vars)
<1> USE PoolAssumption DEF PromiseInv, HaltInv, SlotInv, TypeInv, TypeOK, Thread, Goto,
        CallbackFollowsDeath, RolesKept
<1>1. /\ Open' = Open /\ ServerClosed' = ServerClosed /\ closing' = closing
      /\ Recovered' = Recovered
      /\ started' = started /\ conn' = conn /\ faults' = faults
      /\ chan' = chan /\ e \in Owed
  BY DEF Check, Replace, Open, ServerClosed, Recovered, Owed, MayReplace, channels, registry,
     locals, stopVars
<1>2. CASE pc' = [pc EXCEPT ![e] = "stop"]
  <2>1. Check(e) /\ ShouldHalt /\ pc[e] = "check"
    BY <1>2 DEF Check, Replace
  <2>2. Cardinality(ServerClosed) > MaxFailures
    BY <2>1, CountedFinite DEF CountBounded, ShouldHalt
  <2>3. e \in ServerClosed
    BY <2>1 DEF OnlyTheServerCounts, ServerClosed
  <2>4. Halting' = TRUE
    BY <1>2 DEF Halting
  <2>5. Owed' = Owed \ {e}
    BY <1>1, <1>2 DEF Owed, MayReplace
  <2>6. Pool!Halt(e)
    <3> HIDE DEF PromiseInv, HaltInv, SlotInv, TypeInv, TypeOK, Thread, CallbackFollowsDeath,
             RolesKept
    <3>1. e \in Owed \cap ServerClosed
      BY <1>1, <2>3
    <3>2. Pool!Cardinality(ServerClosed) > MaxFailures
      BY <2>2, SameCardinality
    <3> QED
      BY <1>1, <2>4, <2>5, <3>1, <3>2 DEF Pool!Halt
  <2> QED
    BY <2>6 DEF Pool!Next
<1>3. CASE pc' = [pc EXCEPT ![e] = "done"]
  <2>1. closing
    BY <1>3 DEF Check, Replace
  <2>2. Halting = TRUE /\ Halting' = TRUE
    BY <1>1, <2>1 DEF Halting
  <2>3. Owed' = Owed \ {e}
    BY <1>1, <1>3 DEF Owed, MayReplace
  <2>4. Pool!GiveUp(e)
    BY <1>1, <2>2, <2>3 DEF Pool!GiveUp
  <2> QED
    BY <2>4 DEF Pool!Next
<1>4. CASE pc' # [pc EXCEPT ![e] = "stop"] /\ pc' # [pc EXCEPT ![e] = "done"]
  <2>1. \E label \in {"remove", "create"} : pc' = [pc EXCEPT ![e] = label]
    BY <1>4 DEF Check, Replace
  <2>2. pc[e] \in {"check", "replace"}
    BY DEF Check, Replace
  <2>3. Owed' = Owed /\ Halting' = Halting
    BY <1>1, <2>1, <2>2 DEF Owed, MayReplace, Halting
  <2> QED
    BY <1>1, <2>3 DEF Pool!vars
<1> QED
  BY <1>2, <1>3, <1>4

\* stop() of an Executor closes the one consumer that is open on its channel, if there is one.
LEMMA StopRefines ==
  ASSUME PromiseInv, NEW x \in Executor, Stop(x), Halting' = Halting,
         UNCHANGED <<of, conn, faults, started>>,
         \A e \in Executor : pc'[e] \in MayReplace <=> pc[e] \in MayReplace
  PROVE  [Pool!Next]_(Pool!vars)
<1> DEFINE es == {e \in Executor : of[e] = x}
<1>1. /\ Open' = Open \ (es \cap Open) /\ Owed' = Owed \cup (es \cap Open)
      /\ ServerClosed' = ServerClosed
  <2>1. Close(es, "pool") /\ es \in SUBSET Executor /\ "pool" # "server"
    BY DEF Stop
  <2> HIDE DEF es
  <2> QED
    BY <2>1, CloseUnsubscribes
<1>2. Recovered' = Recovered
  BY DEF Recovered
<1>3. CASE es \cap Open = {}
  BY <1>1, <1>2, <1>3 DEF Pool!vars
<1>4. CASE es \cap Open # {}
  <2>1. PICK e \in Executor : es \cap Open = {e}
    BY <1>4 DEF PromiseInv, ReturnInv, OneEach, Open
  <2>2. e \in Open
    BY <2>1
  <2>3. Pool!Die(e)
    BY <1>1, <1>2, <2>1, <2>2 DEF Pool!Die, Pool!Unsubscribe
  <2> QED
    BY <2>3 DEF Pool!Next
<1> QED
  BY <1>3, <1>4

\* The connection comes back.
LEMMA RestoredRefines ==
  ASSUME PromiseInv, ConnectionRestored
  PROVE  Pool!Recover
<1> USE DEF PromiseInv, HaltInv, SlotInv, TypeInv
<1>1. PICK back : RestoredBy(back)
  BY RestoredFacts
<1> DEFINE R == Range(back)
           D == {e \in Owed : of[e] \in Returning}
           g == [e \in D |-> back[of[e]]]
<1>2. /\ pc' = pc /\ cause' = cause /\ conn = "lost" /\ conn' = "up" /\ started' = started
      /\ faults' = faults /\ closing' = closing
  BY DEF ConnectionRestored, locals, stopVars
<1>3. back \in [Returning -> Fresh] /\ R \subseteq Fresh /\ R \subseteq Executor
  BY <1>1 DEF RestoredBy, Injection, Fresh
<1>4. \A e \in R : chan[e] = "none" /\ cause[e] = "none" /\ of[e] = e /\ of'[e] # e
  <2>1. \A e \in R : of'[e] \in Returning
    BY <1>1 DEF RestoredBy
  <2>2. \A x \in Returning : x \notin Fresh
    BY DEF Returning, Died, OwnersMade, Fresh
  <2> QED
    BY <1>3, <2>1, <2>2 DEF Fresh, OwnersMade, ClosedForACause
<1>5. R \in SUBSET (Executor \ (Open \cup Owed \cup ServerClosed \cup Recovered))
  BY <1>3, <1>4 DEF Open, Owed, ServerClosed, Recovered
<1>6. /\ Open' = Open \cup R /\ Owed' = Owed /\ ServerClosed' = ServerClosed
      /\ Recovered' = Recovered \cup R /\ Halting' = Halting
  BY <1>1, <1>2, <1>3, <1>4
     DEF RestoredBy, Open, Owed, ServerClosed, Recovered, Halting
<1>7. ASSUME ~Halting PROVE Cardinality(R) <= Cardinality(Owed)
  <2>1. \A x \in Returning : \E e \in D : of[e] = x
    BY <1>7 DEF Returning, Died, Owed, ReturnInv, StoppedFirst, BeforeStop, MayReplace
  <2>2. \A e \in D : of[e] \in Returning /\ back[of[e]] \in R
    BY <1>3 DEF Range
  <2>3. g \in [D -> R] /\ \A r \in R : \E e \in D : g[e] = r
    BY <1>3, <2>1, <2>2 DEF Range
  <2>4. g \in Surjection(D, R)
    BY <2>3 DEF Surjection
  <2>5. D \subseteq Owed /\ IsFiniteSet(Owed)
    BY PoolAssumption, FS_Subset DEF Owed
  <2> HIDE DEF R, D, g
  <2>6. IsFiniteSet(D) /\ Cardinality(D) <= Cardinality(Owed)
    BY <2>5, FS_Subset
  <2>7. IsFiniteSet(R) /\ Cardinality(R) <= Cardinality(D)
    BY <2>4, <2>6, FS_Surjection
  <2> QED
    BY <2>5, <2>6, <2>7, FS_CardinalityType
<1>8. Halting \/ Pool!Cardinality(R) <= Pool!Cardinality(Owed)
  <2> HIDE DEF R, D, g
  <2> QED
    BY <1>7, SameCardinality
<1> HIDE DEF R, D, g
<1> QED
  BY <1>2, <1>5, <1>6, <1>8 DEF Pool!Recover

\* The steps that close channels, and those of the connection.
LEMMA ClosingRefines ==
  ASSUME PromiseInv,
         \/ \E t \in Thread : Walk(t) \/ Kill(t)
         \/ \E e \in Executor : StopOwn(e) \/ ServerClose(e) \/ DeliveryThrows(e)
         \/ ConnectionLost \/ ConnectionRestored
  PROVE  [Pool!Next]_(Pool!vars)
<1> USE PoolAssumption DEF PromiseInv, HaltInv, SlotInv, TypeInv, TypeOK, Thread, Goto
<1>1. ASSUME NEW t \in Thread, Walk(t) PROVE [Pool!Next]_(Pool!vars)
  <2>1. /\ started' = started /\ conn' = conn /\ faults' = faults /\ closing' = closing
        /\ of' = of /\ pc[t] = "walk"
    BY <1>1 DEF Walk, locals
  <2>2. CASE walk = Null
    <3>1. Unseen
      BY <1>1, <2>1, <2>2 DEF Walk, Unseen, MayReplace, Halting
    <3> QED
      BY <3>1, UnseenStutters
  <2>3. CASE walk # Null
    <3>1. walk \in Executor /\ Stop(walk) /\ pc' = pc /\ Halting' = Halting
      BY <1>1, <2>1, <2>3 DEF Walk, Halting
    <3> QED
      BY <2>1, <3>1, StopRefines
  <2> QED
    BY <2>2, <2>3
<1>6. ASSUME NEW e \in Executor, StopOwn(e) PROVE [Pool!Next]_(Pool!vars)
  <2>1. /\ of[e] \in Executor /\ Stop(of[e]) /\ Halting' = Halting
        /\ UNCHANGED <<of, conn, faults, started>>
        /\ \A d \in Executor : pc'[d] \in MayReplace <=> pc[d] \in MayReplace
    BY <1>6 DEF StopOwn, Halting, MayReplace, locals, stopVars
  <2> QED
    BY <2>1, StopRefines
<1>2. ASSUME NEW t \in Thread, Kill(t) PROVE [Pool!Next]_(Pool!vars)
  <2>1. /\ started' = started /\ faults' = faults /\ closing' = closing /\ Recovered' = Recovered
        /\ pc[t] = "kill" /\ pc' = [pc EXCEPT ![t] = "done"]
    BY <1>2 DEF Kill, Recovered, locals, stopVars, registry
  <2>2. Halting' = Halting /\ \A e \in Executor : pc'[e] \in MayReplace <=> pc[e] \in MayReplace
    BY <2>1 DEF Halting, MayReplace
  <2>3. CASE conn' = "aborted" /\ Close(Executor, "pool")
    <3>1. \A e \in Open : pc[e] = "idle" /\ cause[e] = "none"
      BY DEF Open, CallbackFollowsDeath, ClosedForACause
    <3>2. Open' = {} /\ ServerClosed' = ServerClosed
      BY <2>3, <3>1 DEF Close, Open, ServerClosed
    <3>3. Owed' = Owed \cup Open
      BY <2>2, <2>3, <3>1 DEF Close, Open, Owed, MayReplace
    <3>4. Halting
      BY <2>1 DEF ClosingFirst, Halting
    <3>5. Pool!Abort
      BY <2>1, <2>2, <2>3, <3>2, <3>3, <3>4 DEF Pool!Abort, Pool!Unsubscribe
    <3> QED
      BY <3>5 DEF Pool!Next
  <2>4. CASE UNCHANGED <<conn, chan, cause>>
    <3>1. Unseen
      BY <1>2, <2>1, <2>2, <2>4 DEF Unseen, Kill, registry
    <3> QED
      BY <3>1, UnseenStutters
  <2> QED
    BY <1>2, <2>3, <2>4 DEF Kill
<1>3. ASSUME NEW e \in Executor, ServerClose(e) \/ DeliveryThrows(e)
      PROVE  [Pool!Next]_(Pool!vars)
  <2>1. /\ started' = started /\ faults' = faults /\ conn' = conn /\ Halting' = Halting
        /\ pc' = pc /\ e \in Open /\ Recovered' = Recovered
    BY <1>3 DEF ServerClose, DeliveryThrows, Halting, Open, Recovered, locals, stopVars, registry
  <2>2. Close({e}, "server") \/ Close({e}, "exception")
    BY <1>3 DEF ServerClose, DeliveryThrows
  <2>3. /\ Open' = Open \ {e} /\ Owed' = Owed \cup {e}
        /\ ServerClosed' \in {ServerClosed, ServerClosed \cup {e}}
    <3>1. {e} \cap Open = {e} /\ {e} \in SUBSET Executor
      BY <2>1
    <3>2. CASE Close({e}, "server")
      BY <2>1, <3>1, <3>2, CloseUnsubscribes
    <3>3. CASE Close({e}, "exception")
      BY <2>1, <3>1, <3>3, CloseUnsubscribes
    <3> QED
      BY <2>2, <3>2, <3>3
  <2>4. Pool!Die(e)
    BY <2>1, <2>3 DEF Pool!Die, Pool!Unsubscribe
  <2> QED
    BY <2>4 DEF Pool!Next
<1>4. CASE ConnectionLost
  <2>1. /\ conn = "up" /\ conn' = "lost" /\ faults' = faults + 1 /\ Close(Executor, "server")
        /\ pc' = pc /\ started' = started /\ Halting' = Halting /\ Recovered' = Recovered
    BY <1>4 DEF ConnectionLost, Halting, Recovered, locals, stopVars, registry
  <2>2. Executor \cap Open = Open
    BY DEF Open
  <2>3. /\ Open' = Open \ Open /\ Owed' = Owed \cup Open
        /\ ServerClosed' = ServerClosed \cup Open
    BY <2>1, <2>2, CloseUnsubscribes
  <2>4. Pool!Lose
    BY <2>1, <2>3 DEF Pool!Lose, Pool!Unsubscribe
  <2> QED
    BY <2>4 DEF Pool!Next
<1>5. CASE ConnectionRestored
  BY <1>5, RestoredRefines DEF Pool!Next
<1> QED
  BY <1>1, <1>2, <1>3, <1>4, <1>5, <1>6

LEMMA PoolRefines == PromiseInv /\ [Next]_vars => [Pool!Next]_(Pool!vars)
<1> SUFFICES ASSUME PromiseInv, [Next]_vars PROVE [Pool!Next]_(Pool!vars)
  OBVIOUS
<1>1. ASSUME NEW t \in Thread, Create(t) PROVE [Pool!Next]_(Pool!vars)
  BY <1>1, CreateRefines
<1>2. ASSUME NEW e \in Executor, Check(e) \/ Replace(e) PROVE [Pool!Next]_(Pool!vars)
  BY <1>2, DecisionRefines
<1>3. CASE \/ \E t \in Thread : Walk(t) \/ Kill(t)
           \/ \E e \in Executor : StopOwn(e) \/ ServerClose(e) \/ DeliveryThrows(e)
           \/ ConnectionLost \/ ConnectionRestored
  BY <1>3, ClosingRefines
<1>4. CASE CallStop
  <2>1. /\ started = PoolSize /\ Halting' = TRUE /\ pc' = [pc EXCEPT ![Stopper] = "stop"]
        /\ UNCHANGED <<chan, cause, of, conn, faults, started>>
    BY <1>4, PoolAssumption DEF CallStop, Goto, Halting, PromiseInv, HaltInv, SlotInv, TypeInv,
       TypeOK, Thread, ClosingFirst, channels, registry, locals
  <2>2. Owed' = Owed /\ Open' = Open /\ ServerClosed' = ServerClosed /\ Recovered' = Recovered
    BY <2>1, PoolAssumption DEF Owed, Open, ServerClosed, Recovered, PromiseInv, HaltInv, SlotInv,
       TypeInv, TypeOK, Thread
  <2>3. Pool!Stop
    BY <2>1, <2>2 DEF Pool!Stop
  <2> QED
    BY <2>3 DEF Pool!Next
<1>5. ASSUME \/ \E t \in Thread :
                  \/ AddTest(t) \/ AddFirst(t) \/ AddLast(t) \/ AddLink(t) \/ AddTail(t)
                  \/ StopEnter(t) \/ DetachHead(t) \/ DetachTail(t)
             \/ \E e \in Executor :
                  \/ OnConsumerShutdown(e) \/ MarkRead(e) \/ MarkWrite(e) \/ RemoveTest(e)
                  \/ RemoveTailTest(e) \/ UnlinkHead(e) \/ UnlinkTail(e) \/ CutTail(e)
                  \/ UnlinkMid(e)
             \/ UNCHANGED vars
      PROVE  Unseen
  <2> USE PoolAssumption DEF PromiseInv, HaltInv, SlotInv, TypeInv, TypeOK, StartGoesOn, Thread,
          Goto, RolesKept, Unseen, MayReplace, Halting, channels, registry, list, stopVars,
          locals, counts
  <2>1. ASSUME NEW t \in Thread, AddTest(t) PROVE Unseen
    BY <2>1 DEF AddTest
  <2>2. ASSUME NEW t \in Thread, AddFirst(t) PROVE Unseen
    BY <2>2 DEF AddFirst
  <2>3. ASSUME NEW t \in Thread, AddLast(t) PROVE Unseen
    BY <2>3 DEF AddLast
  <2>4. ASSUME NEW t \in Thread, AddLink(t) PROVE Unseen
    BY <2>4 DEF AddLink
  <2>5. ASSUME NEW t \in Thread, AddTail(t) PROVE Unseen
    BY <2>5 DEF AddTail
  <2>6. ASSUME NEW t \in Thread, StopEnter(t) PROVE Unseen
    BY <2>6 DEF StopEnter
  <2>7. ASSUME NEW t \in Thread, DetachHead(t) PROVE Unseen
    BY <2>7 DEF DetachHead
  <2>8. ASSUME NEW t \in Thread, DetachTail(t) PROVE Unseen
    BY <2>8 DEF DetachTail
  <2>9. ASSUME NEW e \in Executor, OnConsumerShutdown(e) PROVE Unseen
    BY <2>9 DEF OnConsumerShutdown
  <2>10. ASSUME NEW e \in Executor, MarkRead(e) PROVE Unseen
    BY <2>10 DEF MarkRead
  <2>11. ASSUME NEW e \in Executor, MarkWrite(e) PROVE Unseen
    BY <2>11 DEF MarkWrite
  <2>12. ASSUME NEW e \in Executor, RemoveTest(e) \/ RemoveTailTest(e) PROVE Unseen
    BY <2>12 DEF RemoveTest, RemoveTailTest
  <2>13. ASSUME NEW e \in Executor, UnlinkHead(e) PROVE Unseen
    BY <2>13 DEF UnlinkHead
  <2>14. ASSUME NEW e \in Executor, UnlinkTail(e) \/ CutTail(e) PROVE Unseen
    BY <2>14 DEF UnlinkTail, CutTail, SetLink
  <2>15. ASSUME NEW e \in Executor, UnlinkMid(e) PROVE Unseen
    BY <2>15 DEF UnlinkMid
  <2>16. CASE UNCHANGED vars
    BY <2>16 DEF vars
  <2> QED
    BY <1>5, <2>1, <2>2, <2>3, <2>4, <2>5, <2>6, <2>7, <2>8, <2>9, <2>10, <2>11, <2>12,
       <2>13, <2>14, <2>15, <2>16
<1> QED
  BY <1>1, <1>2, <1>3, <1>4, <1>5, UnseenStutters
     DEF Next, Environment, Adding, Stopping, Callback

\* The pool keeps the promise of ConsumerPool: whatever callbacks, start() and shutdowns
\* interleave, onConsumerShutdown() answers each death by one replacement, unless a shutdown
\* has been ordered or the new one cannot be subscribed (JobQueueExecutorPool.kt:21,
\* 178-200).  A connection that comes back before the callbacks of the dead brings back no
\* more consumers than are still to be replaced; they die and are replaced like the others.
THEOREM KeepsItsPromise == Spec => ReplacesItsDead
<1>1. Init => PromiseInv
  BY HaltInit, ClosingInit, ReturnInit DEF PromiseInv
<1>2. PromiseInv /\ [Next]_vars => PromiseInv'
  BY HaltStep, ClosingStep, ReturnStep DEF PromiseInv, HaltInv
<1>3. Init => Pool!Init
  BY PoolAssumption DEF Init, Pool!Init, Open, Owed, ServerClosed, Recovered, Halting, Thread
<1> QED
  BY <1>1, <1>2, <1>3, PoolRefines, PTL DEF Spec, ReplacesItsDead, Pool!Spec
-----------------------------------------------------------------------------
(* No consumer goes missing: a corollary of the promise.                   *)

InPool == Open \cup Owed

\* Faults aside, all that start() has subscribed are subscribed or owed until a shutdown
\* is ordered; and there are never more, but for those that have come back.
NoneMissing ==
  /\ Cardinality(InPool) <= started + Cardinality(Recovered)
  /\ faults = 0 /\ ~Halting => Cardinality(InPool) = started

LostIsFault == conn = "lost" => faults # 0

LEMMA InPoolFinite ==
  /\ IsFiniteSet(InPool) /\ Cardinality(InPool) \in Nat
  /\ IsFiniteSet(InPool') /\ Cardinality(InPool') \in Nat
  /\ IsFiniteSet(Recovered) /\ Cardinality(Recovered) \in Nat
<1>1. /\ InPool \subseteq Executor /\ InPool' \subseteq Executor /\ Recovered \subseteq Executor
      /\ IsFiniteSet(Executor)
  BY PoolAssumption DEF InPool, Open, Owed, Recovered
<1> QED
  BY <1>1, FS_Subset, FS_CardinalityType

LEMMA NoneMissingStep ==
  ASSUME TypeOK, NoneMissing, LostIsFault, [Pool!Next]_(Pool!vars)
  PROVE  NoneMissing' /\ LostIsFault'
<1>1. started \in Nat /\ faults \in Nat
  BY PoolAssumption DEF TypeOK
<1>2. Open \cap Owed = {}
  BY DEF Open, Owed
<1> DEFINE n == Cardinality(InPool)
           m == Cardinality(InPool')
           r == Cardinality(Recovered)
           q == Cardinality(Recovered')
<1>3. n \in Nat /\ m \in Nat /\ r \in Nat
  BY InPoolFinite
<1> USE <1>1, <1>3 DEF NoneMissing, LostIsFault
<1>4. ASSUME NEW c \in Executor, Pool!Start(c) PROVE NoneMissing' /\ LostIsFault'
  <2>1. InPool' = InPool \cup {c} /\ c \notin InPool
    BY <1>4 DEF Pool!Start, Pool!Subscribe, InPool
  <2>2. m = n + 1
    BY <2>1, InPoolFinite, FS_AddElement
  <2>3. started' = started + 1 /\ UNCHANGED <<Halting, conn, faults, Recovered>>
    BY <1>4 DEF Pool!Start, Pool!Subscribe
  <2> HIDE DEF n, m, r, q
  <2> QED
    BY <2>2, <2>3 DEF n, m, r, q
<1>5. ASSUME NEW d \in Executor, NEW c \in Executor, Pool!Replace(d, c)
      PROVE  NoneMissing' /\ LostIsFault'
  <2>1. /\ InPool' = (InPool \ {d}) \cup {c} /\ d \in InPool /\ c \notin InPool
    BY <1>2, <1>5 DEF Pool!Replace, Pool!Subscribe, InPool
  <2>2. IsFiniteSet(InPool \ {d}) /\ Cardinality(InPool \ {d}) = n - 1
    BY <2>1, InPoolFinite, FS_RemoveElement
  <2>3. m = n - 1 + 1
    BY <2>1, <2>2, FS_AddElement
  <2>4. UNCHANGED <<started, Halting, conn, faults, Recovered>>
    BY <1>5 DEF Pool!Replace, Pool!Subscribe
  <2> HIDE DEF n, m, r, q
  <2> QED
    BY <2>3, <2>4 DEF n, m, r, q
<1>6. ASSUME NEW d \in Executor, Pool!GiveUp(d) \/ Pool!Halt(d) PROVE NoneMissing' /\ LostIsFault'
  <2>1. InPool' = InPool \ {d} /\ d \in InPool
    BY <1>2, <1>6 DEF Pool!GiveUp, Pool!Halt, InPool
  <2>2. m = n - 1
    BY <2>1, InPoolFinite, FS_RemoveElement
  <2>3. /\ UNCHANGED <<started, conn, Recovered>> /\ faults' \in {faults, faults + 1}
        /\ Halting' \/ conn = "lost" \/ faults' = faults + 1
    BY <1>6 DEF Pool!GiveUp, Pool!Halt
  <2> HIDE DEF n, m, r, q
  <2> QED
    BY <2>2, <2>3 DEF n, m, r, q
<1>7. ASSUME NEW c \in Executor, Pool!Die(c) PROVE NoneMissing' /\ LostIsFault'
  <2>1. InPool' = InPool /\ Recovered' = Recovered
    BY <1>7 DEF Pool!Die, Pool!Unsubscribe, InPool
  <2> QED
    BY <1>7, <2>1 DEF Pool!Die, Pool!Unsubscribe
<1>8. CASE Pool!Lose \/ Pool!Abort
  <2>1. InPool' = InPool /\ started' = started /\ Recovered' = Recovered
    BY <1>8 DEF Pool!Lose, Pool!Abort, Pool!Unsubscribe, InPool
  <2>2. \/ faults' = faults + 1
        \/ Halting' /\ conn' = "aborted"
    BY <1>8 DEF Pool!Lose, Pool!Abort, Pool!Unsubscribe
  <2> QED
    BY <2>1, <2>2
<1>9. CASE Pool!Refuse \/ Pool!Stop \/ UNCHANGED Pool!vars
  <2>1. InPool' = InPool /\ started' = started /\ Recovered' = Recovered
    BY <1>9 DEF Pool!Refuse, Pool!Stop, Pool!vars, InPool
  <2>2. \/ faults' = faults + 1
        \/ UNCHANGED <<faults, conn>> /\ (Halting' \/ Halting' = Halting)
    BY <1>9 DEF Pool!Refuse, Pool!Stop, Pool!vars
  <2> QED
    BY <2>1, <2>2
<1>10. CASE Pool!Recover
  <2>1. PICK R \in SUBSET (Executor \ (Open \cup Owed \cup ServerClosed \cup Recovered)) :
          Open' = Open \cup R /\ Recovered' = Recovered \cup R
    BY <1>10 DEF Pool!Recover
  <2>2. InPool' = InPool \cup R /\ InPool \cap R = {} /\ Recovered \cap R = {}
    BY <1>10, <2>1 DEF Pool!Recover, InPool
  <2>3. IsFiniteSet(R) /\ Cardinality(R) \in Nat /\ Cardinality({}) = 0
    BY <2>1, PoolAssumption, FS_Subset, FS_CardinalityType, FS_EmptySet
  <2>4. m = n + Cardinality(R) - 0
    BY <2>2, <2>3, InPoolFinite, FS_Union
  <2>5. q = r + Cardinality(R) - 0
    BY <2>1, <2>2, <2>3, InPoolFinite, FS_Union
  <2>6. started' = started /\ faults' = faults /\ faults # 0 /\ conn' = "up"
    BY <1>10 DEF Pool!Recover
  <2> HIDE DEF n, m, r, q
  <2> QED
    BY <2>3, <2>4, <2>5, <2>6 DEF n, m, r, q
<1> QED
  BY <1>4, <1>5, <1>6, <1>7, <1>8, <1>9, <1>10 DEF Pool!Next

\* Until a shutdown is ordered, and while no connection is lost and no subscription
\* refused, every consumer that start() made is subscribed or has a callback, under way or to
\* come, that will replace it: none is forgotten between remove() and add(), or replaced twice.
THEOREM NeverShort == Spec => []NoneMissing
<1>1. Init => PromiseInv /\ NoneMissing /\ LostIsFault
  <2> SUFFICES ASSUME Init PROVE PromiseInv /\ NoneMissing /\ LostIsFault
    OBVIOUS
  <2>1. PromiseInv
    BY HaltInit, ClosingInit, ReturnInit DEF PromiseInv
  <2>2. InPool = {} /\ started = 0 /\ conn = "up"
    BY DEF Init, InPool, Open, Owed
  <2> QED
    BY <2>1, <2>2, FS_EmptySet, InPoolFinite DEF NoneMissing, LostIsFault
<1>2. PromiseInv /\ [Next]_vars => PromiseInv'
  BY HaltStep, ClosingStep, ReturnStep DEF PromiseInv, HaltInv
<1>3. PromiseInv /\ NoneMissing /\ LostIsFault /\ [Next]_vars => NoneMissing' /\ LostIsFault'
  BY PoolRefines, NoneMissingStep DEF PromiseInv, HaltInv, SlotInv, TypeInv
<1> QED
  BY <1>1, <1>2, <1>3, PTL DEF Spec
=============================================================================
