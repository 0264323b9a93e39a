----------------------- MODULE ScrollingCounterProofs -----------------------
(***************************************************************************)
(* The counter is at fault only where callbacks overlap: as long as one    *)
(* thread at a time is inside markFailure() and shouldHalt(), as a lock    *)
(* around them would have it, the pool never halts without cause.          *)
(***************************************************************************)
EXTENDS ScrollingCounter, SequenceTheorems, TLAPS

\* max is a non-negative Int, and UInt is as wide as Int.
CounterBounds == Max \in Nat /\ Width \in Nat /\ 2 * Max < 2^Width

\* A thread is inside inc() or count().
Inside(t) == pc[t] \notin {"idle", "halted", "threw"}

OneAtATime == \A t, u \in Thread : Inside(t) /\ Inside(u) => t = u

-----------------------------------------------------------------------------
Label == {"idle", "grow", "grown", "begin", "count", "pop", "shrink", "shrunk", "compare",
          "halted", "threw"}

CounterTyped ==
  /\ now \in Nat
  /\ entries \in Seq(Nat) /\ failures \in Seq(Nat)
  /\ size \in Int
  /\ pc \in [Thread -> Label]
  /\ read \in [Thread -> Int]

\* Between the linking of a node and the writing of `size`, the size is behind; between
\* the unlinking and the writing it is ahead; at all other times it is right.
SizeRight ==
  /\ \A t \in Thread : pc[t] \in {"grow", "grown"} => size = Len(entries) - 1
  /\ \A t \in Thread : pc[t] \in {"shrink", "shrunk"} => size = Len(entries) + 1
  /\ (\A t \in Thread : pc[t] \notin {"grow", "grown", "shrink", "shrunk"})
       => size = Len(entries)
  /\ \A t \in Thread : pc[t] \in {"grown", "shrunk"} => read[t] = size

\* What is about to be popped is there, so that neither getFirst() nor pop() throws.
PopFinds == \A t \in Thread : (pc[t] = "pop" => entries # <<>>) /\ pc[t] # "threw"

CounterInv ==
  /\ CounterTyped
  /\ SizeRight
  /\ PopFinds
  /\ Len(entries) <= Len(failures)
  /\ HaltsOnlyWhenExceeded

LEMMA CounterInit == Init => CounterInv
BY DEF Init, CounterInv, CounterTyped, Label, SizeRight, PopFinds, HaltsOnlyWhenExceeded

\* The conversion to UInt only makes a count smaller.
LEMMA UnsignedCount ==
  ASSUME CounterBounds, NEW n \in Nat
  PROVE  ToUInt(n) <= n
<1> DEFINE u == 2^Width
<1>1. u \in Nat \ {0}
  BY DEF CounterBounds
<1> HIDE DEF u
<1>2. n % u <= n
  BY <1>1
<1> QED
  BY <1>2 DEF ToUInt, u

\* The steps of thread t while it is alone inside.
LEMMA CounterStepAlone ==
  ASSUME CounterBounds, CounterInv, NEW t \in Thread,
         \A v \in Thread : Inside(v) => v = t,
         \/ Offer(t) \/ Begin(t) \/ Count(t) \/ Pop(t) \/ Compare(t)
         \/ ReadSize(t, "grow", "grown") \/ WriteSize(t, "grown", 1, "begin")
         \/ ReadSize(t, "shrink", "shrunk") \/ WriteSize(t, "shrunk", -1, "count")
  PROVE  CounterInv'
<1> USE DEF CounterInv, CounterTyped, Label, Inside, Goto
<1>1. Len(entries) \in Nat /\ Len(failures) \in Nat
  OBVIOUS
<1>o. \A v \in Thread \ {t} : pc[v] \in {"idle", "halted", "threw"}
  OBVIOUS
<1>2. CASE Offer(t)
  <2>1. /\ Len(entries') = Len(entries) + 1 /\ Len(failures') = Len(failures) + 1
        /\ entries' \in Seq(Nat) /\ failures' \in Seq(Nat)
    BY <1>2 DEF Offer
  <2>2. size = Len(entries)
    BY <1>2 DEF Offer, SizeRight
  <2>3. SizeRight'
    BY <1>1, <1>2, <2>1, <2>2 DEF Offer, SizeRight
  <2>4. PopFinds'
    BY <1>2 DEF Offer, PopFinds
  <2>5. HaltsOnlyWhenExceeded'
    BY <1>1, <1>2, <2>1 DEF Offer, HaltsOnlyWhenExceeded, CounterBounds
  <2>6. CounterTyped'
    BY <1>2, <2>1 DEF Offer
  <2> QED
    BY <1>1, <2>1, <2>3, <2>4, <2>5, <2>6
<1>3. CASE Begin(t) \/ ReadSize(t, "grow", "grown") \/ WriteSize(t, "grown", 1, "begin")
           \/ ReadSize(t, "shrink", "shrunk") \/ WriteSize(t, "shrunk", -1, "count")
  <2> DEFINE s == Len(entries)
  <2>1. entries' = entries /\ failures' = failures /\ now' = now
    BY <1>3 DEF Begin, ReadSize, WriteSize
  <2>2. \/ pc[t] = "begin" /\ pc' = [pc EXCEPT ![t] = "count"] /\ size' = size /\ size = s
           /\ read' = read
        \/ pc[t] = "grow" /\ pc' = [pc EXCEPT ![t] = "grown"] /\ size' = size /\ size = s - 1
           /\ read' = [read EXCEPT ![t] = size]
        \/ pc[t] = "shrink" /\ pc' = [pc EXCEPT ![t] = "shrunk"] /\ size' = size
           /\ size = s + 1 /\ read' = [read EXCEPT ![t] = size]
        \/ pc[t] = "grown" /\ pc' = [pc EXCEPT ![t] = "begin"] /\ size' = s /\ read' = read
        \/ pc[t] = "shrunk" /\ pc' = [pc EXCEPT ![t] = "count"] /\ size' = s /\ read' = read
    <3>1. CASE Begin(t)
      BY <1>o, <3>1 DEF Begin, SizeRight
    <3>2. CASE ReadSize(t, "grow", "grown")
      BY <1>o, <3>2 DEF ReadSize, SizeRight
    <3>3. CASE ReadSize(t, "shrink", "shrunk")
      BY <1>o, <3>3 DEF ReadSize, SizeRight
    <3>4. CASE WriteSize(t, "grown", 1, "begin")
      <4>1. pc[t] = "grown" /\ read[t] = s - 1
        BY <3>4 DEF WriteSize, SizeRight
      <4> QED
        BY <1>1, <3>4, <4>1 DEF WriteSize
    <3>5. CASE WriteSize(t, "shrunk", -1, "count")
      <4>1. pc[t] = "shrunk" /\ read[t] = s + 1
        BY <3>5 DEF WriteSize, SizeRight
      <4>2. size' = read[t] + (-1)
        BY <3>5 DEF WriteSize
      <4>3. size' = s
        BY <1>1, <4>1, <4>2
      <4> QED
        BY <3>5, <4>1, <4>3 DEF WriteSize
    <3> QED
      BY <1>3, <3>1, <3>2, <3>3, <3>4, <3>5
  <2>3. s' = s /\ s \in Nat
    BY <1>1, <2>1
  <2> HIDE DEF s
  <2>4. CounterTyped'
    <3>1. size' \in Int
      BY <2>2, <2>3
    <3>2. pc' \in [Thread -> Label]
      BY <2>2
    <3>3. read' \in [Thread -> Int]
      BY <2>2
    <3> QED
      BY <2>1, <3>1, <3>2, <3>3
  <2>5. SizeRight'
    <3> USE DEF SizeRight
    <3>1. /\ \A v \in Thread : pc'[v] \in {"grow", "grown"} => v = t
          /\ \A v \in Thread : pc'[v] \in {"shrink", "shrunk"} => v = t
      BY <1>o, <2>2
    <3>2. /\ pc'[t] \in {"grow", "grown"} => size' = s - 1
          /\ pc'[t] \in {"shrink", "shrunk"} => size' = s + 1
          /\ pc'[t] \notin {"grow", "grown", "shrink", "shrunk"} => size' = s
          /\ pc'[t] \in {"grown", "shrunk"} => read'[t] = size'
      BY <2>2
    <3> QED
      BY <2>3, <3>1, <3>2 DEF s
  <2>6. PopFinds' /\ HaltsOnlyWhenExceeded'
    BY <2>1, <2>2 DEF PopFinds, HaltsOnlyWhenExceeded
  <2> QED
    BY <2>1, <2>4, <2>5, <2>6
<1>4. CASE Count(t)
  <2>1. pc[t] = "count" /\ size = Len(entries)
    BY <1>4 DEF Count, SizeRight
  <2>2. size # 0 => entries # <<>>
    BY <2>1
  <2>3. SizeRight'
    BY <1>4, <2>1 DEF Count, SizeRight
  <2>4. PopFinds' /\ HaltsOnlyWhenExceeded'
    BY <1>4, <2>2 DEF Count, PopFinds, HaltsOnlyWhenExceeded
  <2>5. CounterTyped'
    BY <1>4 DEF Count
  <2> QED
    BY <1>4, <2>3, <2>4, <2>5 DEF Count
<1>5. CASE Pop(t)
  <2>1. pc[t] = "pop" /\ size = Len(entries) /\ entries # <<>>
    BY <1>5 DEF Pop, SizeRight, PopFinds
  <2>2. /\ entries' = Tail(entries) /\ pc' = [pc EXCEPT ![t] = "shrink"]
        /\ UNCHANGED <<now, size, read, failures>>
    BY <1>5, <2>1 DEF Pop
  <2>3. entries' \in Seq(Nat) /\ Len(entries') = Len(entries) - 1
    BY <2>1, <2>2
  <2>4. SizeRight'
    BY <1>1, <1>o, <2>1, <2>2, <2>3 DEF SizeRight
  <2>5. PopFinds' /\ HaltsOnlyWhenExceeded'
    BY <1>o, <2>1, <2>2 DEF PopFinds, HaltsOnlyWhenExceeded
  <2> QED
    BY <1>1, <2>2, <2>3, <2>4, <2>5
<1>6. CASE Compare(t)
  <2>1. pc[t] = "compare" /\ size = Len(entries)
    BY <1>6 DEF Compare, SizeRight
  <2>2. ToUInt(size) \in Int /\ ToUInt(size) <= Len(failures)
    <3>1. ToUInt(size) <= size
      BY <1>1, <2>1, UnsignedCount
    <3>2. ToUInt(size) \in Int
      BY <1>1, <2>1 DEF ToUInt, CounterBounds
    <3> QED
      BY <1>1, <2>1, <3>1, <3>2
  <2>3. HaltsOnlyWhenExceeded'
    BY <1>1, <1>6, <2>2 DEF Compare, HaltsOnlyWhenExceeded, CounterBounds
  <2>4. SizeRight' /\ PopFinds'
    BY <1>6, <2>1 DEF Compare, SizeRight, PopFinds
  <2>5. CounterTyped'
    BY <1>6 DEF Compare
  <2> QED
    BY <1>6, <2>3, <2>4, <2>5 DEF Compare
<1> QED
  BY <1>2, <1>3, <1>4, <1>5, <1>6

LEMMA CounterStep ==
  ASSUME CounterBounds, CounterInv, OneAtATime, OneAtATime', [Next]_vars
  PROVE  CounterInv'
<1>1. CASE Tick
  BY <1>1 DEF Tick, CounterInv, CounterTyped, SizeRight, PopFinds, HaltsOnlyWhenExceeded
<1>2. ASSUME NEW t \in Thread,
             \/ Offer(t) \/ Begin(t) \/ Count(t) \/ Pop(t) \/ Compare(t)
             \/ ReadSize(t, "grow", "grown") \/ WriteSize(t, "grown", 1, "begin")
             \/ ReadSize(t, "shrink", "shrunk") \/ WriteSize(t, "shrunk", -1, "count")
      PROVE  CounterInv'
  <2>1. /\ Inside(t) \/ Inside(t)'
        /\ \A v \in Thread \ {t} : pc'[v] = pc[v]
    BY <1>2 DEF Offer, Begin, Count, Pop, Compare, ReadSize, WriteSize, Goto, Inside, CounterInv,
       CounterTyped, Label
  <2>2. \A v \in Thread : Inside(v) => v = t
    BY <2>1 DEF OneAtATime, Inside
  <2> QED
    BY <1>2, <2>2, CounterStepAlone
<1>3. CASE UNCHANGED vars
  BY <1>3 DEF vars, CounterInv, CounterTyped, SizeRight, PopFinds, HaltsOnlyWhenExceeded
<1> QED
  BY <1>1, <1>2, <1>3 DEF Next

\* While callbacks do not overlap, shouldHalt() (ScrollingCounter.kt:16-24, compared with
\* maxFailures as UInt) is true only after more than Max failures, and neither getFirst()
\* nor pop() throws: what the run counter_race finds takes two callbacks at once.
THEOREM HaltsForCauseOneAtATime ==
  ASSUME CounterBounds
  PROVE  Spec /\ []OneAtATime
           => [](HaltsOnlyWhenExceeded /\ \A t \in Thread : pc[t] # "threw")
<1>1. CounterInv /\ OneAtATime /\ OneAtATime' /\ [Next]_vars => CounterInv'
  BY CounterStep
<1>2. CounterInv => HaltsOnlyWhenExceeded /\ \A t \in Thread : pc[t] # "threw"
  BY DEF CounterInv, PopFinds
<1> QED
  BY <1>1, <1>2, CounterInit, PTL DEF Spec
=============================================================================
