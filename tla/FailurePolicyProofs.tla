------------------------- MODULE FailurePolicyProofs -------------------------
(***************************************************************************)
(* Proofs about FailurePolicy, for every list of policies: its type, that  *)
(* the pruned entries give the answers that the whole history would, and   *)
(* when reason() may throw.                                                *)
(***************************************************************************)
EXTENDS FailurePolicy, FiniteSetTheorems, TLAPS

\* What the other proofs use of the constants.
LEMMA Limits == MaxTime \in Nat /\ MaxFailures \in Nat /\ MaxAdjust \in Nat
BY PolicyAssumption DEF PolicyAssumption

\* count() takes the entries before the first that has not expired, and nothing else.
LEMMA RemainingSuffix ==
  ASSUME NEW p \in Enforcer, entries[p] \in Seq(Int)
  PROVE  /\ Remaining(p) \in Seq(Int)
         /\ \E c \in 0..Len(entries[p]) :
              /\ Len(Remaining(p)) = Len(entries[p]) - c
              /\ \A i \in 1..Len(Remaining(p)) : Remaining(p)[i] = entries[p][c + i]
              /\ \A i \in 1..c : Expired(p, entries[p][i])
              /\ c < Len(entries[p]) => ~Expired(p, entries[p][c + 1])
<1> DEFINE n == Len(entries[p])
           popped == {k \in 1..n : \A i \in 1..k : Expired(p, entries[p][i])}
           c == Cardinality(popped)
<1>1. n \in Nat
  OBVIOUS
<1>2. /\ IsFiniteSet(1..n) /\ Cardinality(1..n) = n /\ popped \subseteq 1..n
  BY <1>1, FS_Interval, SMT
<1>3. IsFiniteSet(popped) /\ c \in Nat /\ c <= n
  BY <1>2, FS_Subset, FS_CardinalityType
<1>4. ASSUME NEW k \in popped PROVE k <= c
  <2>1. k \in Nat /\ k >= 1 /\ 1..k \subseteq popped
    BY <1>1, SMT
  <2>2. Cardinality(1..k) = k
    BY <2>1, FS_Interval, SMT
  <2>3. Cardinality(1..k) <= c
    BY <1>3, <2>1, FS_Subset
  <2> QED  BY <2>2, <2>3
<1>5. popped = 1..c
  <2> HIDE DEF c
  <2>1. popped \subseteq 1..c
    BY <1>2, <1>3, <1>4, SMT
  <2>2. IsFiniteSet(1..c) /\ Cardinality(1..c) = c
    BY <1>3, FS_Interval, SMT
  <2>3. Cardinality(popped) = c
    BY DEF c
  <2> QED  BY <2>1, <2>2, <2>3, FS_Subset
<1>6. \A i \in 1..c : Expired(p, entries[p][i])
  <2>1. \A k \in popped : Expired(p, entries[p][k])
    BY <1>1, SMT
  <2> QED  BY <1>5, <2>1
<1>7. ASSUME c < n PROVE ~Expired(p, entries[p][c + 1])
  <2>0. \A k \in 1..n : k \notin popped => \E i \in 1..k : ~Expired(p, entries[p][i])
    OBVIOUS
  <2> HIDE DEF popped, c
  <2>1. c + 1 \in 1..n /\ c + 1 \notin popped
    BY <1>3, <1>5, <1>7, SMT
  <2>2. PICK i \in 1..(c + 1) : ~Expired(p, entries[p][i])
    BY <2>0, <2>1
  <2>3. i = c + 1
    BY <1>3, <1>6, <2>2, SMT
  <2> QED  BY <2>2, <2>3
<1>8. Remaining(p) = SubSeq(entries[p], c + 1, n)
  BY DEF Remaining
<1> HIDE DEF popped, c
<1>9. /\ Remaining(p) \in Seq(Int) /\ Len(Remaining(p)) = n - c
      /\ \A i \in 1..Len(Remaining(p)) : Remaining(p)[i] = entries[p][c + i]
  BY <1>1, <1>3, <1>8, SMT
<1>10. c \in 0..n
  BY <1>1, <1>3, SMT
<1> QED
  BY <1>6, <1>7, <1>9, <1>10, Zenon

LEMMA RemainingShortens ==
  ASSUME NEW p \in Enforcer, entries[p] \in Seq(Int)
  PROVE  /\ Remaining(p) \in Seq(Int)
         /\ Len(Remaining(p)) <= Len(entries[p])
<1> HIDE DEF Remaining
<1>1. Len(entries[p]) \in Nat
  OBVIOUS
<1> QED
  BY <1>1, RemainingSuffix, SMT

\* Asking the enforcers keeps the type of what they remember.
LEMMA AskingShortens ==
  ASSUME TypeOK, AskInTurn
  PROVE  /\ entries' \in [Enforcer -> Seq(Int)]
         /\ \A p \in Enforcer : Len(entries'[p]) <= Len(failures)
<1> SUFFICES ASSUME NEW p \in Enforcer
             PROVE  /\ entries'[p] \in Seq(Int)
                    /\ Len(entries'[p]) <= Len(failures)
  BY DEF AskInTurn
<1>1. entries[p] \in Seq(Int) /\ Len(entries[p]) <= Len(failures) /\ failures \in Seq(0..MaxTime)
  BY DEF TypeOK
<1>2. Remaining(p) \in Seq(Int) /\ Len(Remaining(p)) <= Len(entries[p])
  BY <1>1, RemainingShortens
<1>3. entries'[p] = Remaining(p) \/ entries'[p] = entries[p]
  BY DEF AskInTurn
<1> HIDE DEF Remaining
<1> QED
  BY <1>1, <1>2, <1>3

LEMMA TypeInit == Init => TypeOK
BY Limits, SMT DEF Init, TypeOK

LEMMA TypeStep ==
  ASSUME TypeOK, [Next]_vars
  PROVE  TypeOK'
<1> USE Limits
<1>1. CASE Tick
  BY <1>1, SMT DEF Tick, TypeOK
<1>2. CASE Adjust
  BY <1>2, SMT DEF Adjust, TypeOK
<1>3. CASE Mark
  <2>1. /\ entries' = [p \in Enforcer |-> Append(entries[p], Wall)]
        /\ failures' = Append(failures, now) /\ pc' = "check"
        /\ UNCHANGED <<now, offset, adjusted>>
    BY <1>3 DEF Mark
  <2>2. now \in 0..MaxTime /\ failures \in Seq(0..MaxTime) /\ Wall \in Int
    BY SMT DEF TypeOK, Wall
  <2>3. failures' \in Seq(0..MaxTime) /\ Len(failures') = Len(failures) + 1
    BY <2>1, <2>2
  <2>4. ASSUME NEW p \in Enforcer
        PROVE  entries'[p] \in Seq(Int) /\ Len(entries'[p]) <= Len(failures')
    <3>1. entries[p] \in Seq(Int) /\ Len(entries[p]) <= Len(failures)
      BY DEF TypeOK
    <3>2. entries'[p] = Append(entries[p], Wall)
      BY <2>1
    <3> QED
      BY <2>2, <2>3, <3>1, <3>2
  <2>5. entries' \in [Enforcer -> Seq(Int)]
    BY <2>1, <2>4
  <2> QED
    BY <2>1, <2>3, <2>4, <2>5 DEF TypeOK
<1>4. CASE Check
  BY <1>4, AskingShortens DEF Check, TypeOK
<1>5. CASE Reason
  <2>1. CASE OfAny
    BY <1>5, <2>1, AskingShortens DEF Reason, TypeOK
  <2>2. CASE ~OfAny
    BY <1>5, <2>2 DEF Reason, TypeOK
  <2> QED
    BY <2>1, <2>2
<1>6. CASE UNCHANGED vars
  BY <1>6 DEF vars, TypeOK
<1> QED
  BY <1>1, <1>2, <1>3, <1>4, <1>5, <1>6 DEF Next

\* The type invariant: among it that no enforcer remembers more failures than there
\* have been, and that a clock set MaxAdjust times is off by as much at most.
THEOREM PolicyTypeCorrect == Spec => []TypeOK
BY TypeInit, TypeStep, PTL DEF Spec

-----------------------------------------------------------------------------
(* Exactness.  What an enforcer has forgotten had expired, and stays       *)
(* expired while the clock only goes forward.                              *)

\* The enforcer remembers all failures but the first k, which have expired.
Forgot(p, k) ==
  /\ Len(entries[p]) = Len(failures) - k
  /\ \A i \in 1..Len(entries[p]) : entries[p][i] = failures[k + i]
  /\ \A i \in 1..k : failures[i] < now - Policy[p].within

\* Once the wall clock has been set, only the counts of policies on the total are known.
Remembers(p) ==
  /\ Policy[p].within = Forever => Len(entries[p]) = Len(failures)
  /\ Policy[p].within # Forever /\ adjusted = 0 => \E k \in 0..Len(failures) : Forgot(p, k)

\* The history is in order of time.
History ==
  /\ failures \in Seq(0..MaxTime) /\ Len(failures) <= MaxFailures
  /\ \A i \in 1..Len(failures) : failures[i] <= now
  /\ \A i, j \in 1..Len(failures) : i <= j => failures[i] <= failures[j]

ExactInv == TypeOK /\ History /\ \A p \in Enforcer : Remembers(p)

\* What the clock shows if nobody has set it.
LEMMA TrueWall == TypeOK => now \in Nat /\ Wall \in Int /\ (adjusted = 0 => Wall = now)
BY Limits, SMT DEF TypeOK, Wall

LEMMA Windows ==
  ASSUME NEW p \in Enforcer
  PROVE  /\ Policy[p].max \in Int
         /\ Policy[p].within # Forever => Policy[p].within \in Nat
<1> DEFINE S == [max : Int, within : Nat \cup {Forever}]
<1>1. Policy \in Seq(S)
  BY PolicyAssumption
<1> HIDE DEF S
<1>2. Policy[p] \in S
  BY <1>1 DEF Enforcer
<1> QED  BY <1>2 DEF S

\* Counting forgets only what has expired.
LEMMA CountingRemembers ==
  ASSUME ExactInv, NEW p \in Enforcer
  PROVE  /\ Policy[p].within = Forever => Len(Remaining(p)) = Len(failures)
         /\ Policy[p].within # Forever /\ adjusted = 0 =>
              \E m \in 0..Len(failures) :
                /\ Len(Remaining(p)) = Len(failures) - m
                /\ \A i \in 1..Len(Remaining(p)) : Remaining(p)[i] = failures[m + i]
                /\ \A i \in 1..m : failures[i] < now - Policy[p].within
                /\ m < Len(failures) => failures[m + 1] >= now - Policy[p].within
<1>0. entries[p] \in Seq(Int) /\ failures \in Seq(0..MaxTime) /\ Remembers(p)
  BY DEF ExactInv, TypeOK
<1> DEFINE n == Len(entries[p])
           r == Remaining(p)
           w == Policy[p].within
<1>1. n \in Nat /\ Len(failures) \in Nat
  BY <1>0
<1>2. PICK c \in 0..n :
        /\ Len(r) = n - c
        /\ \A i \in 1..Len(r) : r[i] = entries[p][c + i]
        /\ \A i \in 1..c : Expired(p, entries[p][i])
        /\ c < n => ~Expired(p, entries[p][c + 1])
  BY <1>0, RemainingSuffix, Zenon
<1> HIDE DEF r
<1>3. CASE w = Forever
  <2>1. c = 0
    <3>1. \A i \in 1..c : FALSE
      BY <1>2, <1>3 DEF Expired
    <3> QED  BY <1>1, <3>1, SMT
  <2> QED  BY <1>0, <1>1, <1>2, <1>3, <2>1 DEF Remembers, r
<1>4. CASE w # Forever /\ adjusted = 0
  <2>1. PICK k \in 0..Len(failures) : Forgot(p, k)
    BY <1>0, <1>4 DEF Remembers
  <2>2. w \in Nat /\ now \in Nat /\ Wall = now
    BY <1>4, TrueWall, Windows DEF ExactInv
  <2>3. \A e : Expired(p, e) <=> e < now - w
    BY <1>4, <2>2 DEF Expired
  <2> HIDE DEF w
  <2>4. /\ n = Len(failures) - k
        /\ \A i \in 1..n : entries[p][i] = failures[k + i]
        /\ \A i \in 1..k : failures[i] < now - w
    BY <2>1 DEF Forgot, w
  <2> DEFINE m == k + c
  <2>5. m \in 0..Len(failures) /\ Len(r) = Len(failures) - m
    BY <1>1, <1>2, <2>4, SMT
  <2>6. \A i \in 1..Len(r) : r[i] = failures[m + i]
    <3> SUFFICES ASSUME NEW i \in 1..Len(r) PROVE r[i] = failures[m + i]
      OBVIOUS
    <3>1. c + i \in 1..n /\ k + (c + i) = m + i
      BY <1>1, <1>2, SMT
    <3> QED  BY <1>2, <2>4, <3>1
  <2>7. \A i \in 1..m : failures[i] < now - w
    <3> SUFFICES ASSUME NEW i \in 1..m PROVE failures[i] < now - w
      OBVIOUS
    <3>1. CASE i <= k
      <4>1. i \in 1..k
        BY <3>1, SMT
      <4> QED  BY <2>4, <4>1
    <3>2. CASE i > k
      <4>1. i - k \in 1..c /\ i - k \in 1..n /\ k + (i - k) = i
        BY <1>1, <3>2, SMT
      <4> QED  BY <1>2, <2>3, <2>4, <4>1
    <3> QED  BY <3>1, <3>2, SMT
  <2>8. m < Len(failures) => failures[m + 1] >= now - w
    <3> SUFFICES ASSUME m < Len(failures) PROVE failures[m + 1] >= now - w
      OBVIOUS
    <3>1. c < n /\ c + 1 \in 1..n /\ k + (c + 1) = m + 1 /\ m + 1 \in 1..Len(failures)
      BY <1>1, <2>4, SMT
    <3>2. ~(failures[m + 1] < now - w)
      BY <1>2, <2>3, <2>4, <3>1
    <3>3. failures[m + 1] \in Nat
      BY <1>0, <3>1, Limits, SMT
    <3> QED  BY <2>2, <3>2, <3>3, SMT
  <2> HIDE DEF m
  <2> QED  BY <1>4, <2>5, <2>6, <2>7, <2>8, Zenon DEF r, w
<1> QED  BY <1>3, <1>4 DEF w

\* The failures in the window are as many as are remembered after counting.
LEMMA RecentCount ==
  ASSUME ExactInv, NEW p \in Enforcer, adjusted = 0 \/ Policy[p].within = Forever
  PROVE  /\ Cardinality(Recent(p)) = Len(Remaining(p))
         /\ Len(Remaining(p)) \in 0..MaxFailures
<1> DEFINE w == Policy[p].within
           r == Len(Remaining(p))
           n == Len(failures)
<1>0. /\ failures \in Seq(0..MaxTime) /\ n \in Nat /\ n <= MaxFailures
      /\ DOMAIN failures = 1..n
  BY DEF ExactInv, History
<1>1. CASE w = Forever
  <2>1. Recent(p) = 1..n /\ r = n
    BY <1>0, <1>1, CountingRemembers DEF Recent
  <2>2. Cardinality(1..n) = n
    BY <1>0, FS_Interval, SMT
  <2> HIDE DEF r, n
  <2> QED  BY <1>0, <2>1, <2>2, Limits, SMT DEF r
<1>2. CASE w # Forever
  <2>1. PICK m \in 0..n :
          /\ r = n - m
          /\ \A i \in 1..m : failures[i] < now - w
          /\ m < n => failures[m + 1] >= now - w
    BY <1>2, CountingRemembers, Zenon
  <2>2. w \in Nat /\ now \in Nat
    BY <1>2, TrueWall, Windows DEF ExactInv
  <2>3. \A i, j \in 1..n : i <= j => failures[i] <= failures[j]
    BY DEF ExactInv, History
  <2>4. \A i \in 1..n : failures[i] \in Nat
    BY <1>0, Limits, SMT
  <2>5. Recent(p) = {i \in 1..n : failures[i] >= now - w}
    BY <1>0, <1>2 DEF Recent
  <2> HIDE DEF w, r, n
  <2>6. \A i \in 1..n : failures[i] >= now - w <=> i > m
    <3> SUFFICES ASSUME NEW i \in 1..n PROVE failures[i] >= now - w <=> i > m
      OBVIOUS
    <3>1. CASE i <= m
      <4>1. i \in 1..m /\ failures[i] \in Nat
        BY <2>4, <3>1, SMT
      <4>2. failures[i] < now - w
        BY <2>1, <4>1
      <4> QED  BY <2>2, <3>1, <4>1, <4>2, SMT
    <3>2. CASE i > m
      <4>1. m + 1 \in 1..n /\ m + 1 <= i /\ m < n
        BY <1>0, <3>2, SMT
      <4>2. failures[m + 1] <= failures[i] /\ failures[m + 1] >= now - w
        BY <2>1, <2>3, <4>1
      <4>3. failures[m + 1] \in Nat /\ failures[i] \in Nat
        BY <2>4, <4>1
      <4> QED  BY <2>2, <3>2, <4>2, <4>3, SMT
    <3> QED  BY <3>1, <3>2, <1>0, SMT
  <2>7. Recent(p) = (m + 1)..n
    BY <1>0, <2>5, <2>6, SMT
  <2>8. Cardinality((m + 1)..n) = n - m
    <3>1. m + 1 \in Int /\ n \in Int /\ m <= n
      BY <1>0, SMT
    <3>2. Cardinality((m + 1)..n) = IF m + 1 > n THEN 0 ELSE n - (m + 1) + 1
      BY <3>1, FS_Interval
    <3> QED  BY <3>1, <3>2, SMT
  <2> QED  BY <1>0, <2>1, <2>7, <2>8, Limits, SMT DEF r
<1> QED  BY <1>1, <1>2

\* The conversion leaves limits that are not negative alone, and makes the others
\* more than there are ever failures.
LEMMA UnsignedLimit ==
  ASSUME NEW p \in Enforcer
  PROVE  /\ ToUInt(Policy[p].max) \in Int
         /\ IF Policy[p].max >= 0 THEN ToUInt(Policy[p].max) = Policy[p].max
                                  ELSE ToUInt(Policy[p].max) >= MaxFailures
<1> DEFINE n == Policy[p].max
           u == 2^Width
<1>1. n \in Int /\ -u <= 2 * n /\ 2 * n < u /\ 2 * MaxFailures <= u /\ MaxFailures \in Nat
  BY Windows, PolicyAssumption DEF Enforcer
<1>2. u \in Int
  BY PolicyAssumption
<1>3. ToUInt(n) = n % u
  BY DEF ToUInt
<1> HIDE DEF n, u
<1>4. u > 0
  BY <1>1, <1>2, SMT
<1>5. CASE n >= 0
  <2>1. n % u = n
    BY <1>1, <1>2, <1>4, <1>5, SMT
  <2> QED  BY <1>1, <1>3, <1>5, <2>1 DEF n
<1>6. CASE n < 0
  <2>1. n % u = u + n
    BY <1>1, <1>2, <1>4, <1>6, SMT
  <2>2. n % u >= MaxFailures /\ n % u \in Int /\ ~(n >= 0)
    BY <1>1, <1>2, <1>6, <2>1, SMT
  <2> QED  BY <1>3, <2>2 DEF n
<1> QED  BY <1>1, <1>5, <1>6, SMT

LEMMA HaltsExactly ==
  ASSUME ExactInv, NEW p \in Enforcer, adjusted = 0 \/ Policy[p].within = Forever
  PROVE  Halts(p) <=> Exceeded(p)
<1> DEFINE r == Len(Remaining(p))
           n == Policy[p].max
           u == ToUInt(n)
<1>1. r \in 0..MaxFailures /\ Cardinality(Recent(p)) = r
  BY RecentCount
<1>2. n \in Int /\ u \in Int /\ (IF n >= 0 THEN u = n ELSE u >= MaxFailures)
  BY UnsignedLimit, Windows
<1>3. (Halts(p) <=> r > u) /\ (Exceeded(p) <=> n >= 0 /\ r > n)
  BY <1>1 DEF Halts, Exceeded
<1> HIDE DEF r, n, u
<1> QED
  BY <1>1, <1>2, <1>3, Limits, SMT

LEMMA ExactInit == Init => ExactInv
<1> SUFFICES ASSUME Init PROVE ExactInv
  OBVIOUS
<1>1. History
  BY Limits, SMT DEF Init, History
<1>2. \A p \in Enforcer : Len(entries[p]) = 0 /\ Len(failures) = 0
  BY DEF Init
<1>3. ASSUME NEW p \in Enforcer PROVE Remembers(p)
  <2>1. Forgot(p, 0)
    BY <1>2, <1>3, SMT DEF Forgot
  <2>2. 0 \in 0..Len(failures)
    BY <1>2, <1>3, SMT
  <2> QED  BY <1>2, <2>1, <2>2 DEF Remembers
<1> QED  BY <1>1, <1>3, TypeInit DEF ExactInv

\* A killed consumer is last in the history and last in what is remembered.
LEMMA MarkRemembers ==
  ASSUME ExactInv, Mark
  PROVE  History' /\ \A p \in Enforcer : Remembers(p)'
<1> DEFINE n == Len(failures)
<1>1. /\ failures \in Seq(0..MaxTime) /\ n \in Nat /\ now \in 0..MaxTime /\ n < MaxFailures
      /\ failures' = Append(failures, now) /\ UNCHANGED <<now, offset, adjusted>>
  BY SMT DEF ExactInv, TypeOK, Mark
<1>2. /\ failures' \in Seq(0..MaxTime) /\ Len(failures') = n + 1 /\ failures'[n + 1] = now
      /\ \A i \in 1..n : failures'[i] = failures[i]
  BY <1>1
<1>3. History'
  <2>1. \A i \in 1..(n + 1) : i \in 1..n \/ i = n + 1
    BY <1>1, SMT
  <2>2. \A i \in 1..n : failures[i] <= now
    BY DEF ExactInv, History
  <2>3. \A i \in 1..(n + 1) : failures'[i] <= now
    BY <1>1, <1>2, <2>1, <2>2, SMT
  <2>4. \A i, j \in 1..(n + 1) : i <= j => failures'[i] <= failures'[j]
    <3> SUFFICES ASSUME NEW i \in 1..(n + 1), NEW j \in 1..(n + 1), i <= j
                 PROVE  failures'[i] <= failures'[j]
      OBVIOUS
    <3>1. CASE j = n + 1
      BY <1>2, <2>3, <3>1
    <3>2. CASE j \in 1..n
      <4>1. i \in 1..n
        BY <1>1, <3>2, SMT
      <4> QED  BY <1>2, <3>2, <4>1 DEF ExactInv, History
    <3> QED  BY <2>1, <3>1, <3>2
  <2> QED  BY <1>1, <1>2, <2>3, <2>4, Limits, SMT DEF History
<1>4. ASSUME NEW p \in Enforcer PROVE Remembers(p)'
  <2> DEFINE e == entries[p]
  <2>1. /\ e \in Seq(Int) /\ Len(e) \in Nat /\ Wall \in Int /\ (adjusted = 0 => Wall = now)
        /\ entries'[p] = Append(e, Wall)
    BY TrueWall DEF ExactInv, TypeOK, Mark
  <2>2. /\ Len(entries'[p]) = Len(e) + 1 /\ entries'[p][Len(e) + 1] = Wall
        /\ \A i \in 1..Len(e) : entries'[p][i] = e[i]
    BY <2>1
  <2>3. ASSUME NEW k \in 0..n, Forgot(p, k), adjusted = 0 PROVE k \in 0..(n + 1) /\ Forgot(p, k)'
    <3>0. Len(e) = n - k
      BY <2>3 DEF Forgot
    <3>1. Len(entries'[p]) = Len(failures') - k
      BY <1>1, <1>2, <2>2, <3>0, SMT
    <3>2. ASSUME NEW i \in 1..Len(entries'[p]) PROVE entries'[p][i] = failures'[k + i]
      <4>1. CASE i = Len(e) + 1
        <5>1. k + i = n + 1
          BY <1>1, <3>0, <4>1, SMT
        <5> QED  BY <1>2, <2>1, <2>2, <2>3, <4>1, <5>1
      <4>2. CASE i \in 1..Len(e)
        <5>1. k + i \in 1..n
          BY <1>1, <3>0, <4>2, SMT
        <5> QED  BY <1>2, <2>2, <2>3, <4>2, <5>1 DEF Forgot
      <4> QED  BY <2>1, <2>2, <4>1, <4>2, SMT
    <3>3. ASSUME NEW i \in 1..k PROVE failures'[i] < now' - Policy[p].within
      <4>1. i \in 1..n
        BY <1>1, SMT
      <4> QED  BY <1>1, <1>2, <2>3, <4>1 DEF Forgot
    <3>4. k \in 0..(n + 1)
      BY <1>1, SMT
    <3> QED  BY <3>1, <3>2, <3>3, <3>4 DEF Forgot
  <2>4. Remembers(p)
    BY DEF ExactInv
  <2> QED  BY <1>1, <1>2, <2>2, <2>3, <2>4 DEF Remembers
<1> QED  BY <1>3, <1>4

LEMMA AskRemembers ==
  ASSUME ExactInv, AskInTurn, UNCHANGED <<now, adjusted, failures>>
  PROVE  \A p \in Enforcer : Remembers(p)'
<1> SUFFICES ASSUME NEW p \in Enforcer PROVE Remembers(p)'
  OBVIOUS
<1>1. entries'[p] = Remaining(p) \/ entries'[p] = entries[p]
  BY DEF AskInTurn
<1>2. CASE entries'[p] = entries[p]
  BY <1>2 DEF ExactInv, Remembers, Forgot
<1>3. CASE entries'[p] = Remaining(p)
  <2> HIDE DEF Remaining
  <2>1. ASSUME NEW m \in 0..Len(failures),
               Len(Remaining(p)) = Len(failures) - m,
               \A i \in 1..Len(Remaining(p)) : Remaining(p)[i] = failures[m + i],
               \A i \in 1..m : failures[i] < now - Policy[p].within
        PROVE  m \in 0..Len(failures') /\ Forgot(p, m)'
    BY <1>3, <2>1 DEF Forgot
  <2>2. Policy[p].within # Forever /\ adjusted = 0 => \E m \in 0..Len(failures') : Forgot(p, m)'
    BY <2>1, CountingRemembers
  <2> QED  BY <1>3, <2>2, CountingRemembers DEF Remembers
<1> QED  BY <1>1, <1>2, <1>3

LEMMA ExactStep == ExactInv /\ [Next]_vars => ExactInv'
<1> SUFFICES ASSUME ExactInv, [Next]_vars PROVE History' /\ \A p \in Enforcer : Remembers(p)'
  BY TypeStep DEF ExactInv
<1>0. TypeOK /\ History /\ \A p \in Enforcer : Remembers(p)
  BY DEF ExactInv
<1>1. CASE Tick
  <2>1. now \in Nat /\ now' = now + 1 /\ UNCHANGED <<adjusted, entries, failures>>
    BY <1>0, <1>1, TrueWall DEF Tick
  <2>2. failures \in Seq(0..MaxTime) /\ \A i \in 1..Len(failures) : failures[i] \in Nat
    BY <1>0, Limits, SMT DEF History
  <2>3. History'
    BY <1>0, <2>1, <2>2, SMT DEF History
  <2>4. ASSUME NEW p \in Enforcer, NEW k \in 0..Len(failures), Forgot(p, k),
               Policy[p].within # Forever
        PROVE  Forgot(p, k)'
    <3>1. Policy[p].within \in Nat
      BY <2>4, Windows
    <3>2. \A i \in 1..k : i \in 1..Len(failures)
      BY <2>2, SMT
    <3>3. \A i \in 1..k : failures[i] < now' - Policy[p].within
      BY <2>1, <2>2, <2>4, <3>1, <3>2, SMT DEF Forgot
    <3> QED  BY <2>1, <2>4, <3>3 DEF Forgot
  <2> QED  BY <1>0, <2>1, <2>3, <2>4 DEF Remembers
<1>2. CASE Adjust
  <2>1. adjusted' # 0 /\ UNCHANGED <<now, entries, failures>>
    BY <1>0, <1>2, Limits, SMT DEF Adjust, TypeOK
  <2> QED  BY <1>0, <2>1 DEF History, Remembers
<1>3. CASE Mark
  BY <1>3, MarkRemembers
<1>4. CASE Check
  BY <1>0, <1>4, AskRemembers DEF Check, History
<1>5. CASE Reason
  <2>1. CASE OfAny
    BY <1>0, <1>5, <2>1, AskRemembers DEF Reason, History
  <2>2. CASE ~OfAny
    BY <1>0, <1>5, <2>2 DEF Reason, History, Remembers, Forgot
  <2> QED  BY <2>1, <2>2
<1>6. CASE UNCHANGED vars
  BY <1>0, <1>6 DEF vars, History, Remembers, Forgot
<1> QED
  BY <1>1, <1>2, <1>3, <1>4, <1>5, <1>6 DEF Next

\* For every list of policies, however often they were pruned or passed over, one that is
\* asked says halt exactly when its maximum is exceeded: negative maxima never are.
THEOREM PolicyIsExact == Spec => PolicyExact
<1>1. ExactInv => [Check => \A p \in Asked : adjusted = 0 \/ Policy[p].within = Forever
                                              => (Halts(p) <=> Exceeded(p))]_vars
  BY HaltsExactly DEF Asked
<1> QED
  BY <1>1, ExactInit, ExactStep, PTL DEF Spec, PolicyExact

\* The callback that reason() leaves with an exception has no maximum to halt for.
THEOREM PolicyThrowsWhenOver == Spec => ThrowsOnlyWhenOver
<1>1. ASSUME ExactInv, Reason, pc' = "threw", adjusted = 0, NEW p \in Enforcer
      PROVE  ~Exceeded(p)
  <2>1. ~Halts(p)
    BY <1>1 DEF Reason
  <2> QED  BY <1>1, <2>1, HaltsExactly
<1>2. ExactInv => [Reason /\ pc' = "threw" /\ adjusted = 0
                     => \A p \in Enforcer : ~Exceeded(p)]_vars
  BY <1>1
<1> QED
  BY <1>2, ExactInit, ExactStep, PTL DEF Spec, ThrowsOnlyWhenOver
=============================================================================
