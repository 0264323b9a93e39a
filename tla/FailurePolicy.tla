---------------------------- MODULE FailurePolicy ----------------------------
(***************************************************************************)
(* When JobQueueExecutorPool gives up: the calls that onConsumerShutdown() *)
(* makes of its ExecutorFailureEnforcer as failures happen and time goes   *)
(* by.  An enforcer is not synchronised; here the calls come one after the *)
(* other, as in a pool of one consumer.                                    *)
(***************************************************************************)
EXTENDS Integers, Sequences, FiniteSets

CONSTANTS
  Policy,     \* the enforcers, in order: [max, within]
  Forever,    \* the `within` of a MaxFailureEnforcer, which has none
  Width,      \* the width of UInt in bits
  OfAny,      \* whether they are wrapped in an AnyFailureEnforcer
  MaxTime,    \* when time ends (a bound)
  MaxFailures, \* how many consumers are killed (a bound)
  MaxAdjust   \* how often the wall clock is set (a bound)

ASSUME PolicyAssumption ==
  /\ Policy \in Seq([max : Int, within : Nat \cup {Forever}])
  /\ Forever \notin Nat
  /\ Len(Policy) > 0 /\ (~OfAny => Len(Policy) = 1)
  /\ Width \in Nat \ {0}
  /\ MaxTime \in Nat /\ MaxFailures \in Nat /\ MaxAdjust \in Nat
  \* max is an Int, as wide as UInt, and there are fewer failures than an Int can count.
  /\ \A p \in DOMAIN Policy : -(2^Width) <= 2 * Policy[p].max /\ 2 * Policy[p].max < 2^Width
  /\ 2 * MaxFailures <= 2^Width

VARIABLES
  now,        \* the time that has gone by
  offset,     \* System.currentTimeMillis() is now + offset
  adjusted,   \* how often it has been set
  entries,    \* per enforcer, the wall times it remembers (or counts)
  failures,   \* history: when the consumers were killed
  pc          \* "idle", "check", "reason", "halted"; "threw": an exception left the callback

vars == <<now, offset, adjusted, entries, failures, pc>>

Enforcer == DOMAIN Policy

Wall == now + offset

Init ==
  /\ now = 0 /\ offset = 0 /\ adjusted = 0
  /\ entries = [p \in Enforcer |-> <<>>]
  /\ failures = <<>>
  /\ pc = "idle"

Tick ==
  /\ now < MaxTime
  /\ now' = now + 1
  /\ UNCHANGED <<offset, adjusted, entries, failures, pc>>

\* The wall clock is corrected by one step, forwards or backwards.
Adjust ==
  /\ adjusted < MaxAdjust
  /\ adjusted' = adjusted + 1
  /\ offset' \in {offset - 1, offset + 1}
  /\ UNCHANGED <<now, entries, failures, pc>>

\* Mutant of Mark: a failure is counted twice.
MarkTwice ==
  /\ pc = "idle" /\ Len(failures) < MaxFailures
  /\ entries' = [p \in Enforcer |-> entries[p] \o <<Wall, Wall>>]
  /\ failures' = Append(failures, now)
  /\ pc' = "check"
  /\ UNCHANGED <<now, offset, adjusted>>

\* A consumer is killed: markFailure().
Mark ==
  /\ pc = "idle" /\ Len(failures) < MaxFailures
  /\ entries' = [p \in Enforcer |-> Append(entries[p], Wall)]
  /\ failures' = Append(failures, now)
  /\ pc' = "check"
  /\ UNCHANGED <<now, offset, adjusted>>

\* Mutant of Expired: an entry just as old as the window is dropped.
ExpiredEarly(p, time) == Policy[p].within # Forever /\ time <= Wall - Policy[p].within

Expired(p, time) == Policy[p].within # Forever /\ time < Wall - Policy[p].within

\* count(): entries are popped from the front while they have expired.
Remaining(p) ==
  LET n      == Len(entries[p])
      popped == {k \in 1..n : \A i \in 1..k : Expired(p, entries[p][i])}
  IN  SubSeq(entries[p], Cardinality(popped) + 1, n)

\* The factories of ExecutorFailurePolicy convert max, an Int.
ToUInt(n) == n % 2^Width

Halts(p) == Len(Remaining(p)) > ToUInt(Policy[p].max)

\* any() and first() ask the enforcers in turn and stop at the first that halts.
Asked == {p \in Enforcer : \A q \in 1..(p - 1) : ~Halts(q)}

AskInTurn == entries' = [p \in Enforcer |-> IF p \in Asked THEN Remaining(p) ELSE entries[p]]

\* shouldHalt().
Check ==
  /\ pc = "check"
  /\ AskInTurn
  /\ pc' = IF \E p \in Enforcer : Halts(p) THEN "reason" ELSE "idle"
  /\ UNCHANGED <<now, offset, adjusted, failures>>

\* Mutant of Reason: only the first enforcer is asked for its reason.
ReasonOfFirst ==
  /\ pc = "reason"
  /\ AskInTurn
  /\ pc' = IF Halts(1) THEN "halted" ELSE "threw"
  /\ UNCHANGED <<now, offset, adjusted, failures>>

\* reason(), then stopNow().  AnyFailureEnforcer asks its enforcers once more and
\* first() throws when none halts any longer; the others have a constant reason.
Reason ==
  /\ pc = "reason"
  /\ IF OfAny
     THEN /\ AskInTurn
          /\ pc' = IF \E p \in Enforcer : Halts(p) THEN "halted" ELSE "threw"
     ELSE /\ pc' = "halted"
          /\ UNCHANGED entries
  /\ UNCHANGED <<now, offset, adjusted, failures>>

Next == Tick \/ Adjust \/ Mark \/ Check \/ Reason

Spec == Init /\ [][Next]_vars

-----------------------------------------------------------------------------
\* Every variable has its type.
TypeOK ==
  /\ now \in 0..MaxTime
  /\ adjusted \in 0..MaxAdjust /\ offset \in -adjusted..adjusted
  /\ entries \in [Enforcer -> Seq(Int)] /\ failures \in Seq(0..MaxTime)
  /\ \A p \in Enforcer : Len(entries[p]) <= Len(failures)
  /\ pc \in {"idle", "check", "reason", "halted", "threw"}

\* The failures within the window of a policy, taken from the history.
Recent(p) ==
  {i \in DOMAIN failures : Policy[p].within = Forever \/ failures[i] >= now - Policy[p].within}

\* More failures lie within the window than are permitted.  A negative maximum,
\* which the conversion makes a huge one, permits all.
Exceeded(p) == Policy[p].max >= 0 /\ Cardinality(Recent(p)) > Policy[p].max

\* Each policy that is asked says halt exactly when its maximum is exceeded, whatever
\* was popped at earlier times or not popped because an earlier policy halted; a policy
\* on the total also when the wall clock has been set.
PolicyExact ==
  [][Check => \A p \in Asked :
       adjusted = 0 \/ Policy[p].within = Forever => (Halts(p) <=> Exceeded(p))]_vars

\* reason() throws, and the pool neither halts nor replaces the consumer, only if no
\* maximum is exceeded any longer: the time of a failure ran out since shouldHalt().
ThrowsOnlyWhenOver ==
  [][Reason /\ pc' = "threw" /\ adjusted = 0 => \A p \in Enforcer : ~Exceeded(p)]_vars
=============================================================================
