-------------------------- MODULE ScrollingCounter --------------------------
(***************************************************************************)
(* The ScrollingCounter of a WindowedFailureEnforcer when the shutdown     *)
(* callbacks of several channels, which the client library runs on threads *)
(* of their own, use it at once.  FailurePolicy has the same counter with  *)
(* one caller.  java.util.LinkedList is not synchronised: a node is linked *)
(* or unlinked in one step here, and its size is read in one step and      *)
(* written in another.                                                     *)
(***************************************************************************)
EXTENDS Integers, Sequences

CONSTANTS
  Thread,      \* threads that run shutdown callbacks
  Max,         \* maxFailures
  Within,      \* the window
  MaxTime,     \* when time ends (a bound)
  MaxFailures, \* how many consumers are killed (a bound)
  Width        \* the width of UInt in bits

VARIABLES
  now,
  entries,     \* the linked nodes: the times of failures
  size,        \* the field `size`, an Int
  pc,          \* where each thread is
  read,        \* the size it has read
  cutoff,      \* the cutoff of its count()
  failures     \* history: when the consumers were killed

vars == <<now, entries, size, pc, read, cutoff, failures>>

Init ==
  /\ now = 0
  /\ entries = <<>> /\ size = 0
  /\ pc = [t \in Thread |-> "idle"]
  /\ read = [t \in Thread |-> 0] /\ cutoff = [t \in Thread |-> 0]
  /\ failures = <<>>

Goto(t, s) == pc' = [pc EXCEPT ![t] = s]

\* A callback takes less time than the unit of the model, well below the window.
Tick ==
  /\ now < MaxTime
  /\ \A t \in Thread : pc[t] = "idle"
  /\ now' = now + 1
  /\ UNCHANGED <<entries, size, pc, read, failures, cutoff>>

\* A consumer is killed; inc() takes the time and LinkedList.offer links a node.
Offer(t) ==
  /\ pc[t] = "idle" /\ Len(failures) < MaxFailures
  /\ entries' = Append(entries, now)
  /\ failures' = Append(failures, now)
  /\ Goto(t, "grow")
  /\ UNCHANGED <<now, size, read, cutoff>>

\* size++ and size--.
ReadSize(t, from, to) ==
  /\ pc[t] = from
  /\ read' = [read EXCEPT ![t] = size]
  /\ Goto(t, to)
  /\ UNCHANGED <<now, entries, size, failures, cutoff>>

WriteSize(t, from, change, to) ==
  /\ pc[t] = from
  /\ size' = read[t] + change
  /\ Goto(t, to)
  /\ UNCHANGED <<now, entries, read, failures, cutoff>>

ToUInt(n) == n % 2^Width

\* shouldHalt() calls count(), which takes the time ...
Begin(t) ==
  /\ pc[t] = "begin"
  /\ cutoff' = [cutoff EXCEPT ![t] = now - Within]
  /\ Goto(t, "count")
  /\ UNCHANGED <<now, entries, size, read, failures>>

\* ... and goes on while isNotEmpty(), which asks the size, and the first entry is
\* older than the cutoff; getFirst() throws when there is no node.
Count(t) ==
  /\ pc[t] = "count"
  /\ Goto(t, IF size # 0
             THEN IF entries = <<>> THEN "threw"
                  ELSE IF Head(entries) < cutoff[t] THEN "pop" ELSE "compare"
             ELSE "compare")
  /\ UNCHANGED <<now, entries, size, read, failures, cutoff>>

\* pop() unlinks whatever node is first by now.
Pop(t) ==
  /\ pc[t] = "pop"
  /\ IF entries = <<>> THEN Goto(t, "threw") /\ UNCHANGED entries
                       ELSE Goto(t, "shrink") /\ entries' = Tail(entries)
  /\ UNCHANGED <<now, size, read, failures, cutoff>>

\* shouldHalt(): counter > maxFailures, compared as UInt.
Compare(t) ==
  /\ pc[t] = "compare"
  /\ Goto(t, IF ToUInt(size) > Max THEN "halted" ELSE "idle")
  /\ UNCHANGED <<now, entries, size, read, failures, cutoff>>

Next ==
  \/ Tick
  \/ \E t \in Thread :
       \/ Offer(t) \/ Begin(t) \/ Count(t) \/ Pop(t) \/ Compare(t)
       \/ ReadSize(t, "grow", "grown") \/ WriteSize(t, "grown", 1, "begin")
       \/ ReadSize(t, "shrink", "shrunk") \/ WriteSize(t, "shrunk", -1, "count")

Spec == Init /\ [][Next]_vars

-----------------------------------------------------------------------------
(* What the source says and the code does not keep.                        *)

\* ExecutorFailurePolicy.kt:23-25: an executor is considered as failed when consumers
\* "are unexpectedly killed more than [max] times within the time window": not when no
\* more than max were ever killed.
HaltsOnlyWhenExceeded == (\E t \in Thread : pc[t] = "halted") => Len(failures) > Max
=============================================================================
