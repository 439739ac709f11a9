----------------------------- MODULE MemoryPump -----------------------------
(***************************************************************************)
(* GatewayServer without Redis: a sorted array of waiting items and _pump, *)
(* the loop that takes from its head.  Everything between two awaits is    *)
(* one step; the loop has two of them, the limiter's answer and _finish.   *)
(* MemoryResults adds what these steps do to keys and responses, and has   *)
(* the specification.                                                      *)
(***************************************************************************)
EXTENDS Integers, SequencesExt, FiniteSets

CONSTANTS
    Requests,
    Bulk,           \* those with priority 'bulk'
    Concurrency,    \* concurrency
    MaxQueueSize,   \* maxQueueSize
    MaxAttempts,    \* maxAttempts: retries after a failed call
    MaxDenials      \* how often the limiter refuses, at most

ASSUME PumpAssumption ==
    /\ IsFiniteSet(Requests)
    /\ Bulk \subseteq Requests
    /\ Concurrency \in Nat \ {0}
    /\ MaxQueueSize \in Nat \ {0}
    /\ MaxAttempts \in Nat
    /\ MaxDenials \in Nat

VARIABLES
    memoryQueue,    \* memoryQueue
    at,             \* where each request is
    active,         \* active
    pumping,        \* pumping
    pumpTimer,      \* pumpTimer # null
    attempts,       \* item.attempts
    enqueuedAt,     \* item.enqueuedAt
    denials

vars == <<memoryQueue, at, active, pumping, pumpTimer, attempts, enqueuedAt, denials>>

Places == {"new", "rejected", "queued", "limiter", "finish", "executing",
           "backoff", "done", "duplicate"}
In(place) == {r \in Requests : at[r] = place}
Arrivals == Cardinality(Requests \ In("new"))      \* Date.now()

-----------------------------------------------------------------------------
(* _sortQueue.  The table ranks bulk as 0, which || takes for a missing    *)
(* entry.                                                                  *)

PRIORITY == [normal |-> 1, bulk |-> 0]
PriorityOf(r) == PRIORITY[IF r \in Bulk THEN "bulk" ELSE "normal"]
Rank(r) == IF PriorityOf(r) # 0 THEN PriorityOf(r) ELSE PRIORITY["normal"]
Before(left, right, arrival) ==
    \/ Rank(left) > Rank(right)
    \/ Rank(left) = Rank(right) /\ arrival[left] < arrival[right]
Sort(items, arrival) ==
    [i \in 1 .. Cardinality(items) |->
        CHOOSE r \in items : Cardinality({q \in items : Before(q, r, arrival)}) = i - 1]

\* push and _sortQueue.
PushUnsorted(r, arrival) == <<r>> \o memoryQueue      \* slip: the sort is left out
Push(r, arrival) == Sort(ToSet(memoryQueue) \cup {r}, arrival)

-----------------------------------------------------------------------------
(* _pump.                                                                  *)

\* The loop from its condition to its next await: with the queue, the counter
\* and the places as the code before it has left them.
MayTake(queue, running) == running < Concurrency /\ queue # <<>>
Turn(queue, running, places) ==
    IF MayTake(queue, running)
    THEN /\ memoryQueue' = Tail(queue)
         /\ \E step \in {"limiter", "finish"} :
                at' = [places EXCEPT ![Head(queue)] = step]
         /\ pumping' = TRUE
    ELSE /\ memoryQueue' = queue
         /\ at' = places
         /\ pumping' = FALSE

\* A call of _pump returns at once while the loop runs or the timer is set.
Idles(queue, timer) == pumping \/ timer \/ queue = <<>>
Pump(queue, running, places, timer) ==
    IF Idles(queue, timer)
    THEN memoryQueue' = queue /\ at' = places /\ UNCHANGED pumping
    ELSE Turn(queue, running, places)

Moved(r, place) == [at EXCEPT ![r] = place]

\* _enqueue.
Enqueue(r) ==
    /\ at[r] = "new"
    /\ IF Len(memoryQueue) >= MaxQueueSize
       THEN /\ at' = Moved(r, "rejected")
            /\ UNCHANGED <<memoryQueue, pumping, enqueuedAt>>
       ELSE /\ enqueuedAt' = [enqueuedAt EXCEPT ![r] = Arrivals]
            /\ Pump(Push(r, enqueuedAt'), active, Moved(r, "queued"), pumpTimer)
    /\ UNCHANGED <<active, pumpTimer, attempts, denials>>

\* The limiter allows the call, refuses it, or is unavailable.
Allowed(r) ==
    /\ at[r] = "limiter"
    /\ active' = active + 1
    /\ attempts' = [attempts EXCEPT ![r] = @ + 1]
    /\ Turn(memoryQueue, active + 1, Moved(r, "executing"))
    /\ UNCHANGED <<pumpTimer, enqueuedAt, denials>>
ForgetsTimer == UNCHANGED pumpTimer                   \* slip: nobody wakes the pump
SchedulePump == pumpTimer' = TRUE
Refused(r) ==
    /\ at[r] = "limiter"
    /\ denials < MaxDenials
    /\ denials' = denials + 1
    /\ memoryQueue' = <<r>> \o memoryQueue
    /\ at' = Moved(r, "queued")
    /\ SchedulePump
    /\ pumping' = FALSE
    /\ UNCHANGED <<active, attempts, enqueuedAt>>
LimiterFails(r) ==
    /\ at[r] = "limiter"
    /\ at' = Moved(r, "finish")
    /\ UNCHANGED <<memoryQueue, active, pumping, pumpTimer, attempts, enqueuedAt, denials>>

\* _finish of an expired item, or of one the limiter could not decide.
Finished(r) ==
    /\ at[r] = "finish"
    /\ Turn(memoryQueue, active, Moved(r, "done"))
    /\ UNCHANGED <<active, pumpTimer, attempts, enqueuedAt, denials>>

\* _execute ends with an answer or a retry to come; its finally block counts
\* down and pumps.
KeepsActive == active                                 \* slip: active-- is skipped
Released == active - 1
Executed(r) ==
    /\ at[r] = "executing"
    /\ active' = Released
    /\ \/ Pump(memoryQueue, active', Moved(r, "done"), pumpTimer)
       \/ /\ attempts[r] <= MaxAttempts
          /\ Pump(memoryQueue, active', Moved(r, "backoff"), pumpTimer)
    /\ UNCHANGED <<pumpTimer, attempts, enqueuedAt, denials>>

\* The delay of a retry is over: _requeue.
Requeue(r) ==
    /\ at[r] = "backoff"
    /\ Pump(Push(r, enqueuedAt), active, Moved(r, "queued"), pumpTimer)
    /\ UNCHANGED <<active, pumpTimer, attempts, enqueuedAt, denials>>

TimerFires ==
    /\ pumpTimer
    /\ pumpTimer' = FALSE
    /\ Pump(memoryQueue, active, at, FALSE)
    /\ UNCHANGED <<active, attempts, enqueuedAt, denials>>

-----------------------------------------------------------------------------
Init ==
    /\ memoryQueue = <<>>
    /\ at = [r \in Requests |-> "new"]
    /\ active = 0
    /\ pumping = FALSE
    /\ pumpTimer = FALSE
    /\ attempts = [r \in Requests |-> 0]
    /\ enqueuedAt = [r \in Requests |-> 0]
    /\ denials = 0

Awaited(r) == Allowed(r) \/ Refused(r) \/ LimiterFails(r) \/ Finished(r)
Work(r) == Awaited(r) \/ Executed(r) \/ Requeue(r)

-----------------------------------------------------------------------------
\* Every variable stays in its range, the counter within the concurrency.
TypeOK ==
    /\ memoryQueue \in Seq(Requests)
    /\ at \in [Requests -> Places]
    /\ active \in 0 .. Concurrency
    /\ pumping \in BOOLEAN
    /\ pumpTimer \in BOOLEAN
    /\ attempts \in [Requests -> 0 .. MaxAttempts + 1]
    /\ enqueuedAt \in [Requests -> Nat]
    /\ denials \in 0 .. MaxDenials

\* A request is in one place: in the array exactly while it is queued, with the
\* loop, which runs once at a time, after it was shifted, and counted in active
\* exactly while it executes.  Neither a retry, nor a refusal, nor a pump started
\* from two places loses, doubles or forgets to count one.
OnePlace ==
    /\ IsInjective(memoryQueue)
    /\ ToSet(memoryQueue) = In("queued")
    /\ Cardinality(In("limiter") \cup In("finish")) = IF pumping THEN 1 ELSE 0
    /\ active = Cardinality(In("executing"))

\* No lost wake-up: work waits beside idle capacity only while the loop or its
\* timer is going to look.
NoLostWakeUp ==
    memoryQueue # <<>> /\ active < Concurrency => pumping \/ pumpTimer

\* _sortQueue: of two items of one priority the earlier stands first, a retry at the
\* place of its first arrival.  Only an item that the limiter has refused, put back
\* without a sort, may stand at the head out of turn.
SamePriority(r, q) == r \in Bulk <=> q \in Bulk
OldestFirst ==
    \A i, j \in DOMAIN memoryQueue :
        /\ i < j /\ (i > 1 \/ denials = 0)
        /\ SamePriority(memoryQueue[i], memoryQueue[j])
        => enqueuedAt[memoryQueue[i]] < enqueuedAt[memoryQueue[j]]

\* PRIORITY, and the consumer of the Redis queue, set normal work before bulk work: a
\* bulk item waits until no normal one does.  The sort does not: || takes the 0 of bulk
\* for a missing entry and ranks it like normal.
NormalFirst ==
    \A i, j \in DOMAIN memoryQueue :
        /\ i < j /\ (i > 1 \/ denials = 0)
        /\ memoryQueue[i] \in Bulk
        => memoryQueue[j] \in Bulk
=============================================================================
