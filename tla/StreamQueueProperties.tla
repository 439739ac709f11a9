----------------------- MODULE StreamQueueProperties -----------------------
(* What StreamQueue must and must not do.  Each run checks those that hold *)
(* under the disturbances its configuration allows.                        *)
EXTENDS StreamQueue

EntryType == [id: Nat, req: Requests, attempts: Nat]
JobType == [gw: Gateways,
            entry: EntryType,
            pc: {"cache", "limit", "call", "defer", "replay", "finish",
                 "ack", "del", "decr"},
            attempts: Nat,
            res: Outcomes \cup {"none", "deferred"}]

LoopStates == Priorities \cup {Claiming(p) : p \in Priorities}
                         \cup {"boot", "top", "exited", "down"}

\* Every variable stays in its range: the states of the program's objects and
\* Redis keys that the actions stand for.
TypeOK ==
    /\ fresh \in SUBSET EntryType
    /\ pel \in SUBSET EntryType
    /\ stale \in SUBSET pel
    /\ kept \in SUBSET EntryType
    /\ lastId \in Nat
    /\ group \in [Priorities -> BOOLEAN]
    /\ depth \in Int
    /\ retry \in [Requests -> Nat \cup {NotScheduled}]
    /\ cached \in [Requests -> Outcomes \cup {"none"}]
    /\ prod \in [Requests -> InFlight \cup {"new", "accepted", "rejected"}]
    /\ loop \in [Gateways -> LoopStates]
    /\ closing \in [Gateways -> BOOLEAN]
    /\ link \in [Gateways -> BOOLEAN]
    /\ jobs \in SUBSET JobType
    /\ \A j \in jobs : j.pc \in {"replay", "finish"} => j.res \in Outcomes
    /\ results \in [Requests -> Seq(Outcomes)]
    /\ used \in [Kinds -> Nat]

-----------------------------------------------------------------------------
(* The places a request can be.                                            *)

Scheduled == {r \in Requests : retry[r] # NotScheduled}
Reported(r) == results[r] # <<>>

\* Entries whose job has parked the request and has only the XACK left to do:
\* the token, or what became of it, has taken over.
Handed == {j.entry : j \in {k \in jobs : k.pc = "ack" /\ KeepsSlot(k)}}

\* Requests with work to do, and requests Redis still holds a copy of.
Live == {e.req : e \in Unacked \ Handed} \cup Scheduled
Held == {e.req : e \in Unacked} \cup Scheduled

\* Whoever holds a slot of depthKey: an enqueue between INCR and its outcome,
\* a queued or parked request, a job between XACK and DECR.
SlotHolders ==
    {r \in Requests : prod[r] \in InFlight}
    \cup Live
    \cup {j.entry.req : j \in {k \in jobs : k.pc \in {"del", "decr"} /\ ~KeepsSlot(k)}}

-----------------------------------------------------------------------------
(* Under any disturbance but the loss of a consumer group.                 *)

\* An accepted request has been answered, or an entry or a retry token that
\* will run it again is still in Redis (_dispatch acknowledges only what was
\* reported or parked), whichever crash, broken link or lost reply came
\* between the commands.
NoAcceptedLoss ==
    \A r \in Requests :
        prod[r] = "accepted" /\ ~Reported(r) => r \in Live

\* No entry is ever worked on by two jobs at once: what one gateway gave up,
\* after a crash, a broken link or a lost batch, another reclaims, but only
\* after claimIdleMs, which exceeds the duration of a job.
NoDoubleDispatch ==
    \A i, j \in jobs : i.entry = j.entry => i = j

\* The queue as StreamQueue shows it to the outside: what is owed is what has
\* a copy in Redis, and acknowledging the last of them settles it.
AbstractQueue == INSTANCE WorkQueue WITH
    owed <- Held,
    settled <- {r \in Requests : Reported(r)} \ Held,
    answers <- [r \in Requests |-> Len(results[r])]

\* The detailed queue implements the abstract one.
ImplementsWorkQueue == AbstractQueue!Spec

-----------------------------------------------------------------------------
(* Without crashes and faults.                                             *)

\* depthKey counts exactly the requests that hold a slot, through QUEUE_FULL
\* roll-backs, retries that transfer their slot, and promotions.
DepthExact == depth = Cardinality(SlotHolders)

\* `Max queue size` bounds the requests that are queued, running or parked
\* (README.md:473), although a reservation in flight may push the counter past
\* it, and with them the streams: an acknowledged entry is gone, but for those
\* whose job is about to XDEL them.
StreamTidy == \A e \in kept : \E j \in jobs : j.entry = e /\ j.pc = "del"
LiveBound == Cardinality(Live) <= MaxQueueSize /\ StreamTidy

\* Every pending entry has one job working on it, so that a graceful stop, which
\* waits for the jobs, leaves nothing behind to be reclaimed after claimIdleMs.
\* On one gateway it is never a second one, even if claimIdleMs is too short,
\* because the loop awaits its batch before it reclaims.
PendingInOneJob == \A e \in pel : Cardinality({j \in jobs : j.entry = e}) = 1

\* Without failures delivery is exactly once: no entry, token or job is left
\* over from a deferral that would run the request and answer it again.
AnsweredOnce == \A r \in Requests : Len(results[r]) <= 1

-----------------------------------------------------------------------------
(* Under fairness.                                                         *)

\* Every accepted request is answered in the end, whatever (finitely many)
\* crashes, faults, rate-limit denials and stops happen on the way.
EventuallyAnswered ==
    \A r \in Requests : prod[r] = "accepted" ~> Reported(r)

\* stop() returns: the batch in hand is finished and both loops end.
StopEnds == \A g \in Gateways : closing[g] ~> loop[g] \in {"down", "boot"}

\* After the last deletion of a stream, a request whose XADD finds the group in
\* place is served: NOGROUP "does not permanently stall the consumer"
\* (redis-stream-queue.js:340).
ServedAfterRecovery ==
    \A r \in Requests :
        (prod[r] = "xadd" /\ group[PrioOf(r)] /\ used["wipe"] = Limit["wipe"])
            ~> (Reported(r) \/ prod[r] = "rejected")
=============================================================================
