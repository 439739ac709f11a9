---------------------------- MODULE StreamQueue ----------------------------
(***************************************************************************)
(* The durable work queue of the pod gateway: lib/redis-stream-queue.js    *)
(* and the part of lib/gateway-server.js that runs one queued item.        *)
(*                                                                         *)
(* A request is admitted by three separate Redis commands (INCR, compare,  *)
(* XADD), delivered through a consumer group on one of two streams, run by *)
(* a job, perhaps parked in a sorted set and promoted back, answered, and  *)
(* settled by XACK, XDEL and DECR.  Each command is one step, and between  *)
(* any two of them the process may crash or its connection may drop.       *)
(***************************************************************************)
EXTENDS Integers, Sequences, FiniteSets

CONSTANTS
    Requests,       \* requests the PODs submit
    Bulk,           \* those with priority 'bulk'; the others are 'normal'
    Keyed,          \* those with an idempotencyKey, each a key of its own
    Gateways,       \* gateway processes sharing one Redis
    HomeOf,         \* the gateway whose WebSocket a request arrives on
    MaxQueueSize,   \* maxQueueSize
    BatchSize,      \* batchSize, the COUNT of XREADGROUP and XAUTOCLAIM
    MaxAttempts,    \* maxAttempts of the server: retries after a failed call
    ClaimMargin,    \* claimIdleMs exceeds the time any job takes
    FirstBoot,      \* no consumer group was left by an earlier run
    Limit           \* how often each kind of disturbance happens, at most

Priorities == {"normal", "bulk"}
Kinds == {"crash", "fault", "denial", "stop", "wipe"}
Outcomes == {"ok", "err"}

ASSUME RequestsAssumption ==
    /\ Bulk \subseteq Requests
    /\ Keyed \subseteq Requests
    /\ HomeOf \in [Requests -> Gateways]
ASSUME SizesAssumption ==
    /\ MaxQueueSize \in Nat \ {0}
    /\ BatchSize \in Nat \ {0}
    /\ MaxAttempts \in Nat
ASSUME EnvironmentAssumption ==
    /\ ClaimMargin \in BOOLEAN
    /\ FirstBoot \in BOOLEAN
    /\ Limit \in [Kinds -> Nat]

VARIABLES
    \* Redis
    fresh,      \* stream entries the group has not delivered yet
    pel,        \* entries delivered and not acknowledged (pending list)
    stale,      \* those of pel whose idle time has passed claimIdleMs
    kept,       \* entries still in the stream that no read returns again
    lastId,     \* the number of the last stream id handed out
    group,      \* which streams have their consumer group
    depth,      \* the counter under depthKey
    retry,      \* the delayed retries: attempts in the payload, per request
    cached,     \* the response stored under the idempotency key
    \* the gateway processes
    prod,       \* where enqueue() stands for each request
    loop,       \* where _consumeLoop stands
    closing,    \* queue.closed
    link,       \* commandClient.isReady
    jobs,       \* the items that itemHandler and _dispatch are working on
    \* history, read by properties only
    results,    \* the responses delivered or persisted for each request
    used        \* disturbances so far

stream == <<fresh, pel, stale, kept, lastId, group>>
store == <<depth, retry, cached>>
process == <<loop, closing>>
vars == <<stream, store, process, results, prod, link, jobs, used>>

NotScheduled == -1
PrioOf(r) == IF r \in Bulk THEN "bulk" ELSE "normal"
OfStream(S, p) == {e \in S : PrioOf(e.req) = p}
Unacked == fresh \cup pel
Entry(r, attempts) == [id |-> lastId + 1, req |-> r, attempts |-> attempts]

\* The n entries of S with the smallest ids: streams are read and scanned in
\* id order.
Oldest(S, n) == {e \in S : Cardinality({f \in S : f.id < e.id}) < n}

Up(g) == loop[g] \notin {"down", "boot"}

-----------------------------------------------------------------------------
(* What a command on commandClient can come to.  Only a fault on a working *)
(* link spends the budget; commands on a broken link are refused at once   *)
(* (disableOfflineQueue).                                                  *)

Spend(k) == /\ used[k] < Limit[k]
            /\ used' = [used EXCEPT ![k] = @ + 1]

\* Executed, and the reply arrives.
Answered(g) == link[g] /\ UNCHANGED <<link, used>>

\* Not executed: the link is down, Redis answers with an error, or the link
\* breaks before the command is sent.
Refused(g) ==
    \/ ~link[g] /\ UNCHANGED <<link, used>>
    \/ /\ link[g]
       /\ Spend("fault")
       /\ \E up \in BOOLEAN : link' = [link EXCEPT ![g] = up]

\* Executed, but the link breaks before the reply.
ReplyLost(g) == /\ link[g]
                /\ Spend("fault")
                /\ link' = [link EXCEPT ![g] = FALSE]

Executed(g) == Answered(g) \/ ReplyLost(g)
Failed(g) == Refused(g) \/ ReplyLost(g)

-----------------------------------------------------------------------------
(* enqueue(): reserve a slot, give it back when there was none, XADD.      *)

OverflowsLate(d) == d > MaxQueueSize + 1     \* slip: off by one
Overflows(d) == d > MaxQueueSize
SetProd(r, s) == prod' = [prod EXCEPT ![r] = s]

\* INCR depthKey.  The server listens before start() has created the groups,
\* and enqueue() does not look at closed.
Reserve(r) ==
    /\ prod[r] = "new"
    /\ loop[HomeOf[r]] # "down"
    /\ \/ /\ Answered(HomeOf[r])
          /\ depth' = depth + 1
          /\ SetProd(r, IF Overflows(depth') THEN "rollback" ELSE "xadd")
       \/ ReplyLost(HomeOf[r]) /\ depth' = depth + 1 /\ SetProd(r, "rejected")
       \/ Refused(HomeOf[r]) /\ SetProd(r, "rejected") /\ UNCHANGED depth
    /\ UNCHANGED <<stream, retry, cached, process, jobs, results>>

\* DECR after QUEUE_FULL, and DECR after a failed XADD: the request is
\* rejected whether or not the command succeeds.
GiveBack(r) ==
    /\ prod[r] \in {"rollback", "undo"}
    /\ SetProd(r, "rejected")
    /\ \/ Executed(HomeOf[r]) /\ depth' = depth - 1
       \/ Refused(HomeOf[r]) /\ UNCHANGED depth
    /\ UNCHANGED <<stream, retry, cached, process, jobs, results>>

\* A new stream entry.
AddEntry(e) ==
    /\ lastId' = e.id
    /\ fresh' = fresh \cup {e}
    /\ UNCHANGED <<pel, stale, kept, group>>

\* XADD.  An error sends the slot back; when the link is gone the DECR that
\* follows is refused on the spot.
XAdd(r) ==
    /\ prod[r] = "xadd"
    /\ \/ Answered(HomeOf[r]) /\ AddEntry(Entry(r, 0)) /\ SetProd(r, "accepted")
       \/ ReplyLost(HomeOf[r]) /\ AddEntry(Entry(r, 0)) /\ SetProd(r, "rejected")
       \/ Refused(HomeOf[r]) /\ SetProd(r, "undo") /\ UNCHANGED stream
    /\ UNCHANGED <<store, process, jobs, results>>

-----------------------------------------------------------------------------
(* _consumeLoop: reclaim, else read normal, else read bulk; every batch is *)
(* awaited in full before the loop turns.                                  *)

JobsOf(g) == {j \in jobs : j.gw = g}
NoBarrier(g) == TRUE                         \* slip: the batch is not awaited
BatchDone(g) == JobsOf(g) = {}
NewJob(g, e) == [gw |-> g, entry |-> e, attempts |-> e.attempts, res |-> "none",
                 pc |-> IF e.req \in Keyed THEN "cache" ELSE "limit"]
SetLoop(g, l) == loop' = [loop EXCEPT ![g] = l]

\* The while condition, once the previous batch has been dispatched.
IgnoresClosing(g) == "claimNormal"           \* slip: closed is not read
NextTurn(g) == IF closing[g] THEN "exited" ELSE "claimNormal"
Turn(g) ==
    /\ loop[g] = "top"
    /\ BatchDone(g)
    /\ SetLoop(g, NextTurn(g))
    /\ UNCHANGED <<stream, store, closing, results, prod, link, jobs, used>>

\* _dispatch of a batch, or the loss of it with the reply on the consumer's
\* own connection (the loop then waits a second and starts over).
Take(g, batch) ==
    /\ pel' = pel \cup batch
    /\ SetLoop(g, "top")
    /\ \/ jobs' = jobs \cup {NewJob(g, e) : e \in batch} /\ UNCHANGED used
       \/ Spend("fault") /\ UNCHANGED jobs
    /\ UNCHANGED <<kept, lastId, group, store, closing, results, prod, link>>

\* XAUTOCLAIM on one stream and then on the other.  What the first returned is
\* in hand, and not dispatched before the second has answered; an error of the
\* second loses it.
Claiming(p) == IF p = "normal" THEN "claimNormal" ELSE "claimBulk"
AfterClaim(g, p, batch) ==
    IF p = "normal" THEN "claimBulk"
    ELSE IF batch \cup JobsOf(g) = {} THEN "normal" ELSE "top"
NeverReclaims(p) == {}                       \* slip: XAUTOCLAIM is left out
Reclaimable(p) == Oldest(OfStream(stale, p), BatchSize)
LosesHand(g) == jobs' = jobs \ JobsOf(g)
ClaimPending(g) == \E p \in Priorities :
    /\ loop[g] = Claiming(p)
    /\ group[p]
    /\ stale' = stale \ Reclaimable(p)
    /\ \/ /\ jobs' = jobs \cup {NewJob(g, e) : e \in Reclaimable(p)}
          /\ SetLoop(g, AfterClaim(g, p, Reclaimable(p)))
          /\ UNCHANGED used
       \/ LosesHand(g) /\ SetLoop(g, "top") /\ Spend("fault")
    /\ UNCHANGED <<fresh, pel, kept, lastId, group, store, closing, results,
                   prod, link>>

\* XREADGROUP > on one stream, and its BLOCK timeout when there is nothing.
Read(g) == \E p \in Priorities :
    /\ loop[g] = p
    /\ group[p]
    /\ OfStream(fresh, p) # {}
    /\ LET batch == Oldest(OfStream(fresh, p), BatchSize)
       IN  Take(g, batch) /\ fresh' = fresh \ batch
    /\ UNCHANGED stale
ReadNone(g) == \E p \in Priorities :
    /\ loop[g] = p
    /\ group[p]
    /\ OfStream(fresh, p) = {}
    /\ SetLoop(g, IF p = "normal" THEN "bulk" ELSE "top")
    /\ UNCHANGED <<stream, store, closing, results, prod, link, jobs, used>>

\* XGROUP CREATE $ MKSTREAM on both streams: a group that was missing starts
\* after the last entry, so it never delivers what the stream already held.
Unread == {e \in fresh : ~group[PrioOf(e.req)]}
EnsureNormalGroup ==                         \* slip: one stream is forgotten
    /\ group' = [group EXCEPT !["normal"] = TRUE]
    /\ UNCHANGED <<fresh, pel, kept, lastId>>
EnsureGroups ==
    /\ group' = [p \in Priorities |-> TRUE]
    /\ fresh' = fresh \ Unread
    /\ kept' = kept \cup Unread
    /\ UNCHANGED <<pel, lastId>>

\* NOGROUP from any of the commands: recreate the groups, unless the queue is
\* closing, and start over.
RecoverGroups(g) ==
    /\ \E p \in Priorities : loop[g] \in {p, Claiming(p)} /\ ~group[p]
    /\ IF closing[g] THEN UNCHANGED <<fresh, pel, kept, lastId, group>>
                     ELSE EnsureGroups
    /\ LosesHand(g)
    /\ SetLoop(g, "top")
    /\ UNCHANGED <<stale, store, closing, results, prod, link, used>>

Loop(g) == \/ Turn(g) \/ ClaimPending(g)
           \/ Read(g) \/ ReadNone(g) \/ RecoverGroups(g)

-----------------------------------------------------------------------------
(* One job: _handleQueuedItem, _execute and _finish, then the rest of      *)
(* _dispatch.  Each step is one await.                                     *)

Move(j, k) == jobs' = (jobs \ {j}) \cup {k}
Leave(j) == jobs' = jobs \ {j}
At(j, pc) == [j EXCEPT !.pc = pc]
Having(j, pc, res) == [j EXCEPT !.pc = pc, !.res = res]

\* GET of the cached response.  A failing GET leaves the entry pending.
CheckCache(j) ==
    /\ j.pc = "cache"
    /\ \/ /\ Answered(j.gw)
          /\ Move(j, IF cached[j.entry.req] = "none" THEN At(j, "limit")
                     ELSE Having(j, "replay", cached[j.entry.req]))
       \/ Failed(j.gw) /\ Leave(j)
    /\ UNCHANGED <<stream, store, process, results, prod>>

\* Deadline check and rate limiter: execute (one more attempt), park, or
\* answer with an error (deadline passed, limiter unavailable).
CheckLimit(j) ==
    /\ j.pc = "limit"
    /\ \/ Move(j, [At(j, "call") EXCEPT !.attempts = @ + 1]) /\ UNCHANGED used
       \/ Move(j, At(j, "defer")) /\ Spend("denial")
       \/ Move(j, Having(j, "finish", "err")) /\ UNCHANGED used
    /\ UNCHANGED <<stream, store, process, results, prod, link>>

\* The adapter returns, or fails with a retryable or a final error.
RetriesOnce(attempts) == attempts <= MaxAttempts + 1   \* slip: off by one
MayRetry(attempts) == attempts <= MaxAttempts
Execute(j) ==
    /\ j.pc = "call"
    /\ \/ \E o \in Outcomes : Move(j, Having(j, "finish", o))
       \/ MayRetry(j.attempts) /\ Move(j, At(j, "defer"))
    /\ UNCHANGED <<stream, store, process, results, prod, link, used>>

\* SCHEDULE_RETRY with preserveDepth: store or overwrite the request's token.
\* Any error, even one after the script ran, becomes an error response.
ParksZero(j) ==                              \* slip: the count starts over
    retry' = [retry EXCEPT ![j.entry.req] = 0]
Park(j) == retry' = [retry EXCEPT ![j.entry.req] = j.attempts]
Defer(j) ==
    /\ j.pc = "defer"
    /\ \/ Answered(j.gw) /\ Park(j) /\ Move(j, Having(j, "ack", "deferred"))
       \/ ReplyLost(j.gw) /\ Park(j) /\ Move(j, Having(j, "finish", "err"))
       \/ Refused(j.gw) /\ UNCHANGED retry /\ Move(j, Having(j, "finish", "err"))
    /\ UNCHANGED <<stream, depth, cached, process, results, prod>>

\* _deliverResponse: sent on an open WebSocket or else persisted by HSET and
\* EXPIRE; when the persisting fails, the HSET may have landed all the same.
ReportsNothing(j) == UNCHANGED results       \* slip: the send is forgotten
Report(j) == results' = [results EXCEPT ![j.entry.req] = Append(@, j.res)]
Delivered(j) == Report(j) /\ UNCHANGED <<link, used>>
DeliveryFailed(j) == \/ Refused(j.gw) /\ UNCHANGED results
                     \/ link[j.gw] /\ Failed(j.gw) /\ Report(j)

\* The cached response goes out like a new one; an error leaves the entry
\* pending.
Replay(j) ==
    /\ j.pc = "replay"
    /\ \/ Delivered(j) /\ Move(j, At(j, "ack"))
       \/ DeliveryFailed(j) /\ Leave(j)
    /\ UNCHANGED <<stream, store, process, prod>>

\* storeIdempotencyResult, not awaited: lost with the link, or with the fault
\* of this step.
StoreResult(j) ==
    LET stored == [cached EXCEPT ![j.entry.req] = j.res]
    IN  IF j.entry.req \in Keyed /\ link[j.gw]
        THEN cached' = stored \/ (used' # used /\ UNCHANGED cached)
        ELSE UNCHANGED cached

\* _finish.  Awaited inside the try block of _execute: when the response of a
\* successful call cannot be persisted, the catch block finishes the item
\* again, as a failed call.
AcksAnyway(j) == Move(j, At(j, "ack"))       \* slip: the error is swallowed
Undelivered(j) ==
    IF j.res = "ok" THEN Move(j, Having(j, "finish", "err")) ELSE Leave(j)
Finish(j) ==
    /\ j.pc = "finish"
    /\ \/ Delivered(j) /\ Move(j, At(j, "ack"))
       \/ DeliveryFailed(j) /\ Undelivered(j)
    /\ StoreResult(j)
    /\ UNCHANGED <<stream, depth, retry, process, prod>>

\* XACK.  An error leaves the entry pending, unless only the reply was lost.
Settle(e) == /\ pel' = pel \ {e}
             /\ stale' = stale \ {e}
             /\ kept' = kept \cup ({e} \cap pel)
             /\ UNCHANGED <<fresh, lastId, group>>
Ack(j) ==
    /\ j.pc = "ack"
    /\ \/ Answered(j.gw) /\ Settle(j.entry) /\ Move(j, At(j, "del"))
       \/ ReplyLost(j.gw) /\ Settle(j.entry) /\ Leave(j)
       \/ Refused(j.gw) /\ UNCHANGED stream /\ Leave(j)
    /\ UNCHANGED <<store, process, results, prod>>

\* XDEL, whose errors are swallowed.  A deferred item keeps its slot.
FreesSlot(j) == FALSE                        \* slip: DECR after a deferral too
KeepsSlot(j) == j.res = "deferred"
Delete(e) == kept' = kept \ {e}
Del(j) ==
    /\ j.pc = "del"
    /\ \/ Executed(j.gw) /\ Delete(j.entry)
       \/ Refused(j.gw) /\ UNCHANGED kept
    /\ IF KeepsSlot(j) THEN Leave(j) ELSE Move(j, At(j, "decr"))
    /\ UNCHANGED <<fresh, pel, stale, lastId, group, store, process, results, prod>>

\* DECR depthKey; an error is only logged.
Decr(j) ==
    /\ j.pc = "decr"
    /\ \/ Executed(j.gw) /\ depth' = depth - 1
       \/ Refused(j.gw) /\ UNCHANGED depth
    /\ Leave(j)
    /\ UNCHANGED <<stream, retry, cached, process, results, prod>>

JobStep(j) == \/ CheckCache(j) \/ CheckLimit(j) \/ Execute(j) \/ Defer(j)
              \/ Replay(j) \/ Finish(j) \/ Ack(j) \/ Del(j) \/ Decr(j)

-----------------------------------------------------------------------------
(* The retry loop, idle time, and the life of a gateway process.           *)

\* PROMOTE_RETRY: one due token becomes a new entry, in one script.
LeavesToken(r) == UNCHANGED retry            \* slip: ZREM is left out
Unpark(r) == retry' = [retry EXCEPT ![r] = NotScheduled]
Promote(g, r) ==
    /\ Up(g)
    /\ retry[r] # NotScheduled
    /\ Executed(g)
    /\ AddEntry(Entry(r, retry[r]))
    /\ Unpark(r)
    /\ UNCHANGED <<depth, cached, process, results, prod, jobs>>

\* A pending entry's idle time passes claimIdleMs.  With the margin, no job
\* is still working on it; a broken link is up again long before.
ClaimsRunning(e) == TRUE                     \* slip: claimIdleMs too short
Abandoned(e) == ClaimMargin => \A j \in jobs : j.entry # e
IdleElapses ==
    /\ \A g \in Gateways : Up(g) => link[g]
    /\ \E e \in pel \ stale :
          /\ Abandoned(e)
          /\ stale' = stale \cup {e}
    /\ UNCHANGED <<fresh, pel, kept, lastId, group, store, process, results,
                   prod, link, jobs, used>>

Reconnect(g) ==
    /\ loop[g] # "down"
    /\ ~link[g]
    /\ link' = [link EXCEPT ![g] = TRUE]
    /\ UNCHANGED <<stream, store, process, results, prod, jobs, used>>

\* The process is gone, or its connections are: whatever it was doing for an
\* unanswered request ends here.
InFlight == {"rollback", "xadd", "undo"}
Vanish(g) ==
    /\ SetLoop(g, "down")
    /\ link' = [link EXCEPT ![g] = FALSE]
    /\ jobs' = jobs \ JobsOf(g)
    /\ prod' = [r \in Requests |-> IF HomeOf[r] = g /\ prod[r] \in InFlight
                                   THEN "rejected" ELSE prod[r]]
Crash(g) ==
    /\ loop[g] # "down"
    /\ Spend("crash")
    /\ Vanish(g)
    /\ UNCHANGED <<stream, store, closing, results>>

\* stop(): set closed, wait for both loops, quit both connections.
BeginStop(g) ==
    /\ Up(g)
    /\ ~closing[g]
    /\ Spend("stop")
    /\ closing' = [closing EXCEPT ![g] = TRUE]
    /\ UNCHANGED <<stream, store, loop, results, prod, link, jobs>>
Quit(g) ==
    /\ loop[g] = "exited"
    /\ Vanish(g)
    /\ UNCHANGED <<stream, store, closing, results, used>>

\* A new process connects and listens; then start() creates the groups.
Restart(g) ==
    /\ loop[g] = "down"
    /\ SetLoop(g, "boot")
    /\ closing' = [closing EXCEPT ![g] = FALSE]
    /\ link' = [link EXCEPT ![g] = TRUE]
    /\ UNCHANGED <<stream, store, results, prod, jobs, used>>
Start(g) ==
    /\ loop[g] = "boot"
    /\ EnsureGroups
    /\ SetLoop(g, "top")
    /\ UNCHANGED <<stale, store, closing, results, prod, link, jobs, used>>

\* An operator deletes a stream, and with it its group and pending list.
Wipe(p) ==
    /\ Spend("wipe")
    /\ group' = [group EXCEPT ![p] = FALSE]
    /\ fresh' = fresh \ OfStream(fresh, p)
    /\ pel' = pel \ OfStream(pel, p)
    /\ stale' = stale \ OfStream(stale, p)
    /\ kept' = kept \ OfStream(kept, p)
    /\ UNCHANGED <<lastId, store, process, results, prod, link, jobs>>

-----------------------------------------------------------------------------
Init ==
    /\ fresh = {} /\ pel = {} /\ stale = {} /\ kept = {}
    /\ lastId = 0
    /\ group = [p \in Priorities |-> ~FirstBoot]
    /\ depth = 0
    /\ retry = [r \in Requests |-> NotScheduled]
    /\ cached = [r \in Requests |-> "none"]
    /\ prod = [r \in Requests |-> "new"]
    /\ loop = [g \in Gateways |-> "boot"]
    /\ closing = [g \in Gateways |-> FALSE]
    /\ link = [g \in Gateways |-> TRUE]
    /\ jobs = {}
    /\ results = [r \in Requests |-> <<>>]
    /\ used = [k \in Kinds |-> 0]

Producer(r) == Reserve(r) \/ GiveBack(r) \/ XAdd(r)
Jobs(g) == loop[g] # "claimBulk" /\ \E j \in JobsOf(g) : JobStep(j)
Promotion(r) == \E g \in Gateways : Promote(g, r)
Recovery(g) == Reconnect(g) \/ Restart(g) \/ Start(g) \/ Quit(g)
Disturbance == \/ \E g \in Gateways : Crash(g) \/ BeginStop(g)
               \/ \E p \in Priorities : Wipe(p)

Next == \/ \E r \in Requests : Producer(r) \/ Promotion(r)
        \/ \E g \in Gateways : Loop(g) \/ Jobs(g) \/ Recovery(g)
        \/ IdleElapses
        \/ Disturbance

Spec == Init /\ [][Next]_vars

\* Every process is scheduled, idle time and retry delays pass, a broken link
\* is re-established and a stopped gateway is started again.
Fairness == /\ \A r \in Requests : WF_vars(Producer(r)) /\ WF_vars(Promotion(r))
            /\ \A g \in Gateways : /\ WF_vars(Loop(g)) /\ WF_vars(Jobs(g))
                                    /\ WF_vars(Recovery(g))
            /\ WF_vars(IdleElapses)
FairSpec == Spec /\ Fairness
=============================================================================
