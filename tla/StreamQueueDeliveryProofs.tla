--------------------- MODULE StreamQueueDeliveryProofs ---------------------
(* Further theorems about StreamQueue: one job per entry, the refinement   *)
(* of WorkQueue, exactly-once answers and the slot counter.                *)
EXTENDS StreamQueueProofs, StreamQueueRuns, FiniteSetTheorems

USE DEF vars, stream, store, process

-----------------------------------------------------------------------------
(* Jobs and the entries they work on.                                      *)

\* A step of a job ends it or replaces it by one for the same entry.
LEMMA JobMoves ==
    ASSUME TypeOK, NEW j \in jobs, JobStep(j)
    PROVE  /\ JobFrame(j)
           /\ \/ Leave(j)
              \/ \E k : Move(j, k) /\ k.entry = j.entry /\ k.gw = j.gw
<1>0. j \in JobType /\ JobFrame(j)
  BY JobFields, FrameOfJob
<1>1. \A pc, res : Having(j, pc, res).entry = j.entry /\ Having(j, pc, res).gw = j.gw
  BY <1>0 DEF Having, JobType
<1>2. /\ [At(j, "call") EXCEPT !.attempts = @ + 1].entry = j.entry
      /\ [At(j, "call") EXCEPT !.attempts = @ + 1].gw = j.gw
  BY <1>0 DEF At, JobType
<1>3. \/ Leave(j)
      \/ \E pc, res : Move(j, Having(j, pc, res))
      \/ Move(j, [At(j, "call") EXCEPT !.attempts = @ + 1])
  BY <1>0 DEF JobFrame
<1>4. QED BY <1>0, <1>1, <1>2, <1>3

\* One batch hands out each entry once.
LEMMA BatchJobs ==
    ASSUME NEW g, NEW batch, Take(g, batch)
    PROVE  \A k \in jobs' : k \in jobs \/ (k.entry \in batch /\ k = NewJob(g, k.entry))
BY DEF Take, NewJob

-----------------------------------------------------------------------------
(* No entry is worked on twice.  Either an entry is reclaimed only when no *)
(* job can still hold it, or there is one gateway, whose loop awaits its   *)
(* batch before it reclaims.                                               *)

Exclusive == ClaimMargin \/ \A g, h \in Gateways : g = h

\* The inductive invariant: what a job holds is no longer fresh, nothing is both
\* fresh and pending, the loop of a gateway with jobs has not gone on, unless it
\* has the normal part of a reclaim in hand, and what is stale is held by no job.
OutOfFresh == \A j \in jobs : j.entry \notin fresh
FreshOrPending == fresh \cap pel = {}
Awaited == \A j \in jobs : \/ loop[j.gw] = "top"
                            \/ (loop[j.gw] = "claimBulk" /\ PrioOf(j.entry.req) = "normal")
StaleIdle == ClaimMargin => \A e \in stale, j \in jobs : j.entry # e
DispatchInv == TypeOK /\ Numbered /\ OutOfFresh /\ FreshOrPending /\ Awaited
               /\ StaleIdle /\ NoDoubleDispatch

LEMMA DispatchInit == Init => DispatchInv
BY TypeInit DEF Init, DispatchInv, Numbered, Entries, Unacked, OutOfFresh, FreshOrPending,
   Awaited, StaleIdle, NoDoubleDispatch

\* Where nothing is added the invariant stays.
LEMMA DispatchShrinks ==
    ASSUME DispatchInv, TypeOK', Numbered', fresh' \subseteq fresh, pel' \subseteq pel,
           stale' \subseteq stale, jobs' \subseteq jobs, Awaited'
    PROVE  DispatchInv'
BY DEF DispatchInv, OutOfFresh, FreshOrPending, StaleIdle, NoDoubleDispatch

LEMMA DispatchAdds ==
    ASSUME DispatchInv, TypeOK', Numbered', NEW e, e.id = lastId + 1, AddEntry(e),
           UNCHANGED <<loop, jobs>>
    PROVE  DispatchInv'
<1>1. e \notin Entries
  BY DEF DispatchInv, Numbered, TypeOK
<1>2. OutOfFresh' /\ FreshOrPending'
  BY <1>1 DEF AddEntry, DispatchInv, OutOfFresh, FreshOrPending, Entries, Unacked
<1>3. QED
  BY <1>2 DEF AddEntry, DispatchInv, Awaited, StaleIdle, NoDoubleDispatch

\* A batch of entries that no job holds.
LEMMA DispatchTakes ==
    ASSUME DispatchInv, TypeOK', Numbered', NEW g \in Gateways, NEW batch, Take(g, batch),
           \A j \in jobs : j.entry \notin batch, JobsOf(g) = {},
           fresh' \subseteq fresh, stale' \subseteq stale,
           batch \cap fresh' = {}, batch \cap stale' = {}
    PROVE  DispatchInv'
<1>1. \A k \in jobs' : k \in jobs \/ (k.entry \in batch /\ k = NewJob(g, k.entry))
  BY BatchJobs
<1>2. \A k : k = NewJob(g, k.entry) => k.gw = g
  BY DEF NewJob
<1>3. OutOfFresh' /\ FreshOrPending'
  BY <1>1 DEF DispatchInv, OutOfFresh, FreshOrPending, Take
<1>4. Awaited'
  BY <1>1, <1>2 DEF DispatchInv, TypeOK, Awaited, Take, SetLoop, JobsOf
<1>5. StaleIdle'
  BY <1>1 DEF DispatchInv, StaleIdle
<1>6. NoDoubleDispatch'
  BY <1>1 DEF DispatchInv, NoDoubleDispatch
<1>7. QED BY <1>3, <1>4, <1>5, <1>6 DEF DispatchInv

LEMMA DispatchJob ==
    ASSUME DispatchInv, TypeOK', Numbered', NEW j \in jobs, JobStep(j)
    PROVE  DispatchInv'
<1>0. JobFrame(j)
  BY JobMoves DEF DispatchInv
<1>1. fresh' = fresh /\ pel' \subseteq pel /\ stale' \subseteq stale /\ loop' = loop
  BY <1>0 DEF JobFrame
<1>2. CASE Leave(j)
  BY <1>1, <1>2, DispatchShrinks DEF Leave, DispatchInv, Awaited
<1>3. ASSUME NEW k, Move(j, k), k.entry = j.entry, k.gw = j.gw PROVE DispatchInv'
  <2>1. \A i \in jobs' : i = k \/ (i \in jobs /\ i # j)
    BY <1>3 DEF Move
  <2>2. OutOfFresh' /\ FreshOrPending'
    BY <1>1, <1>3, <2>1 DEF DispatchInv, OutOfFresh, FreshOrPending
  <2>3. Awaited' /\ StaleIdle'
    BY <1>1, <1>3, <2>1 DEF DispatchInv, Awaited, StaleIdle
  <2>4. NoDoubleDispatch'
    BY <1>3, <2>1 DEF DispatchInv, NoDoubleDispatch
  <2>5. QED BY <2>2, <2>3, <2>4 DEF DispatchInv
<1>4. QED BY <1>2, <1>3, JobMoves DEF DispatchInv

\* What a reclaim finds is held by nobody.
LEMMA ReclaimIdle ==
    ASSUME DispatchInv, Exclusive, NEW g \in Gateways, NEW p \in Priorities,
           loop[g] = Claiming(p)
    PROVE  \A j \in jobs : j.entry \notin Reclaimable(p)
<1>1. \A e \in Reclaimable(p) : e \in stale /\ PrioOf(e.req) = p
  BY DEF Reclaimable, Oldest, OfStream
<1>2. CASE ClaimMargin
  BY <1>1, <1>2 DEF DispatchInv, StaleIdle
<1>3. CASE \A h \in Gateways : g = h
  <2> SUFFICES ASSUME NEW j \in jobs, j.entry \in Reclaimable(p) PROVE FALSE
    OBVIOUS
  <2>1. j.gw = g
    BY <1>3, JobFields DEF DispatchInv
  <2>2. loop[g] = "claimBulk" /\ PrioOf(j.entry.req) = "normal"
    BY <2>1 DEF DispatchInv, Awaited, Claiming, Priorities
  <2>3. QED BY <1>1, <2>2 DEF Claiming, Priorities
<1>4. QED BY <1>2, <1>3 DEF Exclusive

\* XAUTOCLAIM on one stream: a batch of entries that no job holds, or an error.
LEMMA DispatchClaims ==
    ASSUME DispatchInv, TypeOK', Numbered', Exclusive, NEW g \in Gateways, ClaimPending(g)
    PROVE  DispatchInv'
<1>1. PICK p \in Priorities :
        /\ loop[g] = Claiming(p)
        /\ stale' = stale \ Reclaimable(p)
        /\ \/ /\ jobs' = jobs \cup {NewJob(g, e) : e \in Reclaimable(p)}
              /\ SetLoop(g, AfterClaim(g, p, Reclaimable(p)))
           \/ LosesHand(g) /\ SetLoop(g, "top")
  BY DEF ClaimPending
<1>2. /\ fresh' = fresh /\ pel' = pel /\ loop \in [Gateways -> LoopStates]
      /\ \A j \in jobs : j.gw \in Gateways
  BY ClaimEffect, JobFields DEF DispatchInv, TypeOK
<1>3. CASE LosesHand(g) /\ SetLoop(g, "top")
  <2>1. Awaited'
    BY <1>2, <1>3 DEF LosesHand, SetLoop, JobsOf, DispatchInv, Awaited
  <2>2. QED BY <1>1, <1>2, <1>3, <2>1, DispatchShrinks DEF LosesHand
<1>4. CASE /\ jobs' = jobs \cup {NewJob(g, e) : e \in Reclaimable(p)}
           /\ SetLoop(g, AfterClaim(g, p, Reclaimable(p)))
  <2>1. \A e \in Reclaimable(p) : /\ e \in stale /\ e \in pel /\ PrioOf(e.req) = p
                                 /\ NewJob(g, e).entry = e /\ NewJob(g, e).gw = g
    BY DEF Reclaimable, Oldest, OfStream, NewJob, DispatchInv, TypeOK
  <2>2. \A j \in jobs : j.entry \notin Reclaimable(p)
    BY <1>1, ReclaimIdle
  <2>3. \A k \in jobs' : \/ k \in jobs
                        \/ \E e \in Reclaimable(p) : k = NewJob(g, e)
    BY <1>4
  <2>4. OutOfFresh' /\ FreshOrPending'
    BY <1>2, <2>1, <2>3 DEF DispatchInv, OutOfFresh, FreshOrPending
  <2>5. StaleIdle'
    BY <1>1, <2>1, <2>3 DEF DispatchInv, StaleIdle
  <2>6. NoDoubleDispatch'
    BY <2>1, <2>2, <2>3 DEF DispatchInv, NoDoubleDispatch
  <2>7. Awaited'
    <3> SUFFICES ASSUME NEW k \in jobs'
                 PROVE  \/ loop'[k.gw] = "top"
                        \/ (loop'[k.gw] = "claimBulk" /\ PrioOf(k.entry.req) = "normal")
      BY DEF Awaited
    <3>1. CASE k.gw # g
      <4>1. k \in jobs /\ loop'[k.gw] = loop[k.gw]
        BY <1>2, <1>4, <2>1, <2>3, <3>1 DEF SetLoop
      <4>2. QED BY <4>1 DEF DispatchInv, Awaited
    <3>2. CASE k.gw = g /\ p = "normal"
      <4>1. loop'[g] = "claimBulk"
        BY <1>2, <1>4, <3>2 DEF SetLoop, AfterClaim
      <4>2. k \notin jobs
        BY <1>1, <3>2 DEF DispatchInv, Awaited, Claiming
      <4>3. QED BY <2>1, <2>3, <3>2, <4>1, <4>2
    <3>3. CASE k.gw = g /\ p = "bulk"
      <4>1. Reclaimable(p) \cup JobsOf(g) # {}
        BY <2>3, <3>3 DEF JobsOf
      <4>2. loop'[g] = "top"
        BY <1>2, <1>4, <3>3, <4>1 DEF SetLoop, AfterClaim
      <4>3. QED BY <3>3, <4>2
    <3>4. QED BY <3>1, <3>2, <3>3 DEF Priorities
  <2>8. QED BY <2>4, <2>5, <2>6, <2>7 DEF DispatchInv
<1>5. QED BY <1>1, <1>3, <1>4

LEMMA DispatchNext == Exclusive /\ DispatchInv /\ [Next]_vars => DispatchInv'
<1> SUFFICES ASSUME Exclusive, DispatchInv, [Next]_vars PROVE DispatchInv'
  OBVIOUS
<1>0. TypeOK /\ Numbered /\ Awaited /\ TypeOK' /\ Numbered'
  BY TypeNext, NumberedNext DEF DispatchInv
<1>1. CASE UNCHANGED <<fresh, pel, stale, jobs, loop>>
  BY <1>0, <1>1, DispatchShrinks DEF Awaited
<1>2. ASSUME NEW r \in Requests, XAdd(r) PROVE DispatchInv'
  <2>1. UNCHANGED <<loop, jobs>>
    BY <1>2 DEF XAdd
  <2>2. Entry(r, 0).id = lastId + 1
    BY DEF Entry
  <2>3. AddEntry(Entry(r, 0)) \/ UNCHANGED stream
    BY <1>2 DEF XAdd
  <2>4. QED BY <1>0, <1>1, <2>1, <2>2, <2>3, DispatchAdds
<1>3. ASSUME NEW r \in Requests, NEW g \in Gateways, Promote(g, r) PROVE DispatchInv'
  <2>1. Entry(r, retry[r]).id = lastId + 1
    BY DEF Entry
  <2>2. AddEntry(Entry(r, retry[r])) /\ UNCHANGED <<loop, jobs>>
    BY <1>3 DEF Promote
  <2>3. QED BY <1>0, <2>1, <2>2, DispatchAdds
<1>4. ASSUME NEW g \in Gateways, ClaimPending(g) PROVE DispatchInv'
  BY <1>0, <1>4, DispatchClaims
<1>5. ASSUME NEW g \in Gateways, Read(g) PROVE DispatchInv'
  <2>1. PICK p \in Priorities :
          /\ loop[g] = p
          /\ Take(g, Oldest(OfStream(fresh, p), BatchSize))
          /\ fresh' = fresh \ Oldest(OfStream(fresh, p), BatchSize)
          /\ stale' = stale
    BY <1>5 DEF Read
  <2> DEFINE batch == Oldest(OfStream(fresh, p), BatchSize)
  <2>2. batch \subseteq fresh
    BY DEF Oldest, OfStream
  <2>3. JobsOf(g) = {}
    BY <1>0, <2>1 DEF Awaited, JobsOf, Priorities
  <2>4. /\ \A j \in jobs : j.entry \notin batch
        /\ batch \cap stale' = {}
    BY <1>0, <2>1, <2>2 DEF DispatchInv, OutOfFresh, FreshOrPending, TypeOK
  <2>5. QED BY <1>0, <2>1, <2>2, <2>3, <2>4, DispatchTakes
<1>6. ASSUME NEW g \in Gateways,
             Turn(g) \/ ReadNone(g) \/ RecoverGroups(g) \/ Start(g) \/ Restart(g)
      PROVE  DispatchInv'
  <2>1. /\ fresh' \subseteq fresh /\ pel' = pel /\ stale' \subseteq stale
        /\ jobs' = jobs \ JobsOf(g) /\ \E l : SetLoop(g, l)
    <3>1. CASE RecoverGroups(g)
      BY <3>1, RecoverEffect
    <3>2. CASE Turn(g) \/ ReadNone(g) \/ Start(g) \/ Restart(g)
      <4>1. JobsOf(g) = {}
        BY <1>0, <3>2 DEF Turn, BatchDone, ReadNone, Start, Restart, Awaited, JobsOf, Priorities
      <4>2. QED BY <3>2, <4>1 DEF Turn, ReadNone, Start, Restart, EnsureGroups
    <3>3. QED BY <1>6, <3>1, <3>2
  <2>2. Awaited'
    BY <1>0, <2>1, JobFields DEF SetLoop, Awaited, JobsOf, TypeOK
  <2>3. QED BY <1>0, <2>1, <2>2, DispatchShrinks
<1>7. ASSUME NEW g \in Gateways, Quit(g) \/ Crash(g) PROVE DispatchInv'
  <2>1. jobs' = jobs \ JobsOf(g) /\ SetLoop(g, "down") /\ UNCHANGED stream
    BY <1>7 DEF Quit, Crash, Vanish
  <2>2. Awaited'
    BY <1>0, <2>1, JobFields DEF SetLoop, Awaited, JobsOf, TypeOK
  <2>3. QED BY <1>0, <2>1, <2>2, DispatchShrinks
<1>8. ASSUME NEW p \in Priorities, Wipe(p) PROVE DispatchInv'
  BY <1>0, <1>8, DispatchShrinks DEF Wipe, Awaited
<1>9. CASE IdleElapses
  <2>1. UNCHANGED <<fresh, pel, loop, jobs>>
    BY <1>9 DEF IdleElapses
  <2>2. StaleIdle'
    BY <1>9 DEF IdleElapses, Abandoned, DispatchInv, StaleIdle
  <2>3. QED
    BY <1>0, <2>1, <2>2 DEF DispatchInv, OutOfFresh, FreshOrPending, Awaited, NoDoubleDispatch
<1>10. CASE \E j \in jobs : JobStep(j)
  BY <1>0, <1>10, DispatchJob
<1>11. QED
  BY NextCases, <1>1, <1>2, <1>3, <1>4, <1>5, <1>6, <1>7, <1>8, <1>9, <1>10
  DEF Reserve, GiveBack, Reconnect, BeginStop

\* redis-stream-queue.js: XAUTOCLAIM takes what has been idle for claimIdleMs,
\* longer than a job runs, and the loop awaits its batch.  So no two jobs ever
\* work on the same entry, through crashes, faults, stops and lost groups.
THEOREM OneJobPerEntry ==
    ASSUME Exclusive
    PROVE  Spec => []NoDoubleDispatch
<1>1. Init => DispatchInv
  BY DispatchInit
<1>2. DispatchInv /\ [Next]_vars => DispatchInv'
  BY DispatchNext
<1>3. DispatchInv => NoDoubleDispatch
  BY DEF DispatchInv
<1>4. QED BY <1>1, <1>2, <1>3, PTL DEF Spec

-----------------------------------------------------------------------------
(* The refinement of WorkQueue, as long as the consumer groups stand.      *)

\* What a step of a job can change of the copies of a request in Redis and of
\* its answers: it parks, it reports, it acknowledges, or none of these.
LEMMA JobEffects ==
    ASSUME TypeOK, NEW j \in jobs, JobStep(j)
    PROVE  \/ UNCHANGED <<pel, retry, results>>
           \/ j.pc = "defer" /\ Park(j) /\ UNCHANGED <<pel, results>>
           \/ /\ j.pc \in {"replay", "finish"} /\ j.res \in Outcomes
              /\ Report(j) /\ UNCHANGED <<pel, retry>>
           \/ j.pc = "ack" /\ pel' = pel \ {j.entry} /\ UNCHANGED <<retry, results>>
<1>1. CASE CheckCache(j) \/ CheckLimit(j) \/ Execute(j)
  BY <1>1 DEF CheckCache, CheckLimit, Execute
<1>2. CASE Defer(j)
  BY <1>2 DEF Defer
<1>3. CASE Replay(j) \/ Finish(j)
  BY <1>3, JobFields DEF Replay, Finish, Delivered, DeliveryFailed
<1>4. CASE Ack(j)
  BY <1>4 DEF Ack, Settle
<1>5. CASE Del(j) \/ Decr(j)
  BY <1>5 DEF Del, Decr
<1>6. QED BY <1>1, <1>2, <1>3, <1>4, <1>5 DEF JobStep

\* A job leaves the hands of its consumer at XACK, and never goes back.
LEMMA HandsOff ==
    ASSUME TypeOK, NEW j \in jobs, JobStep(j), j.pc \in {"ack", "del", "decr"},
           NEW k \in jobs', k \notin jobs
    PROVE  k.pc \in {"del", "decr"}
<1>1. \A pc : At(j, pc).pc = pc
  BY JobFields DEF At, JobType
<1>2. CASE Ack(j)
  BY <1>1, <1>2 DEF Ack, Move, Leave
<1>3. CASE Del(j) \/ Decr(j)
  BY <1>1, <1>3 DEF Del, Decr, Move, Leave
<1>4. QED
  BY <1>2, <1>3 DEF JobStep, CheckCache, CheckLimit, Execute, Defer, Replay, Finish

\* The inductive invariant: a job that has not acknowledged its entry finds it in
\* the pending list, a request that enqueue() has not settled has no copy in Redis
\* and no answer, and a request that Redis holds can run again or was answered.
Undecided == {"new"} \cup InFlight
InHand == \A j \in jobs : j.pc \notin {"del", "decr"} => j.entry \in pel
Absent(r) == /\ ~Reported(r) /\ retry[r] = NotScheduled
             /\ \A e \in Entries : e.req # r
NotYet == \A r \in Requests : prod[r] \in Undecided => Absent(r)
HeldServed == \A r \in Held : r \in Live \/ Reported(r)
HoldInv == DispatchInv /\ LossInv /\ InHand /\ NotYet /\ HeldServed

LEMMA HoldInit == GroupsSurvive /\ Init => HoldInv
BY DispatchInit, LossInit
DEF Init, HoldInv, InHand, NotYet, Absent, HeldServed, Held, Entries, Unacked, Scheduled, Reported

LEMMA InHandNext ==
    ASSUME GroupsSurvive, DispatchInv, InHand, [Next]_vars
    PROVE  InHand'
<1>0. TypeOK
  BY DEF DispatchInv
<1>1. CASE pel' = pel /\ jobs' \subseteq jobs
  BY <1>1 DEF InHand
<1>2. ASSUME NEW g \in Gateways, NEW batch, Take(g, batch) PROVE InHand'
  BY <1>2, BatchJobs DEF Take, InHand
<1>3. ASSUME NEW g \in Gateways, Quit(g) \/ Crash(g) PROVE InHand'
  BY <1>1, <1>3 DEF Quit, Crash, Vanish
<1>4. ASSUME NEW g \in Gateways, RecoverGroups(g) \/ Start(g) PROVE InHand'
  BY <1>1, <1>4, RecoverEffect DEF Start, EnsureGroups
<1>5. ASSUME NEW p \in Priorities, Wipe(p) PROVE FALSE
  BY <1>0, <1>5 DEF Wipe, Spend, GroupsSurvive, TypeOK, Kinds
<1>6. ASSUME NEW j \in jobs, JobStep(j) PROVE InHand'
  <2> SUFFICES ASSUME NEW k \in jobs', k.pc \notin {"del", "decr"} PROVE k.entry \in pel'
    BY DEF InHand
  <2>1. CASE k \notin jobs
    <3>1. k.entry = j.entry /\ j.pc \notin {"ack", "del", "decr"}
      BY <1>0, <1>6, <2>1, HandsOff, JobMoves, JobKeepsEntry
    <3>2. pel' = pel
      BY <1>0, <1>6, <3>1, JobEffects
    <3>3. QED BY <3>1, <3>2 DEF InHand
  <2>2. CASE k \in jobs /\ k # j
    <3>1. k.entry # j.entry /\ k.entry \in pel
      BY <2>2 DEF DispatchInv, NoDoubleDispatch, InHand
    <3>2. QED BY <1>0, <1>6, <3>1, JobEffects
  <2>3. CASE k = j
    <3>1. j.entry \in pel
      BY <2>3 DEF InHand
    <3>2. j.pc = "ack" => \A i \in jobs' : i # j
      BY <1>0, <1>6, JobFields DEF JobStep, CheckCache, CheckLimit, Execute, Defer, Replay,
         Finish, Ack, Del, Decr, Move, Leave, At, JobType
    <3>3. QED BY <1>0, <1>6, <2>3, <3>1, <3>2, JobEffects
  <2>4. QED BY <2>1, <2>2, <2>3
<1>7. ASSUME NEW g \in Gateways, ClaimPending(g) PROVE InHand'
  <2>1. \A e \in stale : NewJob(g, e).entry = e /\ e \in pel
    BY <1>0 DEF NewJob, TypeOK
  <2>2. QED BY <1>7, <2>1, ClaimEffect DEF InHand
<1>8. QED
  BY NextCases, <1>1, <1>2, <1>3, <1>4, <1>5, <1>6, <1>7
  DEF Reserve, GiveBack, XAdd, AddEntry, Promote, Turn, Read,
      ReadNone, Reconnect, Restart, BeginStop, IdleElapses

\* What is undecided was undecided, and gets no copy and no answer meanwhile.
LEMMA NotYetNext ==
    ASSUME TypeOK, NotYet, [Next]_vars
    PROVE  NotYet'
<1> SUFFICES ASSUME NEW r \in Requests, prod'[r] \in Undecided
             PROVE  Absent(r)'
  BY DEF NotYet
<1>1. CASE /\ prod[r] \in Undecided /\ results'[r] = results[r] /\ retry'[r] = retry[r]
           /\ \A e \in Entries' : e \in Entries \/ e.req # r
  BY <1>1 DEF NotYet, Absent, Reported
<1>2. ASSUME NEW q \in Requests, Reserve(q) \/ GiveBack(q)
      PROVE  Absent(r)'
  <2>1. prod[r] \in Undecided
    BY <1>2 DEF Reserve, GiveBack, SetProd, TypeOK, Undecided
  <2>2. Entries' = Entries /\ UNCHANGED <<results, retry>>
    BY <1>2 DEF Reserve, GiveBack, Entries, Unacked
  <2>3. QED BY <1>1, <2>1, <2>2
<1>3. ASSUME NEW q \in Requests, XAdd(q) PROVE Absent(r)'
  <2>1. prod[r] \in Undecided /\ (q = r => UNCHANGED stream)
    BY <1>3 DEF XAdd, SetProd, TypeOK, Undecided, InFlight
  <2>2. Entries' \subseteq Entries \cup {Entry(q, 0)} /\ UNCHANGED <<results, retry>>
    BY <1>3 DEF XAdd, AddEntry, Entries, Unacked
  <2>3. q = r => Entries' = Entries
    BY <1>3, <2>1 DEF XAdd, Entries, Unacked
  <2>4. QED BY <1>1, <2>1, <2>2, <2>3 DEF Entry
<1>4. ASSUME NEW q \in Requests, NEW g \in Gateways, Promote(g, q) PROVE Absent(r)'
  <2>1. prod' = prod /\ results' = results /\ retry[q] # NotScheduled
    BY <1>4 DEF Promote
  <2>2. q # r
    BY <2>1 DEF NotYet, Absent
  <2>3. retry'[r] = retry[r] /\ Entries' \subseteq Entries \cup {Entry(q, retry[q])}
    BY <1>4, <2>2 DEF Promote, Unpark, AddEntry, Entries, Unacked, TypeOK
  <2>4. QED BY <1>1, <2>1, <2>2, <2>3 DEF Entry
<1>5. ASSUME NEW j \in jobs, JobStep(j) PROVE Absent(r)'
  <2>1. JobFrame(j) /\ j.entry.req \in Requests
    BY <1>5, JobMoves, JobFields
  <2>2. prod' = prod /\ j.entry.req # r
    BY <2>1 DEF JobFrame, NotYet, Absent, Entries
  <2>3. results'[r] = results[r] /\ retry'[r] = retry[r]
    BY <1>5, <2>2, JobEffects DEF Report, Park, TypeOK
  <2>4. Entries' \subseteq Entries
    BY <2>1, JobKeepsEntry DEF JobFrame, Entries, Unacked
  <2>5. QED BY <1>1, <2>2, <2>3, <2>4
<1>6. ASSUME NEW g \in Gateways, Quit(g) \/ Crash(g) PROVE Absent(r)'
  <2>1. prod[r] \in Undecided
    BY <1>6 DEF Quit, Crash, Vanish, Undecided
  <2>2. Entries' \subseteq Entries /\ UNCHANGED <<results, retry>>
    BY <1>6 DEF Quit, Crash, Vanish, Entries, Unacked
  <2>3. QED BY <1>1, <2>1, <2>2
<1>7. ASSUME lastId' = lastId, UNCHANGED <<prod, results, retry>>
      PROVE  Absent(r)'
  <2>1. EntriesStep
    BY EntriesNext
  <2>2. Entries' \subseteq Entries
    BY <1>7, <2>1 DEF EntriesStep, TypeOK
  <2>3. QED BY <1>1, <1>7, <2>2
<1>8. QED
  BY NextCases, <1>2, <1>3, <1>4, <1>5, <1>6, <1>7
  DEF Turn, ClaimPending, Read, Take, ReadNone, RecoverGroups, EnsureGroups,
      Reconnect, Restart, Start, BeginStop, Wipe, IdleElapses
\* Seen from outside, a step takes a request in, answers one, may let go of the
\* one whose entry it acknowledges, or changes neither what is held nor the answers.
Takes(q) == /\ prod[q] = "xadd" /\ AddEntry(Entry(q, 0)) /\ jobs' = jobs
            /\ Held' = Held \cup {q} /\ results' = results
Answers(j) == /\ j.res \in Outcomes /\ j.entry.req \in Held
              /\ Report(j) /\ Held' = Held
LetsGo(j) == /\ Held' \subseteq Held /\ Held \subseteq Held' \cup {j.entry.req}
             /\ results' = results

LEMMA OuterStep ==
    ASSUME GroupsSurvive, HoldInv, [Next]_vars
    PROVE  \/ \E q \in Requests : Takes(q)
           \/ \E j \in jobs : Answers(j) \/ LetsGo(j)
           \/ Held' = Held /\ results' = results
<1> DEFINE Outer == \/ \E q \in Requests : Takes(q)
                    \/ \E j \in jobs : Answers(j) \/ LetsGo(j)
                    \/ Held' = Held /\ results' = results
<1>0. TypeOK /\ GroupsStand /\ InHand
  BY DEF HoldInv, DispatchInv, LossInv
<1>1. CASE UNCHANGED <<fresh, pel, retry, results>>
  BY <1>1 DEF Held, Unacked, Scheduled
<1>2. ASSUME NEW q \in Requests, XAdd(q) PROVE Outer
  <2>1. CASE AddEntry(Entry(q, 0))
    <3>1. jobs' = jobs /\ results' = results /\ retry' = retry /\ prod[q] = "xadd"
      BY <1>2 DEF XAdd
    <3>2. Unacked' = Unacked \cup {Entry(q, 0)} /\ Entry(q, 0).req = q
      BY <2>1 DEF AddEntry, Unacked, Entry
    <3>3. Held' = Held \cup {q}
      BY <3>1, <3>2 DEF Held, Scheduled
    <3>4. QED BY <2>1, <3>1, <3>3 DEF Takes
  <2>2. CASE UNCHANGED stream
    BY <1>1, <1>2, <2>2 DEF XAdd
  <2>3. QED BY <1>2, <2>1, <2>2 DEF XAdd
<1>3. ASSUME NEW q \in Requests, NEW g \in Gateways, Promote(g, q) PROVE Outer
  <2>1. /\ Unacked' = Unacked \cup {Entry(q, retry[q])} /\ Entry(q, retry[q]).req = q
        /\ results' = results
    BY <1>3 DEF Promote, AddEntry, Unacked, Entry
  <2>2. Scheduled = Scheduled' \cup {q}
    BY <1>0, <1>3 DEF Promote, Unpark, Scheduled, TypeOK
  <2>3. Held' = Held
    BY <2>1, <2>2 DEF Held
  <2>4. QED BY <2>1, <2>3
<1>4. ASSUME NEW g \in Gateways, ClaimPending(g) \/ Read(g) PROVE Outer
  <2>1. UNCHANGED <<retry, results>>
    BY <1>4, ClaimEffect DEF Read, Take
  <2>2. CASE ClaimPending(g)
    BY <1>1, <2>2, ClaimEffect
  <2>3. CASE Read(g)
    <3>1. \A p : Oldest(OfStream(fresh, p), BatchSize) \subseteq fresh
      BY DEF Oldest, OfStream
    <3>2. Unacked' = Unacked
      BY <2>3, <3>1 DEF Read, Take, Unacked
    <3>3. QED BY <2>1, <3>2 DEF Held, Scheduled
  <2>4. QED BY <1>4, <2>2, <2>3
<1>5. ASSUME NEW g \in Gateways, RecoverGroups(g) \/ Start(g) PROVE Outer
  <2>1. \A e \in fresh : group[PrioOf(e.req)]
    BY <1>0 DEF GroupsStand, PrioOf, Priorities
  <2>2. QED BY <1>1, <1>5, <2>1, RecoverEffect DEF Start, EnsureGroups, Unread
<1>6. ASSUME NEW j \in jobs, JobStep(j) PROVE Outer
  <2>1. fresh' = fresh /\ j.entry.req \in Requests
    BY <1>0, <1>6, JobMoves, JobFields DEF JobFrame
  <2>2. j.pc \in {"defer", "replay", "finish"} => j.entry.req \in Held
    BY <1>0 DEF InHand, Held, Unacked
  <2>3. CASE UNCHANGED <<pel, retry, results>>
    BY <1>1, <2>1, <2>3
  <2>4. CASE j.pc = "defer" /\ Park(j) /\ UNCHANGED <<pel, results>>
    <3>1. Scheduled' = Scheduled \cup {j.entry.req}
      BY <1>0, <2>1, <2>4, JobFields DEF Park, Scheduled, TypeOK, NotScheduled
    <3>2. Held' = Held
      BY <2>1, <2>2, <2>4, <3>1 DEF Held, Unacked
    <3>3. QED BY <2>4, <3>2
  <2>5. CASE /\ j.pc \in {"replay", "finish"} /\ j.res \in Outcomes
             /\ Report(j) /\ UNCHANGED <<pel, retry>>
    <3>1. Held' = Held
      BY <2>1, <2>5 DEF Held, Unacked, Scheduled
    <3>2. QED BY <2>2, <2>5, <3>1 DEF Answers
  <2>6. CASE j.pc = "ack" /\ pel' = pel \ {j.entry} /\ UNCHANGED <<retry, results>>
    <3>1. LetsGo(j)
      BY <2>1, <2>6 DEF Held, Unacked, Scheduled, LetsGo
    <3>2. QED BY <3>1
  <2>7. QED BY <1>0, <1>6, <2>3, <2>4, <2>5, <2>6, JobEffects
<1>7. ASSUME NEW p \in Priorities, Wipe(p) PROVE FALSE
  BY <1>0, <1>7 DEF Wipe, Spend, GroupsSurvive, TypeOK, Kinds
<1>8. QED
  BY NextCases, <1>1, <1>2, <1>3, <1>4, <1>5, <1>6, <1>7
  DEF Reserve, GiveBack, Turn, ReadNone, Reconnect, Restart, Quit, Crash,
      BeginStop, IdleElapses

LEMMA HeldServedNext ==
    ASSUME GroupsSurvive, HoldInv, [Next]_vars
    PROVE  HeldServed'
<1> SUFFICES ASSUME NEW r \in Held' PROVE r \in Live' \/ Reported(r)'
  BY DEF HeldServed
<1>0. LossInv /\ TypeOK
  BY DEF HoldInv, LossInv
<1>1. CASE r \in Held
  <2>1. r \in Requests
    BY <1>0, <1>1 DEF Held, Unacked, Scheduled, TypeOK, EntryType
  <2>2. r \in Live \/ Reported(r)
    BY <1>1 DEF HoldInv, HeldServed
  <2>3. QED BY <1>0, <2>1, <2>2, LiveStays, ReportsStay
<1>2. ASSUME NEW q \in Requests, Takes(q) PROVE q \in Live'
  <2>1. Entry(q, 0).id = lastId + 1 /\ Entry(q, 0).req = q
    BY DEF Entry
  <2>2. Entry(q, 0) \notin Handed'
    <3>1. \A f \in Handed' : f \in Entries
      BY <1>2 DEF Takes, Handed, Entries, KeepsSlot
    <3>2. QED BY <1>0, <2>1, <3>1 DEF LossInv, Numbered, TypeOK
  <2>3. QED BY <1>2, <2>1, <2>2 DEF Takes, AddEntry, Live, Unacked
<1>3. QED BY <1>1, <1>2, OuterStep DEF Takes, Answers, LetsGo

LEMMA HoldNext == GroupsSurvive /\ Exclusive /\ HoldInv /\ [Next]_vars => HoldInv'
<1> SUFFICES ASSUME GroupsSurvive, Exclusive, HoldInv, [Next]_vars PROVE HoldInv'
  OBVIOUS
<1>1. DispatchInv' /\ LossInv'
  BY DispatchNext, LossNext DEF HoldInv
<1>2. InHand' /\ NotYet'
  BY InHandNext, NotYetNext DEF HoldInv, LossInv
<1>3. QED BY <1>1, <1>2, HeldServedNext DEF HoldInv

\* The refinement mapping: initial states map to the initial state.
LEMMA QueueInit == Init => AbstractQueue!Init
BY DEF Init, AbstractQueue!Init, Held, Unacked, Scheduled, Reported

\* Every step maps to Admit, Answer or Settle, or to a stutter.
LEMMA QueueStep ==
    ASSUME GroupsSurvive, Exclusive, HoldInv, [Next]_vars
    PROVE  [AbstractQueue!Next]_(AbstractQueue!vars)
<1> DEFINE settled == {r \in Requests : Reported(r)} \ Held
           answers == [r \in Requests |-> Len(results[r])]
<1>0. TypeOK /\ HoldInv'
  BY HoldNext DEF HoldInv, LossInv
<1>1. Held \subseteq Requests
  BY <1>0 DEF Held, Unacked, Scheduled, TypeOK, EntryType
<1>2. ASSUME NEW q \in Requests, Takes(q) PROVE AbstractQueue!Admit(q)
  <2>1. q \notin Held /\ ~Reported(q)
    BY <1>2 DEF Takes, HoldInv, NotYet, Undecided, InFlight, Absent, Held, Entries, Scheduled
  <2>2. Held' = Held \cup {q} /\ settled' = settled /\ answers' = answers
    BY <1>2, <2>1 DEF Takes, Reported
  <2>3. QED BY <2>1, <2>2 DEF AbstractQueue!Admit
<1>3. ASSUME NEW j \in jobs, Answers(j) PROVE AbstractQueue!Answer(j.entry.req)
  <2> DEFINE q == j.entry.req
  <2>1. q \in Held /\ q \in Requests /\ Held' = Held
    BY <1>1, <1>3 DEF Answers
  <2>2. results' = [results EXCEPT ![q] = Append(results[q], j.res)] /\ j.res \in Outcomes
    BY <1>3 DEF Answers, Report
  <2>3. \A r \in Requests : r # q => results'[r] = results[r]
    BY <1>0, <2>1, <2>2 DEF TypeOK
  <2>4. Len(results'[q]) = Len(results[q]) + 1
    <3>1. results[q] \in Seq(Outcomes) /\ results'[q] = Append(results[q], j.res)
      BY <1>0, <2>1, <2>2 DEF TypeOK
    <3>2. QED BY <2>2, <3>1
  <2>5. answers' = [answers EXCEPT ![q] = @ + 1]
    BY <2>1, <2>3, <2>4
  <2>6. settled' = settled
    BY <2>1, <2>3 DEF Reported
  <2>7. QED BY <2>1, <2>5, <2>6 DEF AbstractQueue!Answer
<1>4. ASSUME NEW j \in jobs, LetsGo(j)
      PROVE  AbstractQueue!Settle(j.entry.req) \/ UNCHANGED AbstractQueue!vars
  <2> DEFINE q == j.entry.req
  <2>1. results' = results /\ answers' = answers
    BY <1>4 DEF LetsGo
  <2>2. CASE Held' = Held
    BY <2>1, <2>2 DEF AbstractQueue!vars, Reported
  <2>3. CASE Held' # Held
    <3>1. q \in Held /\ Held' = Held \ {q} /\ q \in Requests
      BY <1>1, <1>4, <2>3 DEF LetsGo
    <3>2. Reported(q)
      <4>1. q \notin Live'
        BY <3>1 DEF Live, Held
      <4>2. q \in Live \/ Reported(q)
        BY <3>1 DEF HoldInv, HeldServed
      <4>3. Reported(q)' => Reported(q)
        BY <2>1 DEF Reported
      <4>4. QED BY <3>1, <4>1, <4>2, <4>3, LiveStays DEF HoldInv
    <3>3. answers[q] > 0
      <4>1. results[q] \in Seq(Outcomes) /\ results[q] # <<>>
        BY <1>0, <3>1, <3>2 DEF TypeOK, Reported
      <4>2. Len(results[q]) > 0
        BY <4>1
      <4>3. QED BY <3>1, <4>2
    <3>4. settled' = settled \cup {q}
      BY <2>1, <3>1, <3>2 DEF Reported
    <3>5. QED BY <2>1, <3>1, <3>3, <3>4 DEF AbstractQueue!Settle
  <2>4. QED BY <2>2, <2>3
<1>5. CASE Held' = Held /\ results' = results
  BY <1>5 DEF AbstractQueue!vars, Reported
<1>6. \A j \in jobs : j.entry.req \in Requests
  BY <1>0, JobFields
<1>7. QED
  BY <1>2, <1>3, <1>4, <1>5, <1>6, OuterStep DEF AbstractQueue!Next

\* README.md:463: what the queue has taken in it holds until an answer exists, and
\* a request it has let go never comes back, through crashes, lost replies, parked
\* retries and reclaims: StreamQueue implements WorkQueue.
THEOREM Refinement ==
    ASSUME GroupsSurvive, Exclusive
    PROVE  Spec => ImplementsWorkQueue
<1>1. Init => HoldInv /\ AbstractQueue!Init
  BY HoldInit, QueueInit
<1>2. HoldInv /\ [Next]_vars => HoldInv'
  BY HoldNext
<1>3. HoldInv /\ [Next]_vars => [AbstractQueue!Next]_(AbstractQueue!vars)
  BY QueueStep
<1>4. QED BY <1>1, <1>2, <1>3, PTL DEF Spec, ImplementsWorkQueue, AbstractQueue!Spec
-----------------------------------------------------------------------------
(* Without crashes and faults: what a job and a gateway then do.           *)

NoFailures == Limit["crash"] = 0 /\ Limit["fault"] = 0

LEMMA NothingFails ==
    ASSUME NoFailures, TypeOK
    PROVE  ~Spend("crash") /\ ~Spend("fault")
BY DEF NoFailures, TypeOK, Spend, Kinds

\* The steps of a job whose commands all succeed.
Replaced(j, k) == Move(j, k) /\ k.entry = j.entry /\ k.gw = j.gw
Working == {"cache", "limit", "call", "defer", "replay", "finish"}
Advances(j) ==
    /\ j.pc \in Working
    /\ \E k : Replaced(j, k) /\ k.pc \in Working /\ ~KeepsSlot(k)
    /\ UNCHANGED <<pel, kept, depth, retry, results>>
Parks(j) ==
    /\ j.pc = "defer"
    /\ Park(j)
    /\ \E k : Replaced(j, k) /\ k.pc = "ack" /\ KeepsSlot(k)
    /\ UNCHANGED <<pel, kept, depth, results>>
Replies(j) ==
    /\ j.pc \in {"replay", "finish"} /\ j.res \in Outcomes
    /\ Report(j)
    /\ \E k : Replaced(j, k) /\ k.pc = "ack" /\ ~KeepsSlot(k)
    /\ UNCHANGED <<pel, kept, depth, retry>>
Acks(j) ==
    /\ j.pc = "ack"
    /\ pel' = pel \ {j.entry} /\ kept' = kept \cup ({j.entry} \cap pel)
    /\ \E k : Replaced(j, k) /\ k.pc = "del" /\ k.res = j.res
    /\ UNCHANGED <<depth, retry, results>>
Deletes(j) ==
    /\ j.pc = "del"
    /\ kept' = kept \ {j.entry}
    /\ IF KeepsSlot(j) THEN Leave(j)
       ELSE \E k : Replaced(j, k) /\ k.pc = "decr" /\ ~KeepsSlot(k)
    /\ UNCHANGED <<pel, depth, retry, results>>
Frees(j) ==
    /\ j.pc = "decr"
    /\ depth' = depth - 1
    /\ Leave(j)
    /\ UNCHANGED <<pel, kept, retry, results>>

\* Only a parked request's job keeps the slot, and it does nothing but clean up.
Parking == \A j \in jobs : KeepsSlot(j) => j.pc \in {"ack", "del"}

LEMMA CalmJob ==
    ASSUME NoFailures, TypeOK, Parking, NEW j \in jobs, link[j.gw], JobStep(j)
    PROVE  /\ \/ Advances(j) \/ Parks(j) \/ Replies(j)
              \/ Acks(j) \/ Deletes(j) \/ Frees(j)
           /\ JobFrame(j) /\ link' = link
<1>0. j \in JobType /\ JobFrame(j) /\ (j.pc \in {"replay", "finish"} => j.res \in Outcomes)
  BY JobMoves, JobFields
<1>1. \A pc, res : /\ Having(j, pc, res).entry = j.entry /\ Having(j, pc, res).gw = j.gw
                   /\ Having(j, pc, res).pc = pc /\ Having(j, pc, res).res = res
                   /\ At(j, pc).entry = j.entry /\ At(j, pc).gw = j.gw
                   /\ At(j, pc).pc = pc /\ At(j, pc).res = j.res
  BY <1>0 DEF Having, At, JobType
<1>2. ~Refused(j.gw) /\ ~ReplyLost(j.gw) /\ ~Failed(j.gw)
  BY NothingFails DEF Refused, ReplyLost, Failed
<1>3. Answered(j.gw) => link' = link
  BY DEF Answered
<1>4. CASE CheckCache(j)
  <2>1. j.pc = "cache" /\ Answered(j.gw) /\ ~KeepsSlot(j)
    BY <1>2, <1>4 DEF CheckCache, Parking
  <2>2. cached[j.entry.req] \in Outcomes \cup {"none"}
    BY JobFields DEF TypeOK
  <2>3. \E k : Replaced(j, k) /\ k.pc \in Working /\ ~KeepsSlot(k)
    <3>1. CASE Move(j, At(j, "limit"))
      BY <1>1, <2>1, <3>1 DEF Replaced, Working, KeepsSlot
    <3>2. CASE Move(j, Having(j, "replay", cached[j.entry.req])) /\ cached[j.entry.req] # "none"
      BY <1>1, <2>2, <3>2 DEF Replaced, Working, KeepsSlot, Outcomes
    <3>3. QED BY <1>2, <1>4, <3>1, <3>2 DEF CheckCache
  <2>4. QED BY <1>0, <1>3, <1>4, <2>1, <2>3 DEF CheckCache, Advances, Working
<1>5. CASE CheckLimit(j)
  <2>1. j.pc = "limit" /\ ~KeepsSlot(j) /\ UNCHANGED <<stream, store, results, link>>
    BY <1>5 DEF CheckLimit, Parking
  <2>2. \E k : Replaced(j, k) /\ k.pc \in Working /\ ~KeepsSlot(k)
    <3> DEFINE c == [At(j, "call") EXCEPT !.attempts = @ + 1]
    <3>1. c.entry = j.entry /\ c.gw = j.gw /\ c.pc = "call" /\ c.res = j.res
      BY <1>0 DEF At, JobType
    <3>2. Move(j, c) \/ Move(j, At(j, "defer")) \/ Move(j, Having(j, "finish", "err"))
      BY <1>5 DEF CheckLimit
    <3>3. CASE Move(j, c)
      BY <2>1, <3>1, <3>3 DEF Replaced, Working, KeepsSlot
    <3>4. CASE Move(j, At(j, "defer")) \/ Move(j, Having(j, "finish", "err"))
      BY <1>1, <2>1, <3>4 DEF Replaced, Working, KeepsSlot
    <3>5. QED BY <3>2, <3>3, <3>4
  <2>3. QED BY <1>0, <2>1, <2>2 DEF Advances, Working
<1>6. CASE Execute(j)
  <2>1. j.pc = "call" /\ ~KeepsSlot(j) /\ UNCHANGED <<stream, store, results, link>>
    BY <1>6 DEF Execute, Parking
  <2>2. \E k : Replaced(j, k) /\ k.pc \in Working /\ ~KeepsSlot(k)
    BY <1>1, <1>6, <2>1 DEF Execute, Replaced, Working, KeepsSlot, Outcomes
  <2>3. QED BY <1>0, <2>1, <2>2 DEF Advances, Working
<1>7. CASE Defer(j)
  <2>1. j.pc = "defer" /\ Answered(j.gw) /\ Park(j) /\ Move(j, Having(j, "ack", "deferred"))
    BY <1>2, <1>7 DEF Defer
  <2>2. \E k : Replaced(j, k) /\ k.pc = "ack" /\ KeepsSlot(k)
    BY <1>1, <2>1 DEF Replaced, KeepsSlot
  <2>3. QED BY <1>0, <1>3, <1>7, <2>1, <2>2 DEF Defer, Parks
<1>8. CASE Replay(j) \/ Finish(j)
  <2>1. ~DeliveryFailed(j)
    BY <1>2 DEF DeliveryFailed
  <2>2. /\ j.pc \in {"replay", "finish"} /\ Delivered(j) /\ Move(j, At(j, "ack"))
        /\ UNCHANGED <<stream, depth, retry>>
    BY <1>8, <2>1 DEF Replay, Finish
  <2>3. \E k : Replaced(j, k) /\ k.pc = "ack" /\ ~KeepsSlot(k)
    BY <1>0, <1>1, <2>2 DEF Replaced, KeepsSlot, Outcomes
  <2>4. QED BY <1>0, <2>2, <2>3 DEF Delivered, Replies
<1>9. CASE Ack(j)
  <2>1. j.pc = "ack" /\ Answered(j.gw) /\ Settle(j.entry) /\ Move(j, At(j, "del"))
    BY <1>2, <1>9 DEF Ack
  <2>2. \E k : Replaced(j, k) /\ k.pc = "del" /\ k.res = j.res
    BY <1>1, <2>1 DEF Replaced
  <2>3. QED BY <1>0, <1>3, <1>9, <2>1, <2>2 DEF Ack, Settle, Acks
<1>10. CASE Del(j)
  <2>1. j.pc = "del" /\ Answered(j.gw) /\ Delete(j.entry)
    BY <1>2, <1>10 DEF Del, Executed
  <2>2. ~KeepsSlot(j) => \E k : Replaced(j, k) /\ k.pc = "decr" /\ ~KeepsSlot(k)
    BY <1>1, <1>10 DEF Del, Replaced, KeepsSlot
  <2>3. QED BY <1>0, <1>3, <1>10, <2>1, <2>2 DEF Del, Delete, Deletes
<1>11. CASE Decr(j)
  <2>1. Answered(j.gw)
    BY <1>2, <1>11 DEF Decr, Executed
  <2>2. QED BY <1>0, <1>2, <1>3, <1>11, <2>1 DEF Decr, Frees
<1>12. QED
  BY <1>4, <1>5, <1>6, <1>7, <1>8, <1>9, <1>10, <1>11 DEF JobStep
\* The inductive invariant: a running gateway has its link, a pending entry has a
\* job, nothing is ever claimed, and a job that has acknowledged its entry finds it
\* gone.
Linked == \A g \in Gateways : loop[g] # "down" => link[g]
Worked == \A e \in pel : \E j \in jobs : j.entry = e
Acked == \A j \in jobs : j.pc \in {"del", "decr"} => j.entry \notin pel
NothingClaimed == \A j \in jobs : loop[j.gw] = "top"
PendingInv == DispatchInv /\ Linked /\ Worked /\ NothingClaimed /\ Acked /\ Parking

LEMMA PendingInit == Init => PendingInv
BY DispatchInit DEF Init, PendingInv, Linked, Worked, NothingClaimed, Acked, Parking

LEMMA LinkedJob ==
    ASSUME PendingInv, NEW j \in jobs
    PROVE  link[j.gw]
BY JobFields DEF PendingInv, DispatchInv, Awaited, Linked

\* Nothing is ever reclaimed: whatever is pending is in a job's hands.
LEMMA NoReclaim ==
    ASSUME NoFailures, Exclusive, PendingInv, NEW g \in Gateways,
           ClaimPending(g) \/ RecoverGroups(g)
    PROVE  jobs' = jobs /\ JobsOf(g) = {}
<1>0. TypeOK /\ ~Spend("fault")
  BY NothingFails DEF PendingInv, DispatchInv
<1>1. JobsOf(g) = {}
  BY DEF ClaimPending, RecoverGroups, PendingInv, NothingClaimed, JobsOf, Claiming, Priorities
<1>2. CASE ClaimPending(g)
  <2>1. PICK p \in Priorities :
          /\ loop[g] = Claiming(p)
          /\ jobs' = jobs \cup {NewJob(g, e) : e \in Reclaimable(p)}
    BY <1>0, <1>2 DEF ClaimPending
  <2>2. Reclaimable(p) \subseteq pel
    BY <1>0 DEF Reclaimable, Oldest, OfStream, TypeOK
  <2>3. \A j \in jobs : j.entry \notin Reclaimable(p)
    BY <2>1, ReclaimIdle DEF PendingInv
  <2>4. Reclaimable(p) = {}
    BY <2>2, <2>3 DEF PendingInv, Worked
  <2>5. QED BY <1>1, <2>1, <2>4
<1>3. CASE RecoverGroups(g)
  BY <1>1, <1>3, RecoverEffect
<1>4. QED BY <1>2, <1>3

\* The steps that neither admit, promote, hand out nor move a job.
Quiet ==
    /\ fresh' \subseteq fresh /\ pel' \subseteq pel /\ jobs' = jobs
    /\ UNCHANGED <<retry, results>>
    /\ \A r \in Requests : prod'[r] = "accepted" <=> prod[r] = "accepted"
Admits(q) ==
    /\ prod[q] = "xadd" /\ prod' = [prod EXCEPT ![q] = "accepted"]
    /\ AddEntry(Entry(q, 0))
    /\ UNCHANGED <<depth, retry, jobs, results>>
Promotes(q) ==
    /\ retry[q] # NotScheduled
    /\ AddEntry(Entry(q, retry[q])) /\ Unpark(q)
    /\ UNCHANGED <<depth, prod, jobs, results>>
HandsOut(g, batch) ==
    /\ batch \subseteq fresh /\ fresh' = fresh \ batch /\ pel' = pel \cup batch
    /\ jobs' = jobs \cup {NewJob(g, e) : e \in batch}
    /\ UNCHANGED <<kept, depth, retry, prod, results>>

LEMMA CalmStep ==
    ASSUME NoFailures, Exclusive, PendingInv, [Next]_vars
    PROVE  \/ Quiet
           \/ \E q \in Requests : Admits(q) \/ Promotes(q)
           \/ \E g \in Gateways, batch \in SUBSET fresh : HandsOut(g, batch)
           \/ \E j \in jobs : JobStep(j)
<1> DEFINE Calm == \/ Quiet
                   \/ \E q \in Requests : Admits(q) \/ Promotes(q)
                   \/ \E g \in Gateways, batch \in SUBSET fresh : HandsOut(g, batch)
                   \/ \E j \in jobs : JobStep(j)
<1>0. TypeOK /\ ~Spend("crash") /\ ~Spend("fault")
  BY NothingFails DEF PendingInv, DispatchInv
<1>1. CASE UNCHANGED <<fresh, pel, jobs, retry, results, prod>>
  BY <1>1 DEF Quiet
<1>2. ASSUME NEW q \in Requests, Reserve(q) \/ GiveBack(q) PROVE Calm
  BY <1>0, <1>2 DEF Reserve, GiveBack, SetProd, Quiet, TypeOK
<1>3. ASSUME NEW q \in Requests, XAdd(q) PROVE Calm
  <2>1. CASE Answered(HomeOf[q]) /\ AddEntry(Entry(q, 0)) /\ SetProd(q, "accepted")
    BY <1>3, <2>1 DEF XAdd, SetProd, Admits
  <2>2. CASE SetProd(q, "undo") /\ UNCHANGED stream
    <3>1. \A r \in Requests : prod'[r] = "accepted" <=> prod[r] = "accepted"
      BY <1>0, <1>3, <2>2 DEF XAdd, SetProd, TypeOK
    <3>2. QED BY <1>3, <2>2, <3>1 DEF XAdd, Quiet
  <2>3. QED BY <1>0, <1>3, <2>1, <2>2 DEF XAdd, ReplyLost
<1>4. ASSUME NEW q \in Requests, NEW g \in Gateways, Promote(g, q) PROVE Calm
  BY <1>4 DEF Promote, Promotes
<1>5. ASSUME NEW g \in Gateways, Read(g) PROVE Calm
  <2>1. PICK p \in Priorities :
          /\ Take(g, Oldest(OfStream(fresh, p), BatchSize))
          /\ fresh' = fresh \ Oldest(OfStream(fresh, p), BatchSize)
    BY <1>5 DEF Read
  <2> DEFINE batch == Oldest(OfStream(fresh, p), BatchSize)
  <2>2. batch \subseteq fresh
    BY DEF Oldest, OfStream
  <2>3. HandsOut(g, batch)
    BY <1>0, <2>1, <2>2 DEF Take, HandsOut
  <2>4. QED BY <2>2, <2>3
<1>6. ASSUME NEW g \in Gateways, RecoverGroups(g) \/ Start(g) PROVE Calm
  BY <1>0, <1>6, NoReclaim, RecoverEffect DEF Start, EnsureGroups, Quiet
<1>7. ASSUME NEW g \in Gateways, Quit(g) PROVE Calm
  <2>1. JobsOf(g) = {}
    BY <1>7 DEF Quit, PendingInv, NothingClaimed, JobsOf
  <2>2. \A r \in Requests : prod'[r] = "accepted" <=> prod[r] = "accepted"
    BY <1>7 DEF Quit, Vanish, InFlight
  <2>3. QED BY <1>7, <2>1, <2>2 DEF Quit, Vanish, Quiet
<1>8. ASSUME NEW p \in Priorities, Wipe(p) PROVE Calm
  BY <1>8 DEF Wipe, Quiet
<1>9. ASSUME NEW g \in Gateways, ClaimPending(g) PROVE Calm
  BY <1>1, <1>9, NoReclaim, ClaimEffect
<1>10. QED
  BY NextCases, <1>0, <1>1, <1>2, <1>3, <1>4, <1>5, <1>6, <1>7, <1>8, <1>9
  DEF Turn, ReadNone, Reconnect, Restart, Crash, BeginStop, IdleElapses

LEMMA LinkedNext ==
    ASSUME NoFailures, PendingInv, [Next]_vars
    PROVE  Linked'
<1>0. TypeOK /\ Linked /\ ~Spend("fault")
  BY NothingFails DEF PendingInv, DispatchInv
<1>1. CASE link' = link /\ \A g \in Gateways : loop'[g] # "down" => loop[g] # "down"
  BY <1>0, <1>1 DEF Linked
<1>2. CASE link' = link /\ \E g \in Gateways : loop[g] # "down" /\ \E l : SetLoop(g, l)
  BY <1>0, <1>1, <1>2 DEF SetLoop, TypeOK
<1>3. ASSUME NEW g \in Gateways, Reconnect(g) \/ Restart(g) PROVE Linked'
  <2>1. link' = [link EXCEPT ![g] = TRUE]
    BY <1>3 DEF Reconnect, Restart
  <2>2. \A h \in Gateways : h # g => loop'[h] = loop[h]
    BY <1>0, <1>3 DEF Reconnect, Restart, SetLoop, TypeOK
  <2>3. QED BY <1>0, <2>1, <2>2 DEF Linked, TypeOK
<1>4. ASSUME NEW g \in Gateways, Quit(g) \/ Crash(g) PROVE Linked'
  BY <1>0, <1>4 DEF Quit, Crash, Vanish, SetLoop, Linked, TypeOK
<1>5. ASSUME NEW g \in Gateways,
             \/ Turn(g) \/ ClaimPending(g) \/ Read(g) \/ ReadNone(g)
             \/ RecoverGroups(g) \/ Start(g)
      PROVE  Linked'
  <2>1. loop[g] # "down"
    BY <1>5 DEF Turn, ClaimPending, Read, ReadNone, RecoverGroups, Start, Claiming, Priorities
  <2>2. link' = link /\ \E l : SetLoop(g, l)
    BY <1>5, ClaimEffect, RecoverEffect DEF Turn, Read, Take, ReadNone, Start
  <2>3. QED BY <1>2, <2>1, <2>2
<1>6. ASSUME NEW j \in jobs, JobStep(j) PROVE Linked'
  <2>1. link' = link /\ loop' = loop
    BY <1>0, <1>6, CalmJob, LinkedJob DEF PendingInv, JobFrame
  <2>2. QED BY <1>1, <2>1
<1>7. ASSUME NEW r \in Requests, Reserve(r) \/ GiveBack(r) \/ XAdd(r) PROVE Linked'
  BY <1>0, <1>1, <1>7 DEF Reserve, GiveBack, XAdd, Executed, Answered, Refused, ReplyLost
<1>8. ASSUME NEW r \in Requests, NEW g \in Gateways, Promote(g, r) PROVE Linked'
  BY <1>0, <1>1, <1>8 DEF Promote, Executed, Answered, ReplyLost
<1>9. QED
  BY NextCases, <1>1, <1>3, <1>4, <1>5, <1>6, <1>7, <1>8 DEF BeginStop, Wipe, IdleElapses

LEMMA NothingClaimedNext ==
    ASSUME NoFailures, Exclusive, PendingInv, [Next]_vars
    PROVE  NothingClaimed'
<1>0. TypeOK /\ NothingClaimed
  BY DEF PendingInv, DispatchInv
<1>1. CASE jobs' \subseteq jobs /\ loop' = loop
  BY <1>0, <1>1 DEF NothingClaimed
<1>2. ASSUME NEW g \in Gateways, NEW l, SetLoop(g, l), jobs' \subseteq jobs \ JobsOf(g)
      PROVE  NothingClaimed'
  BY <1>0, <1>2, JobFields DEF NothingClaimed, SetLoop, JobsOf, TypeOK
<1>3. ASSUME NEW g \in Gateways, ClaimPending(g) \/ RecoverGroups(g) PROVE NothingClaimed'
  BY <1>2, <1>3, NoReclaim, ClaimEffect, RecoverEffect
<1>4. ASSUME NEW g \in Gateways, Turn(g) \/ ReadNone(g) \/ Start(g) \/ Restart(g)
      PROVE  NothingClaimed'
  <2>1. JobsOf(g) = {}
    BY <1>0, <1>4 DEF Turn, BatchDone, ReadNone, Start, Restart, NothingClaimed, JobsOf, Priorities
  <2>2. QED BY <1>2, <1>4, <2>1 DEF Turn, ReadNone, Start, Restart
<1>5. ASSUME NEW g \in Gateways, Quit(g) \/ Crash(g) PROVE NothingClaimed'
  BY <1>2, <1>5 DEF Quit, Crash, Vanish
<1>6. ASSUME NEW g \in Gateways, Read(g) PROVE NothingClaimed'
  <2>1. PICK batch : Take(g, batch)
    BY <1>6 DEF Read
  <2>2. \A k \in jobs' : k \in jobs \/ k.gw = g
    BY <2>1 DEF Take, NewJob
  <2>3. QED BY <1>0, <2>1, <2>2, JobFields DEF Take, SetLoop, NothingClaimed, TypeOK
<1>7. ASSUME NEW j \in jobs, JobStep(j) PROVE NothingClaimed'
  <2>1. loop' = loop /\ \A k \in jobs' : k \in jobs \/ k.gw = j.gw
    BY <1>0, <1>7, JobMoves DEF JobFrame, Move, Leave
  <2>2. QED BY <1>0, <2>1 DEF NothingClaimed
<1>8. QED
  BY NextCases, <1>1, <1>3, <1>4, <1>5, <1>6, <1>7
  DEF Reserve, GiveBack, XAdd, Promote, Reconnect, BeginStop, Wipe, IdleElapses

\* What a step of a job leaves of Worked, Acked and Parking.
LEMMA PendingJob ==
    ASSUME NoFailures, PendingInv, NEW j \in jobs, JobStep(j)
    PROVE  Worked' /\ Acked' /\ Parking'
<1>0. TypeOK /\ Worked /\ Acked /\ Parking /\ NoDoubleDispatch
  BY DEF PendingInv, DispatchInv
<1>1. \/ Advances(j) \/ Parks(j) \/ Replies(j) \/ Acks(j) \/ Deletes(j) \/ Frees(j)
  BY <1>0, CalmJob, LinkedJob
<1>2. CASE Leave(j) /\ pel' = pel /\ j.pc \in {"del", "decr"}
  <2>1. jobs' \subseteq jobs /\ j.entry \notin pel
    BY <1>0, <1>2 DEF Leave, Acked
  <2>2. QED BY <1>0, <1>2, <2>1 DEF Leave, Worked, Acked, Parking
<1>3. ASSUME NEW k, Replaced(j, k), pel' \subseteq pel,
             k.pc \in {"del", "decr"} => k.entry \notin pel',
             KeepsSlot(k) => k.pc \in {"ack", "del"}
      PROVE  Worked' /\ Acked' /\ Parking'
  <2>1. \A i \in jobs' : i \in jobs \/ i = k
    BY <1>3 DEF Replaced, Move
  <2>2. \A i \in jobs : i \in jobs' \/ (i = j /\ k \in jobs' /\ k.entry = i.entry)
    BY <1>3 DEF Replaced, Move
  <2>3. Worked'
    BY <1>0, <1>3, <2>2 DEF Worked
  <2>4. Acked' /\ Parking'
    BY <1>0, <1>3, <2>1 DEF Acked, Parking, KeepsSlot
  <2>5. QED BY <2>3, <2>4
<1>4. CASE Advances(j)
  BY <1>3, <1>4 DEF Advances, Working
<1>5. CASE Parks(j) \/ Replies(j)
  BY <1>3, <1>5 DEF Parks, Replies
<1>6. CASE Acks(j)
  BY <1>3, <1>6 DEF Acks, Replaced
<1>7. CASE Deletes(j)
  <2>1. CASE KeepsSlot(j)
    BY <1>2, <1>7, <2>1 DEF Deletes
  <2>2. CASE ~KeepsSlot(j)
    <3>1. j.entry \notin pel
      BY <1>0, <1>7 DEF Deletes, Acked
    <3>2. QED BY <1>3, <1>7, <2>2, <3>1 DEF Deletes, Replaced
  <2>3. QED BY <2>1, <2>2
<1>8. CASE Frees(j)
  BY <1>2, <1>8 DEF Frees
<1>9. QED BY <1>1, <1>4, <1>5, <1>6, <1>7, <1>8

LEMMA PendingNext == NoFailures /\ Exclusive /\ PendingInv /\ [Next]_vars => PendingInv'
<1> SUFFICES ASSUME NoFailures, Exclusive, PendingInv, [Next]_vars PROVE PendingInv'
  OBVIOUS
<1>0. DispatchInv /\ DispatchInv' /\ Linked' /\ NothingClaimed' /\ Worked /\ Acked /\ Parking
  BY DispatchNext, LinkedNext, NothingClaimedNext DEF PendingInv
<1>1. CASE pel' \subseteq pel /\ jobs' = jobs
  BY <1>0, <1>1 DEF PendingInv, Worked, Acked, Parking
<1>2. ASSUME NEW g \in Gateways, NEW batch \in SUBSET fresh, HandsOut(g, batch)
      PROVE  PendingInv'
  <2>1. \A e \in batch : /\ NewJob(g, e).entry = e /\ ~KeepsSlot(NewJob(g, e))
                         /\ NewJob(g, e).pc \in {"cache", "limit"}
    BY DEF NewJob, KeepsSlot
  <2>2. Worked'
    BY <1>0, <1>2, <2>1 DEF HandsOut, Worked
  <2>3. Acked'
    BY <1>0, <1>2, <2>1 DEF HandsOut, Acked, DispatchInv, OutOfFresh
  <2>4. Parking'
    BY <1>0, <1>2, <2>1 DEF HandsOut, Parking, KeepsSlot
  <2>5. QED BY <1>0, <2>2, <2>3, <2>4 DEF PendingInv
<1>3. ASSUME NEW j \in jobs, JobStep(j) PROVE PendingInv'
  BY <1>0, <1>3, PendingJob DEF PendingInv
<1>4. QED
  BY <1>1, <1>2, <1>3, CalmStep DEF Quiet, Admits, Promotes, AddEntry

\* gateway-server.js awaits a batch before it stops: while no process crashes and
\* no connection drops, every pending entry is in the hands of exactly one job, so a
\* graceful stop leaves none behind.
THEOREM PendingIsWorked ==
    ASSUME NoFailures, Exclusive
    PROVE  Spec => []PendingInOneJob
<1>1. Init => PendingInv
  BY PendingInit
<1>2. PendingInv /\ [Next]_vars => PendingInv'
  BY PendingNext
<1>3. PendingInv => PendingInOneJob
  <2> SUFFICES ASSUME PendingInv, NEW e \in pel PROVE Cardinality({j \in jobs : j.entry = e}) = 1
    BY DEF PendingInOneJob
  <2>1. PICK j \in jobs : j.entry = e
    BY DEF PendingInv, Worked
  <2>2. {i \in jobs : i.entry = e} = {j}
    BY <2>1 DEF PendingInv, DispatchInv, NoDoubleDispatch
  <2>3. QED BY <2>2, FS_Singleton
<1>4. QED BY <1>1, <1>2, <1>3, PTL DEF Spec
-----------------------------------------------------------------------------
(* Without crashes and faults delivery is exactly once.                    *)

\* The inductive invariant: a request that is not accepted has no copy; of every
\* request there is one current copy, a fresh entry, a job that has not parked it,
\* or a retry token; and a copy that will still be run has no answer yet.
Current == fresh \cup {j.entry : j \in {k \in jobs : ~KeepsSlot(k)}}
NotAccepted == \A r \in Requests : prod[r] # "accepted" => Absent(r)
OneCopy == /\ \A e, f \in Current : e.req = f.req => e = f
           /\ \A e \in Current : e.req \notin Scheduled
Unanswered == /\ \A e \in fresh : ~Reported(e.req)
              /\ \A j \in jobs : j.pc \in Working => ~Reported(j.entry.req)
              /\ \A r \in Scheduled : ~Reported(r)
AnswerInv == PendingInv /\ NotAccepted /\ OneCopy /\ Unanswered /\ AnsweredOnce

LEMMA AnswerInit == Init => AnswerInv
<1>1. Init => PendingInv
  BY PendingInit
<1>2. Init => NotAccepted /\ OneCopy /\ Unanswered
  BY DEF Init, NotAccepted, Absent, Entries, Unacked, Reported, OneCopy, Current, Scheduled,
     Unanswered
<1>3. Init => AnsweredOnce
  <2>1. Len(<<>>) <= 1
    OBVIOUS
  <2>2. QED BY <2>1 DEF Init, AnsweredOnce
<1>4. QED BY <1>1, <1>2, <1>3 DEF AnswerInv

\* Where copies only go, and no answer comes, the invariant stays.
LEMMA AnswerShrinks ==
    ASSUME AnswerInv, PendingInv', Entries' \subseteq Entries, Current' \subseteq Current,
           fresh' \subseteq fresh, UNCHANGED <<retry, results>>,
           \A r \in Requests : prod'[r] = "accepted" <=> prod[r] = "accepted",
           \A k \in jobs' : k.pc \in Working => ~Reported(k.entry.req)
    PROVE  AnswerInv'
<1>1. NotAccepted'
  BY DEF AnswerInv, NotAccepted, Absent, Reported
<1>2. OneCopy'
  BY DEF AnswerInv, OneCopy, Scheduled
<1>3. Unanswered'
  BY DEF AnswerInv, Unanswered, Scheduled, Reported
<1>4. QED BY <1>1, <1>2, <1>3 DEF AnswerInv, AnsweredOnce

\* A new entry for a request that had no copy, or whose token it replaces.
LEMMA AnswerAdds ==
    ASSUME AnswerInv, PendingInv', NEW q \in Requests, Admits(q) \/ Promotes(q)
    PROVE  AnswerInv'
<1>0. TypeOK /\ results' = results /\ jobs' = jobs
  BY DEF AnswerInv, PendingInv, DispatchInv, Admits, Promotes
<1>1. PICK e : e.req = q /\ AddEntry(e)
  BY DEF Admits, Promotes, Entry
<1>2. /\ Entries' = Entries \cup {e} /\ Current' = Current \cup {e}
      /\ fresh' = fresh \cup {e}
  BY <1>0, <1>1 DEF AddEntry, Entries, Unacked, Current, KeepsSlot
<1>3. Current \subseteq Entries
  BY DEF Current, Entries, Unacked
<1>4. ~Reported(q) /\ \A f \in Current : f.req # q
  <2>1. CASE Admits(q)
    BY <1>3, <2>1 DEF Admits, AnswerInv, NotAccepted, Absent
  <2>2. CASE Promotes(q)
    BY <2>2 DEF Promotes, AnswerInv, OneCopy, Unanswered, Scheduled
  <2>3. QED BY <2>1, <2>2
<1>5. Scheduled' = Scheduled \ {q}
  <2>1. CASE Admits(q)
    BY <2>1 DEF Admits, AnswerInv, NotAccepted, Absent, Scheduled
  <2>2. CASE Promotes(q)
    BY <1>0, <2>2 DEF Promotes, Unpark, Scheduled, TypeOK
  <2>3. QED BY <2>1, <2>2
<1>6. \A r \in Requests : prod'[r] # "accepted" => prod[r] # "accepted" /\ r # q
  <2>1. CASE Admits(q)
    BY <1>0, <2>1 DEF Admits, TypeOK
  <2>2. CASE Promotes(q)
    BY <2>2 DEF Promotes, AnswerInv, NotAccepted, Absent
  <2>3. QED BY <2>1, <2>2
<1>7. NotAccepted'
  BY <1>0, <1>1, <1>2, <1>5, <1>6 DEF AnswerInv, NotAccepted, Absent, Reported, Scheduled
<1>8. OneCopy'
  BY <1>1, <1>2, <1>4, <1>5 DEF AnswerInv, OneCopy
<1>9. Unanswered'
  BY <1>0, <1>1, <1>2, <1>4, <1>5 DEF AnswerInv, Unanswered, Reported
<1>10. QED BY <1>0, <1>7, <1>8, <1>9 DEF AnswerInv, AnsweredOnce

\* A batch only moves from the stream into the hands of jobs.
LEMMA AnswerHandsOut ==
    ASSUME AnswerInv, PendingInv', NEW g \in Gateways, NEW batch \in SUBSET fresh,
           HandsOut(g, batch)
    PROVE  AnswerInv'
<1>1. \A k \in jobs' : k \in jobs \/ (k.entry \in batch /\ ~KeepsSlot(k))
  BY DEF HandsOut, NewJob, KeepsSlot
<1>2. Current' \subseteq Current
  BY <1>1 DEF HandsOut, Current, KeepsSlot
<1>3. Entries' \subseteq Entries
  BY <1>1 DEF HandsOut, Entries, Unacked
<1>4. \A k \in jobs' : k.pc \in Working => ~Reported(k.entry.req)
  BY <1>1 DEF AnswerInv, Unanswered
<1>5. QED BY <1>2, <1>3, <1>4, AnswerShrinks DEF HandsOut

\* A job on a request's current copy is the only one on that request.
LEMMA OnlyJob ==
    ASSUME AnswerInv, NEW j \in jobs, ~KeepsSlot(j)
    PROVE  /\ \A i \in jobs : ~KeepsSlot(i) /\ i.entry.req = j.entry.req => i = j
           /\ \A e \in fresh : e.req # j.entry.req
           /\ j.entry.req \notin Scheduled
<1>1. j.entry \in Current
  BY DEF Current
<1>2. \A i \in jobs : ~KeepsSlot(i) => i.entry \in Current
  BY DEF Current
<1>3. ASSUME NEW i \in jobs, ~KeepsSlot(i), i.entry.req = j.entry.req PROVE i = j
  BY <1>1, <1>2, <1>3 DEF AnswerInv, OneCopy, PendingInv, DispatchInv, NoDoubleDispatch
<1>4. ASSUME NEW e \in fresh, e.req = j.entry.req PROVE FALSE
  BY <1>1, <1>4 DEF AnswerInv, OneCopy, PendingInv, DispatchInv, OutOfFresh, Current
<1>5. QED BY <1>1, <1>3, <1>4 DEF AnswerInv, OneCopy

\* Parking hands the current copy from the job to the token.
LEMMA AnswerParks ==
    ASSUME AnswerInv, PendingInv', NEW j \in jobs, JobFrame(j), Parks(j)
    PROVE  AnswerInv'
<1> DEFINE q == j.entry.req
<1>0. /\ TypeOK /\ q \in Requests /\ j.attempts # NotScheduled /\ ~KeepsSlot(j)
      /\ fresh' = fresh /\ pel' = pel /\ prod' = prod /\ results' = results
  BY JobFields DEF AnswerInv, PendingInv, DispatchInv, Parking, Parks, JobFrame, NotScheduled
<1>1. PICK k : Replaced(j, k) /\ k.pc = "ack" /\ KeepsSlot(k)
  BY DEF Parks
<1>2. \A i \in jobs' : i = k \/ (i \in jobs /\ i # j)
  BY <1>1 DEF Replaced, Move
<1>3. Entries' \subseteq Entries
  BY <1>0, <1>1, <1>2 DEF Entries, Unacked, Replaced
<1>4. Current' \subseteq Current /\ \A e \in Current' : e.req # q
  <2>1. \A i \in jobs' : ~KeepsSlot(i) => i \in jobs /\ i.entry.req # q
    BY <1>0, <1>1, <1>2, OnlyJob
  <2>2. \A e \in fresh : e.req # q
    BY <1>0, OnlyJob
  <2>3. QED BY <1>0, <2>1, <2>2 DEF Current, KeepsSlot
<1>5. Scheduled' = Scheduled \cup {q}
  BY <1>0 DEF Parks, Park, Scheduled, TypeOK
<1>6. ~Reported(q)
  BY DEF AnswerInv, Unanswered, Parks, Working
<1>7. NotAccepted'
  <2> SUFFICES ASSUME NEW r \in Requests, prod[r] # "accepted" PROVE Absent(r)'
    BY <1>0 DEF NotAccepted
  <2>1. Absent(r) /\ r # q
    BY DEF AnswerInv, NotAccepted, Absent, Entries
  <2>2. retry'[r] = retry[r]
    BY <1>0, <2>1 DEF Parks, Park, TypeOK
  <2>3. QED BY <1>0, <1>3, <2>1, <2>2 DEF Absent, Reported
<1>8. OneCopy'
  BY <1>4, <1>5 DEF AnswerInv, OneCopy
<1>9. Unanswered'
  BY <1>0, <1>1, <1>2, <1>5, <1>6 DEF AnswerInv, Unanswered, Working, Reported
<1>10. QED BY <1>0, <1>7, <1>8, <1>9 DEF AnswerInv, AnsweredOnce

\* The answer comes from the only current copy, and it is the first.
LEMMA AnswerReplies ==
    ASSUME AnswerInv, PendingInv', NEW j \in jobs, JobFrame(j), Replies(j)
    PROVE  AnswerInv'
<1> DEFINE q == j.entry.req
<1>0. /\ TypeOK /\ q \in Requests /\ ~KeepsSlot(j) /\ Parking
      /\ fresh' = fresh /\ pel' = pel /\ prod' = prod /\ retry' = retry
  BY JobFields DEF AnswerInv, PendingInv, DispatchInv, Parking, Replies, JobFrame
<1>1. PICK k : Replaced(j, k) /\ k.pc = "ack" /\ ~KeepsSlot(k)
  BY DEF Replies
<1>2. \A i \in jobs' : i = k \/ (i \in jobs /\ i # j)
  BY <1>1 DEF Replaced, Move
<1>3. Entries' \subseteq Entries
  BY <1>0, <1>1, <1>2 DEF Entries, Unacked, Replaced
<1>4. Current' \subseteq Current
  BY <1>0, <1>1, <1>2 DEF Current, Replaced, KeepsSlot
<1>5. results[q] = <<>> /\ ~Reported(q)
  BY DEF AnswerInv, Unanswered, Replies, Working, Reported
<1>6. \A r \in Requests : r # q => results'[r] = results[r]
  BY <1>0 DEF Replies, Report, TypeOK
<1>7. NotAccepted'
  <2> SUFFICES ASSUME NEW r \in Requests, prod[r] # "accepted" PROVE Absent(r)'
    BY <1>0 DEF NotAccepted
  <2>1. Absent(r) /\ r # q
    BY DEF AnswerInv, NotAccepted, Absent, Entries
  <2>2. QED BY <1>0, <1>3, <1>6, <2>1 DEF Absent, Reported
<1>8. OneCopy'
  BY <1>0, <1>4 DEF AnswerInv, OneCopy, Scheduled
<1>9. Unanswered'
  <2>1. \A e \in fresh : e.req # q /\ e.req \in Requests
    BY <1>0, OnlyJob DEF TypeOK, EntryType
  <2>2. ASSUME NEW i \in jobs', i.pc \in Working
        PROVE  i \in jobs /\ i.entry.req # q /\ i.entry.req \in Requests
    <3>1. i \in jobs /\ i # j
      BY <1>1, <1>2, <2>2 DEF Working
    <3>2. ~KeepsSlot(i)
      BY <1>0, <2>2, <3>1 DEF Parking, Working
    <3>3. QED BY <1>0, <3>1, <3>2, OnlyJob, JobFields
  <2>3. q \notin Scheduled /\ Scheduled' = Scheduled
    BY <1>0, OnlyJob DEF Scheduled
  <2>4. \A r \in Requests : r # q /\ ~Reported(r) => ~Reported(r)'
    BY <1>6 DEF Reported
  <2>5. QED BY <1>0, <2>1, <2>2, <2>3, <2>4 DEF AnswerInv, Unanswered, Scheduled
<1>10. AnsweredOnce'
  <2>1. results'[q] = Append(<<>>, j.res)
    BY <1>0, <1>5 DEF Replies, Report, TypeOK
  <2>2. Len(Append(<<>>, j.res)) <= 1
    OBVIOUS
  <2>3. QED BY <1>6, <2>1, <2>2 DEF AnswerInv, AnsweredOnce
<1>11. QED BY <1>7, <1>8, <1>9, <1>10 DEF AnswerInv

\* The other steps of a job keep its copy or let it go.
LEMMA AnswerMoves ==
    ASSUME AnswerInv, PendingInv', NEW j \in jobs, JobFrame(j),
           Advances(j) \/ Acks(j) \/ Deletes(j) \/ Frees(j)
    PROVE  AnswerInv'
<1>0. /\ TypeOK /\ Parking /\ fresh' = fresh /\ pel' \subseteq pel /\ prod' = prod
      /\ UNCHANGED <<retry, results>>
  BY DEF AnswerInv, PendingInv, DispatchInv, JobFrame, Advances, Acks, Deletes, Frees
<1>1. ASSUME NEW k \in jobs'
      PROVE  \/ k \in jobs
             \/ /\ k.entry = j.entry
                /\ ~KeepsSlot(k) => ~KeepsSlot(j)
                /\ k.pc \in Working => j.pc \in Working
  <2>1. CASE Advances(j)
    BY <1>0, <2>1 DEF Advances, Replaced, Move, Parking, Working
  <2>2. CASE Acks(j)
    BY <2>2 DEF Acks, Replaced, Move, Working, KeepsSlot
  <2>3. CASE Deletes(j)
    BY <2>3 DEF Deletes, Replaced, Move, Leave, Working
  <2>4. CASE Frees(j)
    BY <2>4 DEF Frees, Leave
  <2>5. QED BY <2>1, <2>2, <2>3, <2>4
<1>2. Entries' \subseteq Entries
  BY <1>0, <1>1 DEF Entries, Unacked
<1>3. Current' \subseteq Current
  BY <1>0, <1>1 DEF Current, KeepsSlot
<1>4. \A k \in jobs' : k.pc \in Working => ~Reported(k.entry.req)
  BY <1>1 DEF AnswerInv, Unanswered
<1>5. QED BY <1>0, <1>2, <1>3, <1>4, AnswerShrinks

LEMMA AnswerNext == NoFailures /\ Exclusive /\ AnswerInv /\ [Next]_vars => AnswerInv'
<1> SUFFICES ASSUME NoFailures, Exclusive, AnswerInv, [Next]_vars PROVE AnswerInv'
  OBVIOUS
<1>0. PendingInv /\ PendingInv'
  BY PendingNext DEF AnswerInv
<1>1. CASE Quiet
  <2>1. Entries' \subseteq Entries /\ Current' \subseteq Current
    BY <1>1 DEF Quiet, Entries, Unacked, Current, KeepsSlot
  <2>2. \A k \in jobs' : k.pc \in Working => ~Reported(k.entry.req)
    BY <1>1 DEF Quiet, AnswerInv, Unanswered
  <2>3. QED BY <1>0, <1>1, <2>1, <2>2, AnswerShrinks DEF Quiet
<1>2. ASSUME NEW j \in jobs, JobStep(j) PROVE AnswerInv'
  <2>1. /\ JobFrame(j)
        /\ \/ Advances(j) \/ Parks(j) \/ Replies(j)
           \/ Acks(j) \/ Deletes(j) \/ Frees(j)
    BY <1>0, <1>2, CalmJob, LinkedJob DEF PendingInv, DispatchInv
  <2>2. QED BY <1>0, <2>1, AnswerParks, AnswerReplies, AnswerMoves
<1>3. QED
  BY <1>0, <1>1, <1>2, CalmStep, AnswerAdds, AnswerHandsOut

\* redis-stream-queue.js: an entry becomes a token, a token an entry, and neither
\* leaves a second copy behind.  So while no process crashes and no connection
\* drops a request is answered at most once, however often it is parked.
THEOREM AtMostOneAnswer ==
    ASSUME NoFailures, Exclusive
    PROVE  Spec => []AnsweredOnce
<1>1. Init => AnswerInv
  BY AnswerInit
<1>2. AnswerInv /\ [Next]_vars => AnswerInv'
  BY AnswerNext
<1>3. AnswerInv => AnsweredOnce
  BY DEF AnswerInv
<1>4. QED BY <1>1, <1>2, <1>3, PTL DEF Spec
-----------------------------------------------------------------------------
(* Without crashes and faults the count in a payload is the number of      *)
(* calls made.                                                             *)

\* The inductive invariant: whatever copy may still run a request counts every
\* call, a request that is not accepted has not run, and nothing in hand is
\* ever given up.
AllCounted ==
    /\ \A r \in Scheduled : retry[r] = runs[r]
    /\ \A e \in fresh : e.attempts = runs[e.req]
    /\ \A j \in jobs : j.pc \in BeforeOutcome => j.attempts = runs[j.entry.req]
RunsInv == /\ AnswerInv /\ AttemptsInv /\ AllCounted
           /\ runs \in [Requests -> Nat]
           /\ \A r \in Requests : runs[r] <= Series
           /\ \A r \in Requests : prod[r] # "accepted" => runs[r] = 0
           /\ drops = [r \in Requests |-> 0]

\* How a job moves towards its call and away from it.
LEMMA CallFlow ==
    ASSUME TypeOK, NEW j \in jobs, JobStep(j), NEW k \in jobs', k \notin jobs
    PROVE  \/ j.pc = "limit" /\ k.pc = "call" /\ k.attempts = j.attempts + 1
           \/ /\ k.pc # "call" /\ k.attempts = j.attempts
              /\ k.pc \in BeforeOutcome => j.pc \in BeforeOutcome
<1>0. j \in JobType
  BY JobFields
<1>1. \A pc, res : /\ At(j, pc).pc = pc /\ At(j, pc).attempts = j.attempts
                   /\ Having(j, pc, res).pc = pc /\ Having(j, pc, res).attempts = j.attempts
  BY <1>0 DEF At, Having, JobType
<1>2. /\ [At(j, "call") EXCEPT !.attempts = @ + 1].pc = "call"
      /\ [At(j, "call") EXCEPT !.attempts = @ + 1].attempts = j.attempts + 1
  BY <1>0 DEF At, JobType
<1>3. CASE CheckCache(j)
  BY <1>1, <1>3 DEF CheckCache, Move, Leave, BeforeOutcome
<1>4. CASE CheckLimit(j)
  <2>1. j.pc = "limit"
    BY <1>4 DEF CheckLimit
  <2>2. \/ Move(j, [At(j, "call") EXCEPT !.attempts = @ + 1])
        \/ Move(j, At(j, "defer"))
        \/ Move(j, Having(j, "finish", "err"))
    BY <1>4 DEF CheckLimit
  <2>3. CASE Move(j, [At(j, "call") EXCEPT !.attempts = @ + 1])
    BY <1>2, <2>1, <2>3 DEF Move
  <2>4. CASE Move(j, At(j, "defer")) \/ Move(j, Having(j, "finish", "err"))
    BY <1>1, <2>1, <2>4 DEF Move, BeforeOutcome
  <2>5. QED BY <2>2, <2>3, <2>4
<1>5. CASE Execute(j)
  BY <1>1, <1>5 DEF Execute, Move, BeforeOutcome
<1>6. CASE Defer(j)
  BY <1>1, <1>6 DEF Defer, Move, BeforeOutcome
<1>7. CASE Replay(j) \/ Finish(j)
  BY <1>1, <1>7 DEF Replay, Finish, Undelivered, Move, Leave, BeforeOutcome
<1>8. CASE Ack(j) \/ Del(j) \/ Decr(j)
  BY <1>1, <1>8 DEF Ack, Del, Decr, Move, Leave, BeforeOutcome
<1>9. QED BY <1>3, <1>4, <1>5, <1>6, <1>7, <1>8 DEF JobStep

\* A call comes from the only copy of the request, and every other step of a job
\* leaves the counts alone.
LEMMA RunsOfJob ==
    ASSUME RunsInv, AnswerInv', AttemptsInv', NEW j \in jobs, JobStep(j), Record
    PROVE  /\ AllCounted'
           /\ runs' \in [Requests -> Nat]
           /\ \A r \in Requests : runs'[r] <= Series
           /\ \A r \in Requests : prod'[r] # "accepted" => runs'[r] = 0
<1> DEFINE q == j.entry.req
<1>0. /\ TypeOK /\ AllCounted /\ Parking /\ runs \in [Requests -> Nat]
      /\ q \in Requests /\ j.attempts \in Nat /\ MaxAttempts \in Nat
  BY JobFields, SizesAssumption
  DEF RunsInv, AnswerInv, PendingInv, DispatchInv, JobType, EntryType
<1>1. JobFrame(j) /\ fresh' = fresh /\ prod' = prod
  BY <1>0, JobMoves DEF JobFrame
<1>2. \A k \in jobs' : k \in jobs \/ k.entry = j.entry
  BY <1>0, <1>1, JobKeepsEntry
<1>3. \A r \in Requests : retry'[r] = retry[r] \/ (r = q /\ j.pc = "defer" /\ retry'[r] = j.attempts)
  <2>1. retry' = retry \/ (j.pc = "defer" /\ Park(j))
    BY DEF JobStep, CheckCache, CheckLimit, Execute, Defer, Replay, Finish, Ack, Del, Decr
  <2>2. QED BY <1>0, <2>1 DEF Park, TypeOK
<1>4. CASE \E k \in jobs' \ jobs : k.pc = "call"
  <2>1. PICK k \in jobs' \ jobs : k.pc = "call" /\ k.entry = j.entry
    BY <1>2, <1>4
  <2>2. j.pc = "limit" /\ k.attempts = j.attempts + 1
    BY <1>0, <2>1, CallFlow
  <2>3. runs' = [runs EXCEPT ![q] = @ + 1]
    <3>1. Called(q) /\ \A r \in Requests : r # q => ~Called(r)
      BY <1>2, <2>1 DEF Called
    <3>2. QED BY <1>0, <3>1 DEF Record
  <2>4. j.attempts = runs[q] /\ ~KeepsSlot(j)
    BY <1>0, <2>2 DEF AllCounted, BeforeOutcome, Parking
  <2>5. k.attempts = runs'[q] /\ runs'[q] <= Series
    BY <1>0, <2>1, <2>2, <2>3, <2>4 DEF AttemptsInv, Series
  <2>6. /\ \A i \in jobs : ~KeepsSlot(i) /\ i.entry.req = q => i = j
        /\ \A e \in fresh : e.req # q
        /\ q \notin Scheduled
    BY <2>4, OnlyJob DEF RunsInv
  <2>7. \A i \in jobs' : i = k \/ (i \in jobs /\ i # j)
    <3>1. \E i : Move(j, i)
      BY <1>0, <2>1, JobMoves DEF Leave
    <3>2. QED BY <2>1, <3>1 DEF Move
  <2>8. AllCounted'
    <3>1. \A r \in Scheduled' : retry'[r] = runs'[r]
      BY <1>0, <1>3, <2>2, <2>3, <2>6 DEF AllCounted, Scheduled
    <3>2. \A e \in fresh' : e.attempts = runs'[e.req]
      BY <1>0, <1>1, <2>3, <2>6 DEF AllCounted, TypeOK, EntryType
    <3>3. ASSUME NEW i \in jobs', i.pc \in BeforeOutcome PROVE i.attempts = runs'[i.entry.req]
      <4>1. CASE i = k
        BY <2>1, <2>5, <4>1
      <4>2. CASE i \in jobs /\ i # j
        <5>1. i.entry.req # q /\ i.entry.req \in Requests
          BY <1>0, <2>6, <3>3, <4>2, JobFields DEF Parking, BeforeOutcome
        <5>2. QED BY <1>0, <2>3, <3>3, <4>2, <5>1 DEF AllCounted
      <4>3. QED BY <2>7, <4>1, <4>2
    <3>4. QED BY <3>1, <3>2, <3>3 DEF AllCounted
  <2>9. prod[q] = "accepted"
    BY <1>0 DEF RunsInv, AnswerInv, NotAccepted, Absent, Entries
  <2>10. QED BY <1>0, <1>1, <2>3, <2>5, <2>8, <2>9 DEF RunsInv
<1>5. CASE \A k \in jobs' \ jobs : k.pc # "call"
  <2>1. runs' = runs
    <3>1. \A r \in Requests : ~Called(r)
      BY <1>5 DEF Called
    <3>2. QED BY <1>0, <3>1 DEF Record
  <2>2. \A k \in jobs' \ jobs : /\ k.attempts = j.attempts /\ k.entry = j.entry
                                /\ k.pc \in BeforeOutcome => j.pc \in BeforeOutcome
    BY <1>0, <1>2, <1>5, CallFlow
  <2>3. \A r \in Scheduled' : retry'[r] = runs'[r]
    BY <1>0, <1>3, <2>1 DEF AllCounted, Scheduled, BeforeOutcome
  <2>4. \A e \in fresh' : e.attempts = runs'[e.req]
    BY <1>0, <1>1, <2>1 DEF AllCounted
  <2>5. ASSUME NEW k \in jobs', k.pc \in BeforeOutcome PROVE k.attempts = runs'[k.entry.req]
    <3>1. CASE k \in jobs
      BY <1>0, <2>1, <2>5, <3>1 DEF AllCounted
    <3>2. CASE k \notin jobs
      <4>1. k.attempts = j.attempts /\ k.entry = j.entry /\ j.pc \in BeforeOutcome
        BY <2>2, <2>5, <3>2
      <4>2. j.attempts = runs[j.entry.req]
        BY <1>0, <4>1 DEF AllCounted
      <4>3. QED BY <2>1, <4>1, <4>2
    <3>3. QED BY <3>1, <3>2
  <2>6. QED BY <1>0, <1>1, <2>1, <2>3, <2>4, <2>5 DEF RunsInv, AllCounted
<1>6. QED BY <1>4, <1>5

LEMMA RunsStep ==
    ASSUME NoFailures, Exclusive, RunsInv, RunsNext
    PROVE  RunsInv'
<1>0. /\ AnswerInv' /\ AttemptsInv' /\ PendingInv /\ PendingInv' /\ TypeOK /\ Record
      /\ AllCounted /\ runs \in [Requests -> Nat] /\ [Next]_vars
  BY AnswerNext, AttemptsNext DEF RunsInv, RunsNext, AnswerInv, AttemptsInv
<1>1. drops' = [r \in Requests |-> 0]
  <2>1. \A r \in Requests : Dropped(r) = {}
    BY <1>0 DEF Dropped, PendingInv, Worked
  <2>2. \A r \in Requests : drops[r] + Cardinality(Dropped(r)) = 0
    BY <2>1, FS_EmptySet DEF RunsInv
  <2>3. QED BY <1>0, <2>2 DEF Record
<1>2. CASE /\ \A k \in jobs' : k \in jobs \/ (k.pc \in {"cache", "limit"} /\ k.entry \in fresh
                                             /\ k.attempts = k.entry.attempts)
           /\ \A e \in fresh' : e \in fresh \/ (e.req \in Requests /\ e.attempts = runs[e.req])
           /\ \A r \in Requests : retry'[r] = retry[r] \/ retry'[r] = NotScheduled
           /\ \A r \in Requests : prod'[r] = "accepted" \/ prod[r] # "accepted"
  <2>1. runs' = runs
    <3>1. \A r \in Requests : ~Called(r)
      BY <1>2 DEF Called
    <3>2. QED BY <1>0, <3>1 DEF Record
  <2>2. AllCounted'
    BY <1>0, <1>2, <2>1 DEF AllCounted, Scheduled
  <2>3. QED BY <1>0, <1>1, <1>2, <2>1, <2>2 DEF RunsInv
<1>3. CASE Quiet
  BY <1>2, <1>3 DEF Quiet
<1>4. ASSUME NEW q \in Requests, Admits(q) \/ Promotes(q) PROVE RunsInv'
  <2>1. CASE Admits(q)
    <3>1. runs[q] = 0
      BY <2>1 DEF Admits, RunsInv
    <3>2. Entry(q, 0).req = q /\ Entry(q, 0).attempts = runs[q]
      BY <3>1 DEF Entry
    <3>3. \A r \in Requests : prod'[r] = "accepted" \/ prod[r] # "accepted"
      BY <1>0, <2>1 DEF Admits, TypeOK
    <3>4. QED BY <1>2, <2>1, <3>2, <3>3 DEF Admits, AddEntry
  <2>2. CASE Promotes(q)
    <3>1. retry[q] = runs[q]
      BY <1>0, <2>2 DEF Promotes, AllCounted, Scheduled
    <3>2. Entry(q, retry[q]).req = q /\ Entry(q, retry[q]).attempts = runs[q]
      BY <3>1 DEF Entry
    <3>3. \A r \in Requests : retry'[r] = retry[r] \/ retry'[r] = NotScheduled
      BY <1>0, <2>2 DEF Promotes, Unpark, TypeOK
    <3>4. QED BY <1>2, <2>2, <3>2, <3>3 DEF Promotes, AddEntry
  <2>3. QED BY <1>4, <2>1, <2>2
<1>5. ASSUME NEW g \in Gateways, NEW batch \in SUBSET fresh, HandsOut(g, batch) PROVE RunsInv'
  <2>1. \A e \in batch : /\ NewJob(g, e).pc \in {"cache", "limit"} /\ NewJob(g, e).entry = e
                        /\ NewJob(g, e).attempts = e.attempts
    BY DEF NewJob
  <2>2. QED BY <1>2, <1>5, <2>1 DEF HandsOut
<1>6. ASSUME NEW j \in jobs, JobStep(j) PROVE RunsInv'
  BY <1>0, <1>1, <1>6, RunsOfJob DEF RunsInv
<1>7. QED BY <1>0, <1>3, <1>4, <1>5, <1>6, CalmStep

\* gateway-server.js:468, 478-480, redis-stream-queue.js:242-258, 433: the count is
\* raised before the call, parked with the payload and promoted with it.  So while no
\* process crashes and no connection drops, a request is called at most once and
\* MaxAttempts times again, and every copy that may still run it counts them all.
THEOREM CallsAreCounted ==
    ASSUME NoFailures, Exclusive
    PROVE  RunsSpec => [](RetriesBounded /\ CountTravels)
<1>1. RunsInit => RunsInv
  <2> SUFFICES ASSUME RunsInit PROVE RunsInv
    OBVIOUS
  <2>1. Init /\ MaxAttempts \in Nat
    BY SizesAssumption DEF RunsInit
  <2>2. AnswerInv /\ AttemptsInv
    BY <2>1, AnswerInit, AttemptsInit
  <2>3. QED BY <2>1, <2>2 DEF RunsInit, RunsInv, AllCounted, Init, Scheduled, Series
<1>2. RunsInv /\ [RunsNext]_<<vars, runs, drops>> => RunsInv'
  <2> SUFFICES ASSUME RunsInv, [RunsNext]_<<vars, runs, drops>> PROVE RunsInv'
    OBVIOUS
  <2>1. CASE UNCHANGED <<vars, runs, drops>>
    <3>1. AnswerInv' /\ AttemptsInv'
      BY <2>1, AnswerNext, AttemptsNext DEF RunsInv
    <3>2. QED BY <2>1, <3>1 DEF RunsInv, AllCounted, Scheduled
  <2>2. QED BY <2>1, RunsStep
<1>3. RunsInv => RetriesBounded /\ CountTravels
  <2> SUFFICES ASSUME RunsInv PROVE RetriesBounded /\ CountTravels
    OBVIOUS
  <2>1. RetriesBounded
    BY SizesAssumption DEF RunsInv, RetriesBounded, Series
  <2>2. ASSUME NEW r \in Requests, NEW n \in Counts(r) PROVE n = runs[r] /\ runs[r] \in Nat
    <3>1. CASE n \in {retry[r]} \ {NotScheduled}
      BY <3>1 DEF RunsInv, AllCounted, Scheduled
    <3>2. CASE n \in {e.attempts : e \in {f \in fresh : f.req = r}}
      BY <3>2 DEF RunsInv, AllCounted
    <3>3. CASE n \in {j.attempts : j \in {k \in jobs : k.entry.req = r /\ k.pc \in BeforeOutcome}}
      BY <3>3 DEF RunsInv, AllCounted
    <3>4. QED BY <2>2, <3>1, <3>2, <3>3 DEF Counts, RunsInv
  <2>3. QED BY <2>1, <2>2 DEF CountTravels
<1>4. QED BY <1>1, <1>2, <1>3, PTL DEF RunsSpec
-----------------------------------------------------------------------------
(* Without disturbances but denials the counter is exact.                  *)

Undisturbed == NoFailures /\ GroupsSurvive /\ Limit["stop"] = 0

\* The inductive invariant: every gateway runs, the counter is the number of slot
\* holders, and those past the check against maxQueueSize are within it.
Running == \A g \in Gateways : ~closing[g] /\ loop[g] \notin {"down", "exited"}
Reserving == {r \in Requests : prod[r] \in InFlight}
Cleaning == {j.entry.req : j \in {k \in jobs : k.pc \in {"del", "decr"} /\ ~KeepsSlot(k)}}
Admitted == {r \in Requests : prod[r] = "xadd"} \cup Live \cup Cleaning
CountInv == /\ AnswerInv /\ InHand /\ GroupsStand /\ Running /\ StreamTidy
            /\ IsFiniteSet(SlotHolders) /\ DepthExact
            /\ Cardinality(Admitted) <= MaxQueueSize

LEMMA SlotsAre == /\ SlotHolders = Reserving \cup Live \cup Cleaning
                  /\ SlotHolders' = Reserving' \cup Live' \cup Cleaning'
BY DEF SlotHolders, Reserving, Cleaning

LEMMA CountInit == Undisturbed /\ Init => CountInv
<1> SUFFICES ASSUME Undisturbed, Init PROVE CountInv
  OBVIOUS
<1>1. AnswerInv
  BY AnswerInit
<1>2. Reserving = {} /\ Live = {} /\ Cleaning = {} /\ Admitted = {}
  BY DEF Init, Reserving, Live, Unacked, Handed, Scheduled, Cleaning, Admitted, InFlight
<1>3. SlotHolders = {}
  BY <1>2, SlotsAre
<1>4. InHand /\ GroupsStand /\ Running /\ StreamTidy
  BY DEF Undisturbed, GroupsSurvive, Init, InHand, GroupsStand, Running, StreamTidy
<1>5. depth = 0 /\ MaxQueueSize >= 0
  BY SizesAssumption DEF Init
<1>6. QED BY <1>1, <1>2, <1>3, <1>4, <1>5, FS_EmptySet DEF CountInv, DepthExact

\* How a step can move the slots.
SameSlots == /\ SlotHolders' = SlotHolders /\ Admitted' = Admitted
             /\ depth' = depth
Gains(r) == /\ SlotHolders' = SlotHolders \cup {r} /\ r \notin SlotHolders
            /\ depth' = depth + 1
            /\ Admitted' \subseteq Admitted \cup {r}
            /\ Overflows(depth') => Admitted' = Admitted
Loses(r) == /\ SlotHolders' = SlotHolders \ {r} /\ r \in SlotHolders
            /\ depth' = depth - 1 /\ Admitted' \subseteq Admitted

LEMMA CountMoves ==
    ASSUME CountInv, SameSlots \/ \E r : Gains(r) \/ Loses(r)
    PROVE  /\ IsFiniteSet(SlotHolders') /\ DepthExact'
           /\ Cardinality(Admitted') <= MaxQueueSize
<1>0. /\ IsFiniteSet(SlotHolders) /\ depth = Cardinality(SlotHolders)
      /\ Cardinality(Admitted) <= MaxQueueSize /\ MaxQueueSize \in Nat
  BY SizesAssumption DEF CountInv, DepthExact
<1>1. Admitted \subseteq SlotHolders
  BY SlotsAre DEF Admitted, Reserving, InFlight
<1>2. /\ IsFiniteSet(Admitted) /\ Cardinality(Admitted) \in Nat
      /\ Cardinality(SlotHolders) \in Nat /\ Cardinality(Admitted) <= Cardinality(SlotHolders)
  BY <1>0, <1>1, FS_Subset, FS_CardinalityType
<1>3. CASE SameSlots
  BY <1>0, <1>3 DEF SameSlots, DepthExact
<1>4. ASSUME NEW r, Gains(r)
      PROVE  /\ IsFiniteSet(SlotHolders') /\ DepthExact'
             /\ Cardinality(Admitted') <= MaxQueueSize
  <2>1. IsFiniteSet(SlotHolders') /\ Cardinality(SlotHolders') = Cardinality(SlotHolders) + 1
    BY <1>0, <1>4, FS_AddElement DEF Gains
  <2>2. DepthExact'
    BY <1>0, <1>4, <2>1 DEF Gains, DepthExact
  <2>3. CASE Overflows(depth')
    BY <1>0, <1>4, <2>1, <2>2, <2>3 DEF Gains
  <2>4. CASE ~Overflows(depth')
    <3>1. /\ IsFiniteSet(Admitted \cup {r})
          /\ Cardinality(Admitted \cup {r}) \in Nat
          /\ Cardinality(Admitted \cup {r}) <= Cardinality(Admitted) + 1
      <4>1. /\ IsFiniteSet(Admitted \cup {r})
            /\ Cardinality(Admitted \cup {r}) =
                 IF r \in Admitted THEN Cardinality(Admitted) ELSE Cardinality(Admitted) + 1
        BY <1>2, FS_AddElement
      <4>2. QED BY <1>2, <4>1
    <3>2. /\ Cardinality(Admitted') <= Cardinality(Admitted \cup {r})
          /\ Cardinality(Admitted') \in Nat
      BY <1>4, <3>1, FS_Subset, FS_CardinalityType DEF Gains
    <3>3. depth + 1 <= MaxQueueSize
      BY <1>0, <1>2, <1>4, <2>4 DEF Gains, Overflows
    <3>4. QED BY <1>0, <1>2, <2>1, <2>2, <3>1, <3>2, <3>3
  <2>5. QED BY <2>3, <2>4
<1>5. ASSUME NEW r, Loses(r)
      PROVE  /\ IsFiniteSet(SlotHolders') /\ DepthExact'
             /\ Cardinality(Admitted') <= MaxQueueSize
  <2>1. IsFiniteSet(SlotHolders') /\ Cardinality(SlotHolders') = Cardinality(SlotHolders) - 1
    BY <1>0, <1>5, FS_RemoveElement DEF Loses
  <2>2. Cardinality(Admitted') <= Cardinality(Admitted) /\ Cardinality(Admitted') \in Nat
    BY <1>2, <1>5, FS_Subset, FS_CardinalityType DEF Loses
  <2>3. QED BY <1>0, <1>2, <1>5, <2>1, <2>2 DEF Loses, DepthExact
<1>6. QED BY <1>3, <1>4, <1>5

\* Where each kind of slot holder is, as a step sees it.
LEMMA SlotSets ==
    ASSUME CountInv
    PROVE  /\ Handed = {e \in Entries : \E k \in jobs : k.entry = e /\ k.pc = "ack" /\ KeepsSlot(k)}
           /\ \A j \in jobs : j.pc # "ack" \/ ~KeepsSlot(j) => j.entry \notin Handed
           /\ \A j \in jobs : j.pc \notin {"del", "decr"} /\ (j.pc # "ack" \/ ~KeepsSlot(j))
                 => j.entry.req \in Live
<1>1. NoDoubleDispatch /\ InHand
  BY DEF CountInv, AnswerInv, PendingInv, DispatchInv
<1>2. \A j \in jobs : j.pc # "ack" \/ ~KeepsSlot(j) => j.entry \notin Handed
  BY <1>1 DEF NoDoubleDispatch, Handed
<1>3. Handed = {e \in Entries : \E k \in jobs : k.entry = e /\ k.pc = "ack" /\ KeepsSlot(k)}
  BY DEF Handed, Entries
<1>4. QED BY <1>1, <1>2, <1>3 DEF InHand, Live, Unacked

\* enqueue() takes a slot with INCR, gives it back or fills it with an entry.
LEMMA SlotsOfProducer ==
    ASSUME Undisturbed, CountInv, NEW q \in Requests, Producer(q)
    PROVE  SameSlots \/ Gains(q) \/ Loses(q)
<1>0. /\ TypeOK /\ ~Spend("fault") /\ NotAccepted /\ HomeOf[q] \in Gateways
      /\ Answered(HomeOf[q]) /\ ~Refused(HomeOf[q]) /\ ~ReplyLost(HomeOf[q])
  <2>1. TypeOK /\ ~Spend("fault") /\ NotAccepted /\ HomeOf[q] \in Gateways
    BY NothingFails, RequestsAssumption
    DEF Undisturbed, CountInv, AnswerInv, PendingInv, DispatchInv
  <2>2. link[HomeOf[q]]
    BY <2>1 DEF CountInv, AnswerInv, PendingInv, Linked, Running
  <2>3. ~Refused(HomeOf[q]) /\ ~ReplyLost(HomeOf[q])
    BY <2>1, <2>2 DEF Refused, ReplyLost
  <2>4. QED BY <2>1, <2>3 DEF Producer, Reserve, GiveBack, XAdd, Executed
<1>1. ~(prod[q] = "accepted") => q \notin Live /\ q \notin Cleaning
  BY <1>0 DEF NotAccepted, Absent, Entries, Unacked, Live, Scheduled, Cleaning
<1>2. CASE Reserve(q) \/ GiveBack(q)
  <2>1. Live' = Live /\ Cleaning' = Cleaning
    BY <1>2 DEF Reserve, GiveBack, Live, Unacked, Handed, Scheduled, Cleaning, KeepsSlot
  <2>2. CASE Reserve(q)
    <3>1. /\ prod[q] = "new" /\ depth' = depth + 1
          /\ prod' = [prod EXCEPT ![q] = IF Overflows(depth') THEN "rollback" ELSE "xadd"]
      BY <1>0, <2>2 DEF Reserve, SetProd
    <3>2. Reserving' = Reserving \cup {q} /\ q \notin Reserving
      BY <1>0, <3>1 DEF Reserving, InFlight, TypeOK
    <3>3. /\ Admitted' \subseteq Admitted \cup {q}
          /\ Overflows(depth') => Admitted' = Admitted
      BY <1>0, <2>1, <3>1 DEF Admitted, TypeOK
    <3>4. Gains(q)
      BY <1>1, <2>1, <3>1, <3>2, <3>3, SlotsAre DEF Gains
    <3>5. QED BY <3>4
  <2>3. CASE GiveBack(q)
    <3>1. /\ prod[q] \in {"rollback", "undo"} /\ depth' = depth - 1
          /\ prod' = [prod EXCEPT ![q] = "rejected"]
      BY <1>0, <2>3 DEF GiveBack, SetProd
    <3>2. Reserving' = Reserving \ {q} /\ q \in Reserving
      BY <1>0, <3>1 DEF Reserving, InFlight, TypeOK
    <3>3. Admitted' = Admitted
      BY <1>0, <2>1, <3>1 DEF Admitted, TypeOK
    <3>4. Loses(q)
      BY <1>1, <2>1, <3>1, <3>2, <3>3, SlotsAre DEF Loses
    <3>5. QED BY <3>4
  <2>4. QED BY <1>2, <2>2, <2>3
<1>3. CASE XAdd(q)
  <2> DEFINE e == Entry(q, 0)
  <2>1. /\ prod[q] = "xadd" /\ prod' = [prod EXCEPT ![q] = "accepted"]
        /\ AddEntry(e) /\ UNCHANGED <<depth, retry, jobs>>
    BY <1>0, <1>3 DEF XAdd, SetProd
  <2>2. e.id = lastId + 1 /\ e.req = q
    BY DEF Entry
  <2>3. Handed' = Handed /\ Cleaning' = Cleaning /\ Scheduled' = Scheduled
    BY <2>1 DEF Handed, Cleaning, KeepsSlot, Scheduled
  <2>4. e \notin Handed
    <3>1. \A f \in Handed : f \in Entries
      BY DEF Handed, Entries
    <3>2. QED BY <1>0, <2>2, <3>1 DEF CountInv, AnswerInv, PendingInv, DispatchInv, Numbered, TypeOK
  <2>5. Live' = Live \cup {q}
    BY <2>1, <2>2, <2>3, <2>4 DEF AddEntry, Live, Unacked
  <2>6. Reserving' = Reserving \ {q} /\ q \in Reserving
    BY <1>0, <2>1 DEF Reserving, InFlight, TypeOK
  <2>7. Admitted' = Admitted
    BY <1>0, <2>1, <2>3, <2>5 DEF Admitted, TypeOK
  <2>8. SameSlots
    BY <2>1, <2>3, <2>5, <2>6, <2>7, SlotsAre DEF SameSlots
  <2>9. QED BY <2>8
<1>4. QED BY <1>2, <1>3 DEF Producer

\* A promoted request keeps the slot its token held.
LEMMA SlotsOfPromotion ==
    ASSUME CountInv, NEW q \in Requests, Promotes(q)
    PROVE  SameSlots
<1> DEFINE e == Entry(q, retry[q])
<1>0. TypeOK
  BY DEF CountInv, AnswerInv, PendingInv, DispatchInv
<1>1. e.id = lastId + 1 /\ e.req = q
  BY DEF Entry
<1>2. Handed' = Handed /\ Cleaning' = Cleaning /\ Scheduled = Scheduled' \cup {q}
  BY <1>0 DEF Promotes, Unpark, Handed, Cleaning, KeepsSlot, Scheduled, TypeOK
<1>3. e \notin Handed
  <2>1. \A f \in Handed : f \in Entries
    BY DEF Handed, Entries
  <2>2. QED BY <1>0, <1>1, <2>1 DEF CountInv, AnswerInv, PendingInv, DispatchInv, Numbered, TypeOK
<1>4. Live' = Live
  BY <1>1, <1>2, <1>3 DEF Promotes, AddEntry, Live, Unacked
<1>5. Reserving' = Reserving /\ Admitted' = Admitted
  BY <1>2, <1>4 DEF Promotes, Reserving, Admitted
<1>6. QED BY <1>2, <1>4, <1>5, SlotsAre DEF SameSlots, Promotes

LEMMA SlotsOfBatch ==
    ASSUME NEW g \in Gateways, NEW batch \in SUBSET fresh, HandsOut(g, batch)
    PROVE  SameSlots
<1>1. \A e \in batch : NewJob(g, e).pc \in {"cache", "limit"}
  BY DEF NewJob
<1>2. \A k \in jobs' : k \in jobs \/ k.pc \in {"cache", "limit"}
  BY <1>1 DEF HandsOut
<1>3. jobs \subseteq jobs' /\ Unacked' = Unacked
  BY DEF HandsOut, Unacked
<1>4. Handed' = Handed /\ Cleaning' = Cleaning
  BY <1>2, <1>3 DEF Handed, Cleaning, KeepsSlot
<1>5. Live' = Live
  BY <1>3, <1>4 DEF HandsOut, Live, Scheduled
<1>6. QED BY <1>4, <1>5, SlotsAre DEF HandsOut, SameSlots, Reserving, Admitted

\* A job keeps its request's slot until the last DECR, or leaves it to the token.
LEMMA SlotsOfJob ==
    ASSUME CountInv, NEW j \in jobs, JobFrame(j),
           \/ Advances(j) \/ Parks(j) \/ Replies(j)
           \/ Acks(j) \/ Deletes(j) \/ Frees(j)
    PROVE  SameSlots \/ Loses(j.entry.req)
<1> DEFINE q == j.entry.req
<1>0. /\ TypeOK /\ Parking /\ Acked /\ Worked /\ InHand /\ NoDoubleDispatch /\ OutOfFresh
      /\ NotAccepted /\ fresh' = fresh /\ prod' = prod /\ Reserving' = Reserving
      /\ q \in Requests
  BY JobFields DEF CountInv, AnswerInv, PendingInv, DispatchInv, JobFrame, Reserving
<1>1. ASSUME Live' = Live, Cleaning' = Cleaning, depth' = depth PROVE SameSlots
  BY <1>0, <1>1, SlotsAre DEF SameSlots, Admitted
<1>2. ASSUME NEW k, Replaced(j, k)
      PROVE  /\ \A i \in jobs' : i = k \/ (i \in jobs /\ i # j)
             /\ \A i \in jobs : i = j \/ i \in jobs'
             /\ k \in jobs' /\ k.entry = j.entry
             /\ \A i \in jobs : i # j => i.entry # j.entry
  BY <1>0, <1>2 DEF Replaced, Move, NoDoubleDispatch
<1>3. CASE Advances(j) \/ Replies(j)
  <2>1. PICK k : /\ Replaced(j, k) /\ ~KeepsSlot(k) /\ k.pc \notin {"del", "decr"}
    BY <1>3 DEF Advances, Replies, Working
  <2>2. j.pc \notin {"ack", "del", "decr"} /\ UNCHANGED <<pel, retry, depth>>
    BY <1>3 DEF Advances, Replies, Working
  <2>3. Handed' = Handed /\ Cleaning' = Cleaning
    BY <1>2, <2>1, <2>2 DEF Handed, Cleaning, KeepsSlot
  <2>4. Live' = Live
    BY <1>0, <2>2, <2>3 DEF Live, Unacked, Scheduled
  <2>5. QED BY <1>1, <2>2, <2>3, <2>4
<1>4. CASE Parks(j)
  <2>1. PICK k : Replaced(j, k) /\ k.pc = "ack" /\ KeepsSlot(k)
    BY <1>4 DEF Parks
  <2>2. Handed' = Handed \cup {j.entry}
    BY <1>2, <1>4, <2>1 DEF Parks, Handed, KeepsSlot
  <2>3. Cleaning' = Cleaning
    BY <1>2, <1>4, <2>1 DEF Parks, Cleaning, KeepsSlot
  <2>4. Scheduled' = Scheduled \cup {q}
    BY <1>0, <1>4, JobFields DEF Parks, Park, Scheduled, TypeOK, NotScheduled
  <2>5. q \in Live
    BY <1>4, SlotSets DEF Parks
  <2>6. Live' = Live
    BY <1>0, <1>4, <2>2, <2>4, <2>5 DEF Parks, Live, Unacked
  <2>7. QED BY <1>1, <1>4, <2>3, <2>6 DEF Parks
<1>5. CASE Acks(j)
  <2>1. PICK k : Replaced(j, k) /\ k.pc = "del" /\ k.res = j.res
    BY <1>5 DEF Acks
  <2>2. j.pc = "ack" /\ j.entry \notin fresh /\ UNCHANGED <<retry, depth>>
    BY <1>0, <1>5 DEF Acks, OutOfFresh
  <2>3. Unacked' = Unacked \ {j.entry} /\ Scheduled' = Scheduled
    BY <1>0, <1>5, <2>2 DEF Acks, Unacked, Scheduled
  <2>4. CASE KeepsSlot(j)
    <3>1. Handed' = Handed \ {j.entry} /\ j.entry \in Handed
      BY <1>2, <2>1, <2>2, <2>4 DEF Handed, KeepsSlot
    <3>2. Cleaning' = Cleaning
      BY <1>2, <2>1, <2>2, <2>4 DEF Cleaning, KeepsSlot
    <3>3. Unacked' \ Handed' = Unacked \ Handed
      BY <2>3, <3>1
    <3>4. QED BY <1>1, <2>2, <2>3, <3>2, <3>3 DEF Live
  <2>5. CASE ~KeepsSlot(j)
    <3>1. Handed' = Handed
      BY <1>2, <2>1, <2>2, <2>5 DEF Handed, KeepsSlot
    <3>2. Cleaning' = Cleaning \cup {q}
      BY <1>2, <2>1, <2>2, <2>5 DEF Cleaning, KeepsSlot
    <3>3. q \in Live
      BY <2>2, <2>5, SlotSets
    <3>4. Live \subseteq Live' \cup {q} /\ Live' \subseteq Live
      BY <2>3, <3>1 DEF Live
    <3>5. Live' \cup Cleaning' = Live \cup Cleaning
      BY <3>2, <3>3, <3>4
    <3>6. QED BY <1>0, <2>2, <3>5, SlotsAre DEF SameSlots, Admitted
  <2>6. QED BY <2>4, <2>5
<1>6. CASE Deletes(j)
  <2>1. j.pc = "del" /\ UNCHANGED <<pel, retry, depth>>
    BY <1>6 DEF Deletes
  <2>2. CASE KeepsSlot(j)
    <3>1. jobs' = jobs \ {j}
      BY <1>6, <2>2 DEF Deletes, Leave
    <3>2. Handed' = Handed /\ Cleaning' = Cleaning
      BY <2>1, <2>2, <3>1 DEF Handed, Cleaning, KeepsSlot
    <3>3. QED BY <1>0, <1>1, <2>1, <3>2 DEF Live, Unacked, Scheduled
  <2>3. CASE ~KeepsSlot(j)
    <3>1. PICK k : Replaced(j, k) /\ k.pc = "decr" /\ ~KeepsSlot(k)
      BY <1>6, <2>3 DEF Deletes
    <3>2. Handed' = Handed /\ Cleaning' = Cleaning
      BY <1>2, <2>1, <2>3, <3>1 DEF Handed, Cleaning, KeepsSlot
    <3>3. QED BY <1>0, <1>1, <2>1, <3>2 DEF Live, Unacked, Scheduled
  <2>4. QED BY <2>2, <2>3
<1>7. CASE Frees(j)
  <2>1. /\ j.pc = "decr" /\ ~KeepsSlot(j) /\ jobs' = jobs \ {j} /\ j.entry \notin pel
        /\ depth' = depth - 1 /\ UNCHANGED <<pel, retry>>
    BY <1>0, <1>7 DEF Frees, Leave, Parking, Acked
  <2>2. /\ \A i \in jobs : ~KeepsSlot(i) /\ i.entry.req = q => i = j
        /\ \A e \in fresh : e.req # q
        /\ q \notin Scheduled
    BY <2>1, OnlyJob DEF CountInv
  <2>3. q \in Cleaning /\ Cleaning' = Cleaning \ {q}
    BY <2>1, <2>2 DEF Cleaning, KeepsSlot
  <2>4. Handed' = Handed
    BY <2>1 DEF Handed, KeepsSlot
  <2>5. Live' = Live
    BY <1>0, <2>1, <2>4 DEF Live, Unacked, Scheduled
  <2>6. q \notin Live
    <3>1. ASSUME NEW e \in pel, e.req = q PROVE e \in Handed
      <4>1. PICK i \in jobs : i.entry = e
        BY <1>0 DEF Worked
      <4>2. KeepsSlot(i)
        BY <2>1, <2>2, <3>1, <4>1
      <4>3. i.pc = "ack"
        BY <1>0, <4>1, <4>2 DEF Parking, Acked
      <4>4. QED BY <4>1, <4>2, <4>3 DEF Handed
    <3>2. QED BY <2>2, <3>1 DEF Live, Unacked
  <2>7. q \notin Reserving
    BY <1>0 DEF NotAccepted, Absent, Entries, Reserving, InFlight
  <2>8. Loses(q)
    BY <1>0, <2>1, <2>3, <2>5, <2>6, <2>7, SlotsAre DEF Loses, Admitted
  <2>9. QED BY <2>8
<1>8. QED BY <1>3, <1>4, <1>5, <1>6, <1>7
\* The steps that touch neither an entry, a job, a producer nor the counter.
Idle == UNCHANGED <<fresh, pel, kept, jobs, retry, prod, depth>>

LEMMA SlotsOfIdle == Idle => SameSlots
BY SlotsAre
DEF Idle, SameSlots, Admitted, Reserving, Cleaning, Live, Unacked, Handed, Scheduled, KeepsSlot

LEMMA CountStep ==
    ASSUME Undisturbed, Exclusive, CountInv, [Next]_vars
    PROVE  \/ Idle
           \/ \E q \in Requests : Producer(q) \/ Promotes(q)
           \/ \E g \in Gateways, batch \in SUBSET fresh : HandsOut(g, batch)
           \/ \E j \in jobs : JobStep(j)
<1> DEFINE Count == \/ Idle
                    \/ \E q \in Requests : Producer(q) \/ Promotes(q)
                    \/ \E g \in Gateways, batch \in SUBSET fresh : HandsOut(g, batch)
                    \/ \E j \in jobs : JobStep(j)
<1>0. /\ PendingInv /\ TypeOK /\ GroupsStand /\ Running /\ NoFailures
      /\ ~Spend("crash") /\ ~Spend("fault")
  BY NothingFails DEF Undisturbed, CountInv, AnswerInv, PendingInv, DispatchInv
<1>1. ASSUME NEW p \in Priorities, Wipe(p) PROVE FALSE
  BY <1>0, <1>1 DEF Wipe, Spend, Undisturbed, GroupsSurvive, TypeOK, Kinds
<1>2. ASSUME NEW g \in Gateways, Quit(g) \/ Crash(g) PROVE FALSE
  BY <1>0, <1>2 DEF Quit, Crash, Running
<1>3. ASSUME NEW g \in Gateways, ClaimPending(g) \/ RecoverGroups(g) \/ Start(g) PROVE Idle
  <2>1. \A e \in fresh : group[PrioOf(e.req)]
    BY <1>0 DEF GroupsStand, PrioOf, Priorities
  <2>2. CASE ClaimPending(g) \/ RecoverGroups(g)
    BY <1>0, <2>1, <2>2, NoReclaim, ClaimEffect, RecoverEffect DEF Idle
  <2>3. CASE Start(g)
    BY <2>1, <2>3 DEF Start, EnsureGroups, Unread, Idle
  <2>4. QED BY <1>3, <2>2, <2>3
<1>4. ASSUME NEW g \in Gateways, Read(g) PROVE Count
  <2>1. PICK p \in Priorities :
          /\ Take(g, Oldest(OfStream(fresh, p), BatchSize))
          /\ fresh' = fresh \ Oldest(OfStream(fresh, p), BatchSize)
    BY <1>4 DEF Read
  <2> DEFINE batch == Oldest(OfStream(fresh, p), BatchSize)
  <2>2. batch \subseteq fresh
    BY DEF Oldest, OfStream
  <2>3. HandsOut(g, batch)
    BY <1>0, <2>1, <2>2 DEF Take, HandsOut
  <2>4. QED BY <2>2, <2>3
<1>5. ASSUME NEW g \in Gateways, Turn(g) \/ ReadNone(g) \/ Reconnect(g)
                                  \/ Restart(g) \/ BeginStop(g)
      PROVE  Idle
  BY <1>5 DEF Turn, ReadNone, Reconnect, Restart, BeginStop, Idle
<1>6. CASE IdleElapses \/ UNCHANGED vars
  BY <1>6 DEF IdleElapses, Idle
<1>7. ASSUME NEW q \in Requests, NEW g \in Gateways, Promote(g, q) PROVE Promotes(q)
  BY <1>7 DEF Promote, Promotes
<1>8. QED
  BY NextCases, <1>0, <1>1, <1>2, <1>3, <1>4, <1>5, <1>6, <1>7 DEF Producer

LEMMA RunningNext ==
    ASSUME Undisturbed, CountInv, [Next]_vars
    PROVE  Running'
<1>0. TypeOK /\ Running /\ NoFailures
  BY DEF Undisturbed, CountInv, AnswerInv, PendingInv, DispatchInv
<1>1. CASE UNCHANGED <<loop, closing>>
  BY <1>0, <1>1 DEF Running
<1>2. ASSUME NEW g \in Gateways, NEW l, SetLoop(g, l), l \notin {"down", "exited"}, closing' = closing
      PROVE  Running'
  BY <1>0, <1>2 DEF SetLoop, Running, TypeOK
<1>3. ASSUME NEW g \in Gateways, Quit(g) \/ Crash(g) \/ Restart(g) PROVE FALSE
  BY <1>0, <1>3, NothingFails DEF Quit, Crash, Restart, Running
<1>4. ASSUME NEW g \in Gateways, BeginStop(g) PROVE FALSE
  BY <1>0, <1>4 DEF BeginStop, Spend, Undisturbed, TypeOK, Kinds
<1>5. ASSUME NEW g \in Gateways,
             \/ Turn(g) \/ ClaimPending(g) \/ Read(g) \/ ReadNone(g)
             \/ RecoverGroups(g) \/ Start(g)
      PROVE  Running'
  <2>1. closing' = closing /\ ~closing[g]
    BY <1>0, <1>5, ClaimEffect, RecoverEffect DEF Running, Turn, Read, Take, ReadNone, Start
  <2>2. \E l \in {"claimNormal", "claimBulk", "top", "normal", "bulk"} : SetLoop(g, l)
    BY <1>5, <2>1, ClaimEffect, RecoverEffect
    DEF Turn, NextTurn, Read, Take, ReadNone, Start, Priorities
  <2>3. QED BY <1>2, <2>1, <2>2
<1>6. ASSUME NEW j \in jobs, JobStep(j) PROVE Running'
  BY <1>0, <1>1, <1>6, FrameOfJob DEF JobFrame
<1>7. QED
  BY NextCases, <1>1, <1>3, <1>4, <1>5, <1>6
  DEF Reserve, GiveBack, XAdd, Promote, Reconnect, Wipe, IdleElapses

LEMMA TidyJob ==
    ASSUME StreamTidy, NEW j \in jobs,
           \/ Advances(j) \/ Parks(j) \/ Replies(j)
           \/ Acks(j) \/ Deletes(j) \/ Frees(j)
    PROVE  StreamTidy'
<1>1. \A i \in jobs : i = j \/ i \in jobs'
  BY DEF Advances, Parks, Replies, Acks, Deletes, Frees, Replaced, Move, Leave
<1>2. CASE Advances(j) \/ Parks(j) \/ Replies(j) \/ Frees(j)
  BY <1>1, <1>2 DEF Advances, Working, Parks, Replies, Frees, StreamTidy
<1>3. CASE Acks(j)
  <2>1. PICK k : Replaced(j, k) /\ k.pc = "del"
    BY <1>3 DEF Acks
  <2>2. k \in jobs' /\ k.entry = j.entry
    BY <2>1 DEF Replaced, Move
  <2>3. QED BY <1>1, <1>3, <2>1, <2>2 DEF Acks, StreamTidy
<1>4. CASE Deletes(j)
  BY <1>1, <1>4 DEF Deletes, StreamTidy
<1>5. QED BY <1>2, <1>3, <1>4

LEMMA CountNext == Undisturbed /\ Exclusive /\ CountInv /\ [Next]_vars => CountInv'
<1> SUFFICES ASSUME Undisturbed, Exclusive, CountInv, [Next]_vars PROVE CountInv'
  OBVIOUS
<1>0. /\ NoFailures /\ GroupsSurvive /\ TypeOK /\ DispatchInv /\ PendingInv /\ AnswerInv
      /\ Parking /\ StreamTidy
  BY DEF Undisturbed, CountInv, AnswerInv, PendingInv, DispatchInv
<1>1. AnswerInv' /\ InHand' /\ GroupsStand' /\ Running'
  BY <1>0, AnswerNext, InHandNext, GroupsNext, RunningNext DEF CountInv
<1>2. ASSUME NEW j \in jobs, JobStep(j)
      PROVE  StreamTidy' /\ (SameSlots \/ \E r : Loses(r))
  <2>1. /\ JobFrame(j)
        /\ \/ Advances(j) \/ Parks(j) \/ Replies(j)
           \/ Acks(j) \/ Deletes(j) \/ Frees(j)
    BY <1>0, <1>2, CalmJob, LinkedJob
  <2>2. QED BY <1>0, <2>1, TidyJob, SlotsOfJob
<1>3. ASSUME NEW q \in Requests, Producer(q)
      PROVE  StreamTidy' /\ (SameSlots \/ \E r : Gains(r) \/ Loses(r))
  <2>1. kept' = kept /\ jobs' = jobs
    BY <1>3 DEF Producer, Reserve, GiveBack, XAdd, AddEntry
  <2>2. QED BY <1>0, <1>3, <2>1, SlotsOfProducer DEF StreamTidy
<1>4. ASSUME NEW q \in Requests, Promotes(q) PROVE StreamTidy' /\ SameSlots
  BY <1>0, <1>4, SlotsOfPromotion DEF Promotes, AddEntry, StreamTidy
<1>5. ASSUME NEW g \in Gateways, NEW batch \in SUBSET fresh, HandsOut(g, batch)
      PROVE  StreamTidy' /\ SameSlots
  BY <1>0, <1>5, SlotsOfBatch DEF HandsOut, StreamTidy
<1>6. ASSUME Idle PROVE StreamTidy' /\ SameSlots
  <2>1. StreamTidy'
    BY <1>0, <1>6 DEF Idle, StreamTidy
  <2>2. QED BY <1>6, <2>1, SlotsOfIdle
<1>7. StreamTidy' /\ (SameSlots \/ \E r : Gains(r) \/ Loses(r))
  BY CountStep, <1>2, <1>3, <1>4, <1>5, <1>6
<1>8. QED BY <1>1, <1>7, CountMoves DEF CountInv

\* redis-stream-queue.js: INCR, the roll-back after QUEUE_FULL, the DECR after XDEL
\* and the slot a retry keeps.  Undisturbed but for denials the counter is exactly
\* the number of requests that hold a slot.
THEOREM DepthIsExact ==
    ASSUME Undisturbed, Exclusive
    PROVE  Spec => []DepthExact
<1>1. Init => CountInv
  BY CountInit
<1>2. CountInv /\ [Next]_vars => CountInv'
  BY CountNext
<1>3. CountInv => DepthExact
  BY DEF CountInv
<1>4. QED BY <1>1, <1>2, <1>3, PTL DEF Spec

\* README.md:473: maxQueueSize bounds the requests that are queued, running or
\* parked, however many reservations race for the last slot, and an acknowledged
\* entry stays in its stream only until its job's XDEL.
THEOREM QueueIsBounded ==
    ASSUME Undisturbed, Exclusive
    PROVE  Spec => []LiveBound
<1>1. Init => CountInv
  BY CountInit
<1>2. CountInv /\ [Next]_vars => CountInv'
  BY CountNext
<1>3. CountInv => LiveBound
  <2> SUFFICES ASSUME CountInv PROVE Cardinality(Live) <= MaxQueueSize
    BY DEF CountInv, LiveBound
  <2>1. Live \subseteq Admitted /\ Admitted \subseteq SlotHolders
    BY SlotsAre DEF Admitted, Reserving, InFlight
  <2>2. IsFiniteSet(Admitted)
    BY <2>1, FS_Subset DEF CountInv
  <2>3. /\ Cardinality(Live) <= Cardinality(Admitted)
        /\ Cardinality(Live) \in Nat /\ Cardinality(Admitted) \in Nat
    BY <2>1, <2>2, FS_Subset, FS_CardinalityType
  <2>4. MaxQueueSize \in Nat /\ Cardinality(Admitted) <= MaxQueueSize
    BY SizesAssumption DEF CountInv
  <2>5. QED BY <2>3, <2>4
<1>4. QED BY <1>1, <1>2, <1>3, PTL DEF Spec
=============================================================================
