------------------------- MODULE StreamQueueProofs -------------------------
(* Theorems about StreamQueue, for any number of requests and gateways,    *)
(* any queue size, and any number of crashes, faults and denials.          *)
EXTENDS StreamQueueProperties, TLAPS

USE DEF vars, stream, store, process

-----------------------------------------------------------------------------
(* Type correctness, action by action.                                     *)

\* The program and Redis start in states of the declared types.
LEMMA TypeInit == Init => TypeOK
BY RequestsAssumption, SizesAssumption, EnvironmentAssumption
DEF Init, TypeOK, NotScheduled, Priorities, InFlight, Outcomes, Kinds, LoopStates

\* A disturbance is counted in its own kind.
LEMMA SpendType ==
    ASSUME TypeOK, NEW k \in Kinds, Spend(k)
    PROVE  used' \in [Kinds -> Nat]
BY DEF TypeOK, Spend

\* A command's outcome touches only the link and the budget.
LEMMA OutcomeTypes ==
    ASSUME TypeOK, NEW g \in Gateways,
           Answered(g) \/ Refused(g) \/ ReplyLost(g)
    PROVE  /\ link' \in [Gateways -> BOOLEAN]
           /\ used' \in [Kinds -> Nat]
<1>1. link \in [Gateways -> BOOLEAN] /\ used \in [Kinds -> Nat]
  BY DEF TypeOK
<1>2. Spend("fault") => used' \in [Kinds -> Nat]
  BY SpendType DEF Kinds
<1>3. CASE Answered(g)
  BY <1>1, <1>3 DEF Answered
<1>4. CASE Refused(g)
  BY <1>1, <1>2, <1>4 DEF Refused
<1>5. CASE ReplyLost(g)
  BY <1>1, <1>2, <1>5 DEF ReplyLost
<1>6. QED BY <1>3, <1>4, <1>5

\* A new entry is an entry, numbered after all others.
LEMMA EntryTypes ==
    ASSUME TypeOK, NEW r \in Requests, NEW n \in Nat
    PROVE  /\ Entry(r, n) \in EntryType
           /\ Entry(r, n).id = lastId + 1
           /\ Entry(r, n).req = r
BY DEF TypeOK, Entry, EntryType

\* enqueue() keeps the types.
LEMMA TypeProducer ==
    ASSUME TypeOK, NEW r \in Requests, Producer(r)
    PROVE  TypeOK'
<1> DEFINE g == HomeOf[r]
<1>0. g \in Gateways
  BY RequestsAssumption
<1>1. CASE Reserve(r)
  <2>1. link' \in [Gateways -> BOOLEAN] /\ used' \in [Kinds -> Nat]
    BY <1>0, <1>1, OutcomeTypes DEF Reserve
  <2>2. /\ depth' \in {depth, depth + 1}
        /\ \E s \in {"rollback", "xadd", "rejected"} : SetProd(r, s)
    BY <1>1 DEF Reserve
  <2>3. UNCHANGED <<stream, retry, cached, process, jobs, results>>
    BY <1>1 DEF Reserve
  <2>4. depth' \in Int /\ prod' \in [Requests -> InFlight \cup {"new", "accepted", "rejected"}]
    BY <2>2 DEF TypeOK, SetProd, InFlight
  <2>5. QED BY <2>1, <2>3, <2>4 DEF TypeOK
<1>2. CASE GiveBack(r)
  <2>1. link' \in [Gateways -> BOOLEAN] /\ used' \in [Kinds -> Nat]
    BY <1>0, <1>2, OutcomeTypes DEF GiveBack, Executed
  <2>2. depth' \in Int /\ prod' \in [Requests -> InFlight \cup {"new", "accepted", "rejected"}]
    BY <1>2 DEF GiveBack, TypeOK, SetProd, InFlight
  <2>3. UNCHANGED <<stream, retry, cached, process, jobs, results>>
    BY <1>2 DEF GiveBack
  <2>4. QED BY <2>1, <2>2, <2>3 DEF TypeOK
<1>3. CASE XAdd(r)
  <2>1. link' \in [Gateways -> BOOLEAN] /\ used' \in [Kinds -> Nat]
    BY <1>0, <1>3, OutcomeTypes DEF XAdd
  <2>2. /\ fresh' \in SUBSET EntryType /\ lastId' \in Nat
        /\ UNCHANGED <<pel, stale, kept, group>>
    BY <1>3, EntryTypes DEF XAdd, AddEntry, TypeOK
  <2>3. prod' \in [Requests -> InFlight \cup {"new", "accepted", "rejected"}]
    BY <1>3 DEF XAdd, TypeOK, SetProd, InFlight
  <2>4. UNCHANGED <<store, process, jobs, results>>
    BY <1>3 DEF XAdd
  <2>5. QED BY <2>1, <2>2, <2>3, <2>4 DEF TypeOK
<1>4. QED BY <1>1, <1>2, <1>3 DEF Producer

\* A read hands out entries of the stream, or loses them.
LEMMA TypeTake ==
    ASSUME TypeOK, NEW g \in Gateways, NEW batch \in SUBSET EntryType, Take(g, batch)
    PROVE  /\ pel' = pel \cup batch
           /\ pel' \in SUBSET EntryType
           /\ loop' \in [Gateways -> LoopStates]
           /\ jobs' \in SUBSET JobType
           /\ \A j \in jobs' : j.pc \in {"replay", "finish"} => j.res \in Outcomes
           /\ used' \in [Kinds -> Nat]
           /\ UNCHANGED <<kept, lastId, group, store, closing, results, prod, link>>
<1>1. Spend("fault") => used' \in [Kinds -> Nat]
  BY SpendType DEF Kinds
<1>2. \A e \in batch : NewJob(g, e) \in JobType
  BY DEF NewJob, JobType, EntryType
<1>3. \A e \in batch : NewJob(g, e).pc \in {"cache", "limit"}
  BY DEF NewJob
<1>4. \A j \in jobs' : j \in jobs \/ \E e \in batch : j = NewJob(g, e)
  BY DEF Take
<1>5. /\ jobs' \in SUBSET JobType
      /\ \A j \in jobs' : j.pc \in {"replay", "finish"} => j.res \in Outcomes
  <2>1. \A j \in jobs' : j \in JobType
    BY <1>2, <1>4 DEF TypeOK
  <2>2. \A j \in jobs' : j.pc \in {"replay", "finish"} => j.res \in Outcomes
    BY <1>3, <1>4 DEF TypeOK
  <2>3. QED BY <2>1, <2>2
<1>6. QED BY <1>1, <1>5 DEF Take, SetLoop, TypeOK, LoopStates

\* XAUTOCLAIM starts jobs on entries of the pending list, or drops those in hand.
LEMMA ClaimEffect ==
    ASSUME NEW g \in Gateways, ClaimPending(g)
    PROVE  /\ UNCHANGED <<fresh, pel, kept, lastId, group, store, closing, results, prod, link>>
           /\ stale' \subseteq stale
           /\ \A k \in jobs' : k \in jobs \/ \E e \in stale : k = NewJob(g, e)
           /\ \E l \in {"top", "normal", "claimBulk"} : SetLoop(g, l)
           /\ used' = used \/ Spend("fault")
<1>1. PICK p \in Priorities :
        /\ stale' = stale \ Reclaimable(p)
        /\ \/ /\ jobs' = jobs \cup {NewJob(g, e) : e \in Reclaimable(p)}
              /\ SetLoop(g, AfterClaim(g, p, Reclaimable(p)))
              /\ UNCHANGED used
           \/ LosesHand(g) /\ SetLoop(g, "top") /\ Spend("fault")
  BY DEF ClaimPending
<1>2. Reclaimable(p) \subseteq stale
  BY DEF Reclaimable, Oldest, OfStream
<1>3. AfterClaim(g, p, Reclaimable(p)) \in {"top", "normal", "claimBulk"}
  BY DEF AfterClaim, Priorities
<1>4. \A k \in jobs' : k \in jobs \/ \E e \in stale : k = NewJob(g, e)
  BY <1>1, <1>2 DEF LosesHand
<1>5. \E l \in {"top", "normal", "claimBulk"} : SetLoop(g, l)
  BY <1>1, <1>3
<1>6. QED BY <1>1, <1>4, <1>5 DEF ClaimPending

\* The recovery of the groups gives up what is in hand and skips unread entries.
LEMMA RecoverEffect ==
    ASSUME NEW g \in Gateways, RecoverGroups(g)
    PROVE  /\ fresh' \subseteq fresh /\ kept' \subseteq kept \cup fresh
           /\ \A p \in Priorities : group[p] => group'[p]
           /\ (\A e \in fresh : group[PrioOf(e.req)]) => fresh' = fresh /\ kept' = kept
           /\ jobs' = jobs \ JobsOf(g)
           /\ SetLoop(g, "top")
           /\ UNCHANGED <<pel, stale, lastId, store, closing, results, prod, link, used>>
<1>1. CASE closing[g]
  BY <1>1 DEF RecoverGroups, LosesHand
<1>2. CASE ~closing[g]
  BY <1>2 DEF RecoverGroups, LosesHand, EnsureGroups, Unread
<1>3. QED BY <1>1, <1>2

\* _consumeLoop keeps the types.
LEMMA TypeLoop ==
    ASSUME TypeOK, NEW g \in Gateways, Loop(g)
    PROVE  TypeOK'
<1>1. CASE Turn(g)
  BY <1>1 DEF Turn, NextTurn, SetLoop, TypeOK, LoopStates, Claiming, Priorities
<1>2. CASE ClaimPending(g)
  <2>1. \A e \in stale : NewJob(g, e) \in JobType /\ NewJob(g, e).pc \in {"cache", "limit"}
    <3>1. \A e \in EntryType : NewJob(g, e) \in JobType
      BY DEF NewJob, JobType, EntryType
    <3>2. \A e : NewJob(g, e).pc \in {"cache", "limit"}
      BY DEF NewJob
    <3>3. QED BY <3>1, <3>2 DEF TypeOK
  <2>2. /\ jobs' \in SUBSET JobType
        /\ \A j \in jobs' : j.pc \in {"replay", "finish"} => j.res \in Outcomes
    <3>1. \A j \in jobs' : j \in JobType
      BY <1>2, <2>1, ClaimEffect DEF TypeOK
    <3>2. \A j \in jobs' : j.pc \in {"replay", "finish"} => j.res \in Outcomes
      BY <1>2, <2>1, ClaimEffect DEF TypeOK
    <3>3. QED BY <3>1, <3>2
  <2>3. loop' \in [Gateways -> LoopStates]
    <3>1. {"top", "normal", "claimBulk"} \subseteq LoopStates
      BY DEF LoopStates, Claiming, Priorities
    <3>2. QED BY <1>2, <3>1, ClaimEffect DEF SetLoop, TypeOK
  <2>4. used' \in [Kinds -> Nat]
    BY <1>2, ClaimEffect, SpendType DEF Kinds, TypeOK
  <2>5. QED BY <1>2, <2>2, <2>3, <2>4, ClaimEffect DEF TypeOK
<1>4. CASE Read(g)
  <2>1. PICK p \in Priorities :
          LET batch == Oldest(OfStream(fresh, p), BatchSize)
          IN  Take(g, batch) /\ fresh' = fresh \ batch /\ UNCHANGED stale
    BY <1>4 DEF Read
  <2> DEFINE batch == Oldest(OfStream(fresh, p), BatchSize)
  <2>2. batch \in SUBSET EntryType
    BY DEF Oldest, OfStream, TypeOK
  <2>3. QED BY <2>1, <2>2, TypeTake DEF TypeOK
<1>5. CASE ReadNone(g)
  BY <1>5 DEF ReadNone, SetLoop, TypeOK, Priorities, LoopStates
<1>6. CASE RecoverGroups(g)
  <2>1. group' \in [Priorities -> BOOLEAN]
    BY <1>6 DEF RecoverGroups, EnsureGroups, TypeOK
  <2>2. loop' \in [Gateways -> LoopStates]
    BY <1>6, RecoverEffect DEF SetLoop, TypeOK, LoopStates
  <2>3. QED BY <1>6, <2>1, <2>2, RecoverEffect DEF TypeOK
<1>7. QED BY <1>1, <1>2, <1>4, <1>5, <1>6 DEF Loop

\* A job moves on to a job, with an entry of a request it can name.
LEMMA JobFields ==
    ASSUME TypeOK, NEW j \in jobs
    PROVE  /\ j \in JobType
           /\ j.gw \in Gateways
           /\ j.entry \in EntryType
           /\ j.entry.req \in Requests
           /\ j.attempts \in Nat
           /\ j.res \in Outcomes \cup {"none", "deferred"}
           /\ j.pc \in {"replay", "finish"} => j.res \in Outcomes
BY DEF TypeOK, JobType, EntryType

LEMMA MoveTypes ==
    ASSUME TypeOK, NEW j \in jobs, NEW k \in JobType, Move(j, k) \/ Leave(j),
           k.pc \in {"replay", "finish"} => k.res \in Outcomes
    PROVE  /\ jobs' \in SUBSET JobType
           /\ \A i \in jobs' : i.pc \in {"replay", "finish"} => i.res \in Outcomes
BY DEF TypeOK, Move, Leave

Pcs == {"cache", "limit", "call", "defer", "replay", "finish", "ack", "del", "decr"}

LEMMA StepTypes ==
    ASSUME NEW j \in JobType, NEW pc \in Pcs, NEW res \in Outcomes \cup {"none", "deferred"}
    PROVE  /\ At(j, pc) \in JobType
           /\ Having(j, pc, res) \in JobType
           /\ At(j, pc).entry = j.entry /\ At(j, pc).pc = pc
           /\ At(j, pc).attempts = j.attempts /\ At(j, pc).res = j.res
           /\ Having(j, pc, res).entry = j.entry /\ Having(j, pc, res).pc = pc
           /\ Having(j, pc, res).attempts = j.attempts /\ Having(j, pc, res).res = res
BY DEF At, Having, JobType, Pcs

\* Reporting appends one outcome.
LEMMA ReportType ==
    ASSUME TypeOK, NEW j \in jobs, j.res \in Outcomes, Report(j)
    PROVE  results' \in [Requests -> Seq(Outcomes)]
BY JobFields DEF TypeOK, Report

\* What the steps of a job have in common: the job moves on or leaves, and of
\* the rest of the state each step touches only what is listed here.
JobFrame(j) ==
    /\ \/ Leave(j)
       \/ \E pc \in Pcs, res \in Outcomes \cup {"none", "deferred"} :
             /\ Move(j, Having(j, pc, res))
             /\ pc \in {"replay", "finish"} => res \in Outcomes
       \/ Move(j, [At(j, "call") EXCEPT !.attempts = @ + 1])
    /\ UNCHANGED <<fresh, lastId, group, process, prod>>
    /\ pel' \subseteq pel /\ stale' \subseteq stale \cap pel'
    /\ kept' \subseteq kept \cup pel
    /\ depth' \in {depth, depth - 1}
    /\ retry' = retry \/ Park(j)
    /\ results' = results \/ (j.pc \in {"replay", "finish"} /\ Report(j))
    /\ cached' = cached \/ (j.pc = "finish" /\ cached' = [cached EXCEPT ![j.entry.req] = j.res])

LEMMA AtHaving ==
    ASSUME NEW j \in JobType, NEW pc
    PROVE  At(j, pc) = Having(j, pc, j.res)
BY DEF At, Having, JobType

LEMMA FrameOfJob ==
    ASSUME TypeOK, NEW j \in jobs, JobStep(j)
    PROVE  JobFrame(j)
<1>0. j \in JobType /\ j.res \in Outcomes \cup {"none", "deferred"}
  BY JobFields
<1>1. CASE CheckCache(j)
  <2>1. cached[j.entry.req] # "none" => cached[j.entry.req] \in Outcomes
    BY JobFields DEF TypeOK
  <2>2. QED BY <1>0, <1>1, <2>1, AtHaving DEF CheckCache, JobFrame, Pcs, TypeOK
<1>2. CASE CheckLimit(j)
  BY <1>0, <1>2, AtHaving DEF CheckLimit, JobFrame, Pcs, TypeOK, Outcomes
<1>3. CASE Execute(j)
  BY <1>0, <1>3, AtHaving DEF Execute, JobFrame, Pcs, TypeOK, Outcomes
<1>4. CASE Defer(j)
  BY <1>0, <1>4, AtHaving DEF Defer, JobFrame, Pcs, TypeOK, Outcomes
<1>5. CASE Replay(j)
  BY <1>0, <1>5, AtHaving DEF Replay, Delivered, DeliveryFailed, JobFrame, Pcs, TypeOK
<1>6. CASE Finish(j)
  BY <1>0, <1>6, AtHaving DEF Finish, Delivered, DeliveryFailed, Undelivered, StoreResult,
     JobFrame, Pcs, TypeOK, Outcomes
<1>7. CASE Ack(j)
  BY <1>0, <1>7, AtHaving DEF Ack, Settle, JobFrame, Pcs, TypeOK
<1>8. CASE Del(j)
  BY <1>0, <1>8, AtHaving DEF Del, Delete, JobFrame, Pcs, TypeOK
<1>9. CASE Decr(j)
  BY <1>0, <1>9, AtHaving DEF Decr, JobFrame, Pcs, TypeOK
<1>10. QED
  BY <1>1, <1>2, <1>3, <1>4, <1>5, <1>6, <1>7, <1>8, <1>9 DEF JobStep

\* Running and dispatching an item keeps the types.
LEMMA TypeJob ==
    ASSUME TypeOK, NEW j \in jobs, JobStep(j)
    PROVE  TypeOK'
<1>1. JobFrame(j)
  BY FrameOfJob
<1>2. /\ jobs' \in SUBSET JobType
      /\ \A i \in jobs' : i.pc \in {"replay", "finish"} => i.res \in Outcomes
  <2>1. j \in JobType /\ j.attempts \in Nat
    BY JobFields
  <2>2. CASE Leave(j)
    BY <2>2 DEF Leave, TypeOK
  <2>3. CASE Move(j, [At(j, "call") EXCEPT !.attempts = @ + 1])
    <3> DEFINE k == [At(j, "call") EXCEPT !.attempts = @ + 1]
    <3>1. At(j, "call") \in JobType /\ At(j, "call").pc = "call"
      BY <2>1, StepTypes DEF Pcs
    <3>2. At(j, "call").attempts + 1 \in Nat
      BY <3>1 DEF JobType
    <3>3. k \in JobType /\ k.pc = "call"
      BY <3>1, <3>2 DEF JobType
    <3>4. QED BY <2>3, <3>3 DEF Move, TypeOK
  <2>4. ASSUME NEW pc \in Pcs, NEW res \in Outcomes \cup {"none", "deferred"},
               Move(j, Having(j, pc, res)), pc \in {"replay", "finish"} => res \in Outcomes
        PROVE  <1>2!1 /\ <1>2!2
    BY <2>1, <2>4, StepTypes, MoveTypes
  <2>5. QED BY <1>1, <2>2, <2>3, <2>4 DEF JobFrame
<1>3. results' \in [Requests -> Seq(Outcomes)]
  BY <1>1, JobFields, ReportType DEF JobFrame, TypeOK
<1>4. link' \in [Gateways -> BOOLEAN] /\ used' \in [Kinds -> Nat]
  <2>1. j.gw \in Gateways
    BY JobFields
  <2>2. \/ Answered(j.gw) \/ Refused(j.gw) \/ ReplyLost(j.gw)
        \/ UNCHANGED link /\ (UNCHANGED used \/ Spend("denial"))
    BY DEF JobStep, CheckCache, CheckLimit, Execute, Defer, Replay, Finish, Delivered,
       DeliveryFailed, Ack, Del, Decr, Executed, Failed
  <2>3. Spend("denial") => used' \in [Kinds -> Nat]
    BY SpendType DEF Kinds
  <2>4. QED BY <2>1, <2>2, <2>3, OutcomeTypes DEF TypeOK
<1>5. /\ retry' \in [Requests -> Nat \cup {NotScheduled}]
      /\ cached' \in [Requests -> Outcomes \cup {"none"}]
      /\ depth' \in Int
  <2>1. /\ j.entry.req \in Requests /\ j.attempts \in Nat
        /\ (j.pc = "finish" => j.res \in Outcomes)
    BY JobFields
  <2>2. retry' \in [Requests -> Nat \cup {NotScheduled}]
    BY <1>1, <2>1 DEF JobFrame, Park, TypeOK
  <2>3. cached' \in [Requests -> Outcomes \cup {"none"}]
    BY <1>1, <2>1 DEF JobFrame, TypeOK
  <2>4. QED BY <1>1, <2>1, <2>2, <2>3 DEF JobFrame, TypeOK
<1>6. QED BY <1>1, <1>2, <1>3, <1>4, <1>5 DEF JobFrame, TypeOK

\* Promotion, idle time and the life of a process keep the types.
LEMMA TypePromotion ==
    ASSUME TypeOK, NEW r \in Requests, Promotion(r)
    PROVE  TypeOK'
<1>1. PICK g \in Gateways : Promote(g, r)
  BY DEF Promotion
<1>2. retry[r] \in Nat
  BY <1>1 DEF Promote, TypeOK
<1>3. link' \in [Gateways -> BOOLEAN] /\ used' \in [Kinds -> Nat]
  BY <1>1, OutcomeTypes DEF Promote, Executed
<1>4. /\ fresh' \in SUBSET EntryType /\ lastId' \in Nat
      /\ UNCHANGED <<pel, stale, kept, group>>
  BY <1>1, <1>2, EntryTypes DEF Promote, AddEntry, TypeOK
<1>5. retry' \in [Requests -> Nat \cup {NotScheduled}]
  BY <1>1 DEF Promote, Unpark, TypeOK
<1>6. QED BY <1>1, <1>3, <1>4, <1>5 DEF Promote, TypeOK

LEMMA TypeRecovery ==
    ASSUME TypeOK, NEW g \in Gateways, Recovery(g) \/ Crash(g) \/ BeginStop(g)
    PROVE  TypeOK'
<1>1. CASE Reconnect(g)
  BY <1>1 DEF Reconnect, TypeOK
<1>2. CASE Restart(g)
  BY <1>2 DEF Restart, SetLoop, TypeOK, LoopStates
<1>3. CASE Start(g)
  <2>1. fresh' \subseteq fresh /\ kept' \subseteq kept \cup fresh /\ UNCHANGED <<pel, lastId>>
    BY <1>3 DEF Start, EnsureGroups, Unread
  <2>2. group' \in [Priorities -> BOOLEAN] /\ loop' \in [Gateways -> LoopStates]
    BY <1>3 DEF Start, EnsureGroups, SetLoop, TypeOK, LoopStates
  <2>3. QED BY <1>3, <2>1, <2>2 DEF Start, TypeOK
<1>4. ASSUME Vanish(g)
      PROVE  /\ loop' \in [Gateways -> LoopStates]
             /\ link' \in [Gateways -> BOOLEAN]
             /\ jobs' \subseteq jobs
             /\ prod' \in [Requests -> InFlight \cup {"new", "accepted", "rejected"}]
  BY <1>4 DEF Vanish, SetLoop, JobsOf, TypeOK, LoopStates
<1>5. CASE Quit(g)
  BY <1>4, <1>5 DEF Quit, TypeOK
<1>6. CASE Crash(g)
  <2>1. used' \in [Kinds -> Nat]
    BY <1>6, SpendType DEF Crash, Kinds
  <2>2. QED BY <1>4, <1>6, <2>1 DEF Crash, TypeOK
<1>7. CASE BeginStop(g)
  <2>1. used' \in [Kinds -> Nat]
    BY <1>7, SpendType DEF BeginStop, Kinds
  <2>2. QED BY <1>7, <2>1 DEF BeginStop, TypeOK
<1>8. QED BY <1>1, <1>2, <1>3, <1>5, <1>6, <1>7 DEF Recovery

LEMMA TypeWipe ==
    ASSUME TypeOK, NEW p \in Priorities, Wipe(p)
    PROVE  TypeOK'
<1>1. used' \in [Kinds -> Nat]
  BY SpendType DEF Wipe, Kinds
<1>2. QED BY <1>1 DEF Wipe, OfStream, TypeOK

\* Every step keeps the types.
LEMMA TypeNext == TypeOK /\ [Next]_vars => TypeOK'
<1> SUFFICES ASSUME TypeOK, [Next]_vars PROVE TypeOK'
  OBVIOUS
<1>1. CASE IdleElapses
  BY <1>1 DEF IdleElapses, TypeOK
<1>2. CASE UNCHANGED vars
  BY <1>2 DEF TypeOK
<1>3. CASE \E g \in Gateways : Jobs(g)
  BY <1>3, TypeJob DEF Jobs, JobsOf
<1>4. QED
  BY <1>1, <1>2, <1>3, TypeProducer, TypePromotion, TypeLoop, TypeRecovery, TypeWipe
  DEF Next, Disturbance

\* Every variable of the model stays in its range in every behaviour.
THEOREM TypeCorrect == Spec => []TypeOK
BY TypeInit, TypeNext, PTL DEF Spec

-----------------------------------------------------------------------------
(* The cases of Next, once for all the invariants below.                   *)

LEMMA NextCases ==
    ASSUME [Next]_vars
    PROVE  \/ \E r \in Requests : Reserve(r) \/ GiveBack(r) \/ XAdd(r)
           \/ \E r \in Requests, g \in Gateways : Promote(g, r)
           \/ \E g \in Gateways : \/ Turn(g) \/ ClaimPending(g) \/ Read(g)
                                  \/ ReadNone(g) \/ RecoverGroups(g)
           \/ \E j \in jobs : JobStep(j)
           \/ \E g \in Gateways : Reconnect(g) \/ Restart(g) \/ Start(g) \/ Quit(g)
                                  \/ Crash(g) \/ BeginStop(g)
           \/ \E p \in Priorities : Wipe(p)
           \/ IdleElapses
           \/ UNCHANGED vars
BY DEF Next, Producer, Promotion, Loop, Jobs, JobsOf, Recovery, Disturbance

\* Where the entries of the next state come from: Unacked and the jobs keep
\* what they had or gain the entry just added, and jobs start on entries.
Entries == Unacked \cup {j.entry : j \in jobs}
EntriesStep ==
    \/ lastId' = lastId /\ Entries' \subseteq Entries
    \/ /\ lastId' = lastId + 1
       /\ \E e : e.id = lastId' /\ Entries' \subseteq Entries \cup {e}

LEMMA JobKeepsEntry ==
    ASSUME TypeOK, NEW j \in jobs, JobFrame(j), NEW k \in jobs'
    PROVE  k \in jobs \/ k.entry = j.entry
<1>1. j \in JobType
  BY JobFields
<1>2. [At(j, "call") EXCEPT !.attempts = @ + 1].entry = j.entry
  BY <1>1 DEF At, JobType
<1>3. \A pc, res : Having(j, pc, res).entry = j.entry
  BY <1>1 DEF Having, JobType
<1>4. \/ Leave(j)
      \/ \E pc, res : Move(j, Having(j, pc, res))
      \/ Move(j, [At(j, "call") EXCEPT !.attempts = @ + 1])
  BY DEF JobFrame
<1>5. CASE Leave(j)
  BY <1>5 DEF Leave
<1>6. CASE \E pc, res : Move(j, Having(j, pc, res))
  BY <1>3, <1>6 DEF Move
<1>7. CASE Move(j, [At(j, "call") EXCEPT !.attempts = @ + 1])
  BY <1>2, <1>7 DEF Move
<1>8. QED BY <1>4, <1>5, <1>6, <1>7

LEMMA EntriesNext == TypeOK /\ [Next]_vars => EntriesStep
<1> SUFFICES ASSUME TypeOK, [Next]_vars PROVE EntriesStep
  OBVIOUS
<1>1. ASSUME NEW r \in Requests, Reserve(r) \/ GiveBack(r) PROVE EntriesStep
  BY <1>1 DEF Reserve, GiveBack, EntriesStep, Entries, Unacked
<1>2. ASSUME NEW r \in Requests, XAdd(r) PROVE EntriesStep
  <2>1. CASE AddEntry(Entry(r, 0))
    <3>1. Entry(r, 0).id = lastId + 1
      BY DEF Entry
    <3>2. UNCHANGED jobs
      BY <1>2 DEF XAdd
    <3>3. QED BY <2>1, <3>1, <3>2 DEF AddEntry, EntriesStep, Entries, Unacked
  <2>2. CASE UNCHANGED stream
    BY <1>2, <2>2 DEF XAdd, EntriesStep, Entries, Unacked
  <2>3. QED BY <1>2, <2>1, <2>2 DEF XAdd
<1>3. ASSUME NEW r \in Requests, NEW g \in Gateways, Promote(g, r) PROVE EntriesStep
  <2>1. Entry(r, retry[r]).id = lastId + 1
    BY DEF Entry
  <2>2. QED BY <1>3, <2>1 DEF Promote, AddEntry, EntriesStep, Entries, Unacked
<1>4. ASSUME NEW g \in Gateways, NEW batch, batch \subseteq Unacked, Take(g, batch), fresh' \subseteq fresh
      PROVE  EntriesStep
  <2>1. \A e \in batch : NewJob(g, e).entry = e
    BY DEF NewJob
  <2>2. \A k \in jobs' : k.entry \in Entries
    BY <1>4, <2>1 DEF Take, Entries
  <2>3. QED BY <1>4, <2>2 DEF Take, EntriesStep, Entries, Unacked
<1>5. ASSUME NEW g \in Gateways, ClaimPending(g) PROVE EntriesStep
  <2>1. \A e \in stale : NewJob(g, e).entry = e /\ e \in Unacked
    BY DEF NewJob, TypeOK, Unacked
  <2>2. \A k \in jobs' : k.entry \in Entries
    BY <1>5, <2>1, ClaimEffect DEF Entries
  <2>3. QED BY <1>5, <2>2, ClaimEffect DEF EntriesStep, Entries, Unacked
<1>6. ASSUME NEW g \in Gateways, Read(g) PROVE EntriesStep
  <2>1. PICK p \in Priorities :
          LET batch == Oldest(OfStream(fresh, p), BatchSize)
          IN  Take(g, batch) /\ fresh' = fresh \ batch
    BY <1>6 DEF Read
  <2>2. Oldest(OfStream(fresh, p), BatchSize) \subseteq Unacked
    BY DEF Oldest, OfStream, Unacked
  <2>3. QED BY <1>4, <2>1, <2>2
<1>7. ASSUME NEW g \in Gateways, RecoverGroups(g) \/ Start(g) PROVE EntriesStep
  <2>1. CASE RecoverGroups(g)
    BY <2>1, RecoverEffect DEF EntriesStep, Entries, Unacked
  <2>2. CASE Start(g)
    BY <2>2 DEF Start, EnsureGroups, Unread, EntriesStep, Entries, Unacked
  <2>3. QED BY <1>7, <2>1, <2>2
<1>8. ASSUME NEW g \in Gateways, Turn(g) \/ ReadNone(g) \/ Reconnect(g)
                                  \/ Restart(g) \/ BeginStop(g)
      PROVE  EntriesStep
  BY <1>8 DEF Turn, ReadNone, Reconnect, Restart, BeginStop, EntriesStep,
     Entries, Unacked
<1>9. ASSUME NEW g \in Gateways, Quit(g) \/ Crash(g) PROVE EntriesStep
  BY <1>9 DEF Quit, Crash, Vanish, EntriesStep, Entries, Unacked
<1>10. ASSUME NEW j \in jobs, JobStep(j) PROVE EntriesStep
  <2>1. JobFrame(j)
    BY <1>10, FrameOfJob
  <2>2. \A k \in jobs' : k.entry \in Entries
    BY <2>1, JobKeepsEntry DEF Entries
  <2>3. lastId' = lastId /\ Unacked' \subseteq Unacked
    BY <2>1 DEF JobFrame, Unacked
  <2>4. QED BY <2>2, <2>3 DEF EntriesStep, Entries
<1>11. ASSUME NEW p \in Priorities, Wipe(p) PROVE EntriesStep
  BY <1>11 DEF Wipe, EntriesStep, Entries, Unacked
<1>12. CASE IdleElapses
  BY <1>12 DEF IdleElapses, EntriesStep, Entries, Unacked
<1>13. CASE UNCHANGED vars
  BY <1>13 DEF EntriesStep, Entries, Unacked
<1>14. QED
  BY NextCases, <1>1, <1>2, <1>3, <1>5, <1>6, <1>7, <1>8, <1>9, <1>10, <1>11, <1>12, <1>13

-----------------------------------------------------------------------------
(* No accepted request is lost, whatever crashes, faults and stops happen, *)
(* as long as the consumer groups are not.                                 *)

GroupsSurvive == ~FirstBoot /\ Limit["wipe"] = 0

\* The inductive invariant.  Ids in use do not exceed lastId, so a promoted
\* entry is none that a job has handed over; a job that is about to XACK has
\* either parked its request or reported on it; and the groups stand.
Numbered == \A e \in Entries : e.id <= lastId
AckedReported ==
    \A j \in jobs : j.pc = "ack" /\ ~KeepsSlot(j) => Reported(j.entry.req)
GroupsStand == \A p \in Priorities : group[p]
LossInv == TypeOK /\ Numbered /\ AckedReported /\ GroupsStand /\ NoAcceptedLoss

LEMMA LossInit == GroupsSurvive /\ Init => LossInv
BY TypeInit DEF GroupsSurvive, Init, LossInv, Numbered, Entries, Unacked, AckedReported,
   GroupsStand, NoAcceptedLoss

LEMMA NumberedNext == TypeOK /\ Numbered /\ [Next]_vars => Numbered'
<1> SUFFICES ASSUME TypeOK, Numbered, [Next]_vars, NEW e \in Entries' PROVE e.id <= lastId'
  BY DEF Numbered
<1>1. EntriesStep
  BY EntriesNext
<1>2. \A f \in Entries : f.id \in Nat /\ f.id <= lastId
  BY JobFields DEF Entries, Unacked, TypeOK, EntryType, Numbered
<1>3. QED BY <1>1, <1>2 DEF EntriesStep, TypeOK

LEMMA GroupsNext == GroupsSurvive /\ TypeOK /\ GroupsStand /\ [Next]_vars => GroupsStand'
<1> SUFFICES ASSUME GroupsSurvive, TypeOK, GroupsStand, [Next]_vars PROVE GroupsStand'
  OBVIOUS
<1>1. ASSUME NEW p \in Priorities, Wipe(p) PROVE FALSE
  BY <1>1 DEF Wipe, Spend, GroupsSurvive, TypeOK, Kinds
<1>2. ASSUME NEW j \in jobs, JobStep(j) PROVE GroupsStand'
  BY <1>2, FrameOfJob DEF JobFrame, GroupsStand
<1>3. ASSUME NEW g \in Gateways, RecoverGroups(g) \/ Start(g) PROVE GroupsStand'
  BY <1>3, RecoverEffect DEF Start, EnsureGroups, GroupsStand
<1>4. CASE UNCHANGED group
  BY <1>4 DEF GroupsStand
<1>5. QED
  BY NextCases, <1>1, <1>2, <1>3, <1>4
  DEF Reserve, GiveBack, XAdd, AddEntry, Promote, Turn, ClaimPending, Read, Take,
      ReadNone, Reconnect, Restart, Quit, Crash, BeginStop, IdleElapses

LEMMA AppendNonEmpty ==
    ASSUME NEW S, NEW s \in Seq(S), NEW x \in S
    PROVE  Append(s, x) # <<>>
<1>1. Len(Append(s, x)) = Len(s) + 1 /\ Len(s) \in Nat
  OBVIOUS
<1>2. QED BY <1>1

\* Responses are never taken back.
LEMMA ReportsStay ==
    ASSUME TypeOK, [Next]_vars, NEW r \in Requests, Reported(r)
    PROVE  Reported(r)'
<1>1. ASSUME NEW j \in jobs, JobStep(j) PROVE Reported(r)'
  <2>1. CASE UNCHANGED results
    BY <2>1 DEF Reported
  <2>2. CASE Report(j) /\ j.res \in Outcomes
    <3>1. Append(results[r], j.res) # <<>>
      <4>1. results[r] \in Seq(Outcomes) /\ j.res \in Outcomes
        BY <2>2 DEF TypeOK
      <4>2. QED BY <4>1, AppendNonEmpty
    <3>2. results'[r] = results[r] \/ results'[r] = Append(results[r], j.res)
      BY <2>2 DEF Report, TypeOK
    <3>3. QED BY <3>1, <3>2 DEF Reported
  <2>3. QED BY <1>1, <2>1, <2>2, FrameOfJob, JobFields DEF JobFrame
<1>2. CASE UNCHANGED results
  BY <1>2 DEF Reported
<1>3. QED
  BY NextCases, <1>1, <1>2
  DEF Reserve, GiveBack, XAdd, Promote, Turn, ClaimPending, Read, Take,
      ReadNone, RecoverGroups, Reconnect, Restart, Start, Quit, Crash, BeginStop, Wipe,
      IdleElapses

\* A job that reports leaves its request reported.
LEMMA ReportReports ==
    ASSUME TypeOK, NEW j \in jobs, j.res \in Outcomes, Report(j)
    PROVE  Reported(j.entry.req)'
<1>1. /\ results[j.entry.req] \in Seq(Outcomes)
      /\ results'[j.entry.req] = Append(results[j.entry.req], j.res)
  BY JobFields DEF TypeOK, Report
<1>2. QED BY <1>1, AppendNonEmpty DEF Reported

\* The only ways into "ack" are a parked request and a report.
LEMMA AckEntry ==
    ASSUME TypeOK, NEW j \in jobs, JobStep(j), NEW k \in jobs', k \notin jobs,
           k.pc = "ack", ~KeepsSlot(k)
    PROVE  Reported(k.entry.req)'
<1>0. j \in JobType /\ (j.pc \in {"replay", "finish"} => j.res \in Outcomes)
  BY JobFields
<1>1. \A pc, res : /\ At(j, pc).pc = pc /\ At(j, pc).entry = j.entry
                   /\ Having(j, pc, res).pc = pc /\ Having(j, pc, res).res = res
  BY <1>0 DEF At, Having, JobType
<1>2. [At(j, "call") EXCEPT !.attempts = @ + 1].pc = "call"
  BY <1>0 DEF At, JobType
<1>3. CASE CheckCache(j)
  BY <1>1, <1>3 DEF CheckCache, Move, Leave
<1>4. CASE CheckLimit(j)
  <2>1. \/ Move(j, [At(j, "call") EXCEPT !.attempts = @ + 1])
        \/ Move(j, At(j, "defer"))
        \/ Move(j, Having(j, "finish", "err"))
    BY <1>4 DEF CheckLimit
  <2>2. CASE Move(j, [At(j, "call") EXCEPT !.attempts = @ + 1])
    BY <1>2, <2>2 DEF Move
  <2>3. CASE Move(j, At(j, "defer")) \/ Move(j, Having(j, "finish", "err"))
    BY <1>1, <2>3 DEF Move
  <2>4. QED BY <2>1, <2>2, <2>3
<1>5. CASE Execute(j)
  BY <1>1, <1>5 DEF Execute, Move
<1>6. CASE Defer(j)
  BY <1>1, <1>6 DEF Defer, Move, KeepsSlot
<1>7. CASE Replay(j) \/ Finish(j)
  <2>1. j.pc \in {"replay", "finish"}
    BY <1>7 DEF Replay, Finish
  <2>2. CASE Delivered(j) /\ Move(j, At(j, "ack"))
    <3>1. k.entry = j.entry
      BY <1>1, <2>2 DEF Move
    <3>2. Reported(j.entry.req)'
      BY <1>0, <2>1, <2>2, ReportReports DEF Delivered
    <3>3. QED BY <3>1, <3>2
  <2>3. CASE Leave(j) \/ Move(j, Having(j, "finish", "err"))
    BY <1>1, <2>3 DEF Leave, Move
  <2>4. QED BY <1>7, <2>2, <2>3 DEF Replay, Finish, Undelivered
<1>8. CASE Ack(j) \/ Del(j) \/ Decr(j)
  BY <1>1, <1>8 DEF Ack, Del, Decr, Move, Leave
<1>9. QED BY <1>3, <1>4, <1>5, <1>6, <1>7, <1>8 DEF JobStep

\* Jobs that are new after a step which is not a job's start with the cache
\* or the limiter.
LEMMA OtherJobs ==
    ASSUME [Next]_vars, NEW k \in jobs', k \notin jobs,
           \A j \in jobs : ~JobStep(j)
    PROVE  k.pc \in {"cache", "limit"}
<1>1. ASSUME NEW g, NEW batch, Take(g, batch) PROVE k.pc \in {"cache", "limit"}
  BY <1>1 DEF Take, NewJob
<1>2. ASSUME NEW g \in Gateways, ClaimPending(g) PROVE k.pc \in {"cache", "limit"}
  BY <1>2, ClaimEffect DEF NewJob
<1>3. ASSUME NEW g \in Gateways, RecoverGroups(g) PROVE FALSE
  BY <1>3, RecoverEffect
<1>4. QED
  BY NextCases, <1>1, <1>2, <1>3
  DEF Reserve, GiveBack, XAdd, Promote, Turn, Read, ReadNone, Reconnect, Restart, Start, Quit, Crash, Vanish, JobsOf,
      BeginStop, Wipe, IdleElapses

LEMMA AckedNext == TypeOK /\ AckedReported /\ [Next]_vars => AckedReported'
<1> SUFFICES ASSUME TypeOK, AckedReported, [Next]_vars,
                    NEW k \in jobs', k.pc = "ack", ~KeepsSlot(k)
             PROVE  Reported(k.entry.req)'
  BY DEF AckedReported, KeepsSlot
<1>1. CASE k \in jobs
  BY <1>1, JobFields, ReportsStay DEF AckedReported
<1>2. CASE k \notin jobs
  BY <1>2, AckEntry, OtherJobs
<1>3. QED BY <1>1, <1>2

\* A job hands its entry over only by parking the request.
LEMMA HandOver ==
    ASSUME TypeOK, NEW j \in jobs, JobStep(j), NEW k \in jobs', k \notin jobs,
           k.pc = "ack", KeepsSlot(k)
    PROVE  k.entry = j.entry /\ Park(j) /\ UNCHANGED stream
<1>0. j \in JobType /\ (j.pc \in {"replay", "finish"} => j.res \in Outcomes)
  BY JobFields
<1>1. \A pc, res : /\ At(j, pc).pc = pc /\ At(j, pc).entry = j.entry /\ At(j, pc).res = j.res
                   /\ Having(j, pc, res).pc = pc /\ Having(j, pc, res).res = res
                   /\ Having(j, pc, res).entry = j.entry
  BY <1>0 DEF At, Having, JobType
<1>2. [At(j, "call") EXCEPT !.attempts = @ + 1].pc = "call"
  BY <1>0 DEF At, JobType
<1>3. CASE CheckCache(j)
  BY <1>1, <1>3 DEF CheckCache, Move, Leave
<1>4. CASE CheckLimit(j)
  <2>1. \/ Move(j, [At(j, "call") EXCEPT !.attempts = @ + 1])
        \/ Move(j, At(j, "defer"))
        \/ Move(j, Having(j, "finish", "err"))
    BY <1>4 DEF CheckLimit
  <2>2. CASE Move(j, [At(j, "call") EXCEPT !.attempts = @ + 1])
    BY <1>2, <2>2 DEF Move
  <2>3. CASE Move(j, At(j, "defer")) \/ Move(j, Having(j, "finish", "err"))
    BY <1>1, <2>3 DEF Move
  <2>4. QED BY <2>1, <2>2, <2>3
<1>5. CASE Execute(j)
  BY <1>1, <1>5 DEF Execute, Move
<1>6. CASE Defer(j)
  BY <1>1, <1>6 DEF Defer, Move
<1>7. CASE Replay(j) \/ Finish(j)
  <2>1. j.res # "deferred"
    BY <1>0, <1>7 DEF Replay, Finish, Outcomes
  <2>2. Move(j, At(j, "ack")) \/ Leave(j) \/ Move(j, Having(j, "finish", "err"))
    BY <1>7 DEF Replay, Finish, Undelivered
  <2>3. QED BY <1>1, <2>1, <2>2 DEF Move, Leave, KeepsSlot
<1>8. CASE Ack(j) \/ Del(j) \/ Decr(j)
  BY <1>1, <1>8 DEF Ack, Del, Decr, Move, Leave
<1>9. QED BY <1>3, <1>4, <1>5, <1>6, <1>7, <1>8 DEF JobStep

\* A request that can run again can still do so after the step, or has been
\* answered.
LEMMA LiveStays ==
    ASSUME LossInv, [Next]_vars, GroupsSurvive, NEW r \in Requests, r \in Live
    PROVE  r \in Live' \/ Reported(r)'
<1> USE DEF LossInv
<1>1. CASE \E q \in Requests : Reserve(q) \/ GiveBack(q)
  BY <1>1 DEF Reserve, GiveBack, Live, Unacked, Handed, Scheduled
<1>2. CASE \E q \in Requests : XAdd(q)
  BY <1>2 DEF XAdd, AddEntry, Live, Unacked, Handed, Scheduled
<1>3. ASSUME NEW q \in Requests, NEW g \in Gateways, Promote(g, q)
      PROVE  r \in Live'
  <2> DEFINE e == Entry(q, retry[q])
  <2>1. e.id = lastId + 1 /\ e.req = q
    BY DEF Entry
  <2>2. fresh' = fresh \cup {e} /\ pel' = pel /\ Handed' = Handed
    BY <1>3 DEF Promote, AddEntry, Handed
  <2>3. e \notin Handed
    <3>1. \A f \in Handed : f \in Entries
      BY DEF Handed, Entries
    <3>2. QED BY <2>1, <3>1 DEF Numbered, TypeOK
  <2>4. q \in Live'
    BY <2>1, <2>2, <2>3 DEF Live, Unacked
  <2>5. r # q => r \in Live'
    BY <1>3, <2>2 DEF Live, Unacked, Scheduled, Promote, Unpark, TypeOK
  <2>6. QED BY <2>4, <2>5
<1>4. ASSUME NEW g \in Gateways, NEW batch, Take(g, batch), batch \subseteq Unacked,
             fresh \subseteq fresh' \cup batch
      PROVE  r \in Live'
  <2>1. Unacked \subseteq Unacked' /\ Handed' \subseteq Handed /\ retry' = retry
    BY <1>4 DEF Take, Unacked, Handed, NewJob
  <2>2. QED BY <2>1 DEF Live, Scheduled
<1>5. ASSUME NEW g \in Gateways, ClaimPending(g) PROVE r \in Live'
  <2>1. Handed' \subseteq Handed
    BY <1>5, ClaimEffect DEF Handed, NewJob
  <2>2. QED BY <1>5, <2>1, ClaimEffect DEF Live, Unacked, Scheduled
<1>6. ASSUME NEW g \in Gateways, Read(g) PROVE r \in Live'
  <2>1. PICK p \in Priorities :
          LET batch == Oldest(OfStream(fresh, p), BatchSize)
          IN  Take(g, batch) /\ fresh' = fresh \ batch
    BY <1>6 DEF Read
  <2>2. Oldest(OfStream(fresh, p), BatchSize) \subseteq Unacked
    BY DEF Oldest, OfStream, Unacked
  <2>3. QED BY <1>4, <2>1, <2>2
<1>7. ASSUME NEW g \in Gateways, RecoverGroups(g) \/ Start(g) PROVE r \in Live'
  <2>1. \A e \in fresh : group[PrioOf(e.req)]
    BY DEF GroupsStand, PrioOf, Priorities
  <2>2. fresh' = fresh /\ pel' = pel /\ jobs' \subseteq jobs /\ UNCHANGED retry
    BY <1>7, <2>1, RecoverEffect DEF Start, EnsureGroups, Unread
  <2>3. QED BY <2>2 DEF Live, Unacked, Handed, Scheduled
<1>8. ASSUME NEW g \in Gateways, Turn(g) \/ ReadNone(g) \/ Reconnect(g)
                                  \/ Restart(g) \/ BeginStop(g)
      PROVE  r \in Live'
  BY <1>8 DEF Turn, ReadNone, Reconnect, Restart, BeginStop, Live, Unacked,
     Handed, Scheduled
<1>9. ASSUME NEW g \in Gateways, Quit(g) \/ Crash(g) PROVE r \in Live'
  <2>1. Handed' \subseteq Handed
    BY <1>9 DEF Quit, Crash, Vanish, Handed
  <2>2. QED BY <1>9, <2>1 DEF Quit, Crash, Live, Unacked, Scheduled
<1>10. ASSUME NEW j \in jobs, JobStep(j) PROVE r \in Live' \/ Reported(r)'
  <2>1. j \in JobType /\ JobFrame(j)
    BY <1>10, JobFields, FrameOfJob
  <2>2. \A k \in jobs' : k \in jobs \/ k.entry = j.entry
    BY <2>1, JobKeepsEntry
  <2>3. CASE Handed' \subseteq Handed /\ pel \subseteq pel'
    \* Nothing is handed over and nothing acknowledged.
    <3>1. Unacked \subseteq Unacked'
      BY <2>1, <2>3 DEF JobFrame, Unacked
    <3>2. Scheduled \subseteq Scheduled'
      BY <2>1, JobFields DEF JobFrame, Park, Scheduled, TypeOK, NotScheduled
    <3>3. QED BY <2>3, <3>1, <3>2 DEF Live
  <2>4. CASE ~(Handed' \subseteq Handed)
    \* The token takes over for this job's request; the others keep theirs.
    <3>1. PICK k \in jobs' : k \notin jobs /\ k.pc = "ack" /\ KeepsSlot(k)
      BY <2>4 DEF Handed, KeepsSlot
    <3>2. Park(j) /\ UNCHANGED stream
      BY <1>10, <3>1, HandOver
    <3>3. Handed' \subseteq Handed \cup {j.entry}
      BY <2>2 DEF Handed, KeepsSlot
    <3>4. j.entry.req \in Scheduled'
      BY <3>2, JobFields DEF Park, Scheduled, TypeOK, NotScheduled
    <3>5. Scheduled \subseteq Scheduled'
      BY <3>2, JobFields DEF Park, Scheduled, TypeOK, NotScheduled
    <3>6. QED BY <3>2, <3>3, <3>4, <3>5 DEF Live, Unacked
  <2>5. CASE Handed' \subseteq Handed /\ ~(pel \subseteq pel')
    \* XACK: the entry was handed over, or its request has been answered.
    <3>1. j.pc = "ack" /\ Settle(j.entry) /\ UNCHANGED retry
      BY <1>10, <2>5 DEF JobStep, CheckCache, CheckLimit, Execute, Defer, Replay, Finish,
         Ack, Del, Decr
    <3>2. Unacked \ {j.entry} \subseteq Unacked' /\ Scheduled' = Scheduled
      BY <3>1 DEF Settle, Unacked, Scheduled
    <3>3. KeepsSlot(j) => j.entry \in Handed
      BY <3>1 DEF Handed
    <3>4. ~KeepsSlot(j) => Reported(j.entry.req)'
      BY <3>1, JobFields, ReportsStay DEF AckedReported
    <3>5. QED BY <2>5, <3>2, <3>3, <3>4 DEF Live
  <2>6. QED BY <2>3, <2>4, <2>5
<1>11. ASSUME NEW p \in Priorities, Wipe(p) PROVE FALSE
  BY <1>11 DEF Wipe, Spend, GroupsSurvive, TypeOK, Kinds
<1>12. CASE IdleElapses
  BY <1>12 DEF IdleElapses, Live, Unacked, Handed, Scheduled
<1>13. CASE UNCHANGED vars
  BY <1>13 DEF Live, Unacked, Handed, Scheduled
<1>14. QED
  BY NextCases, <1>1, <1>2, <1>3, <1>5, <1>6, <1>7, <1>8, <1>9, <1>10, <1>11, <1>12, <1>13

\* Acceptance is what XADD decides; the entry it added can run.
LEMMA Acceptance ==
    ASSUME LossInv, [Next]_vars, NEW r \in Requests, prod'[r] = "accepted", prod[r] # "accepted"
    PROVE  r \in Live'
<1> USE DEF LossInv
<1>1. ASSUME NEW q \in Requests, XAdd(q) PROVE r \in Live'
  <2>1. prod' = [prod EXCEPT ![q] = "accepted"] /\ q = r
    BY <1>1 DEF XAdd, SetProd, TypeOK
  <2>2. AddEntry(Entry(r, 0)) /\ UNCHANGED jobs
    BY <1>1, <2>1 DEF XAdd, SetProd, TypeOK
  <2>3. Entry(r, 0).id = lastId + 1 /\ Entry(r, 0).req = r
    BY DEF Entry
  <2>4. Entry(r, 0) \notin Handed
    <3>1. \A f \in Handed : f \in Entries
      BY DEF Handed, Entries
    <3>2. QED BY <2>3, <3>1 DEF Numbered, TypeOK
  <2>5. QED BY <2>2, <2>3, <2>4 DEF AddEntry, Live, Unacked, Handed
<1>2. ASSUME NEW q \in Requests, Reserve(q) \/ GiveBack(q) PROVE FALSE
  BY <1>2 DEF Reserve, GiveBack, SetProd, TypeOK
<1>3. ASSUME NEW g \in Gateways, Quit(g) \/ Crash(g) PROVE FALSE
  BY <1>3 DEF Quit, Crash, Vanish, TypeOK
<1>4. ASSUME NEW j \in jobs, JobStep(j) PROVE FALSE
  BY <1>4, FrameOfJob DEF JobFrame
<1>5. CASE UNCHANGED prod
  BY <1>5
<1>6. QED
  BY NextCases, <1>1, <1>2, <1>3, <1>4, <1>5
  DEF Promote, Turn, ClaimPending, Read, Take, ReadNone, RecoverGroups, Reconnect,
      Restart, Start, BeginStop, Wipe, IdleElapses

LEMMA LossNext == GroupsSurvive /\ LossInv /\ [Next]_vars => LossInv'
<1> SUFFICES ASSUME GroupsSurvive, LossInv, [Next]_vars PROVE LossInv'
  OBVIOUS
<1>1. TypeOK' /\ Numbered' /\ AckedReported' /\ GroupsStand'
  BY TypeNext, NumberedNext, AckedNext, GroupsNext DEF LossInv
<1>2. NoAcceptedLoss'
  <2> SUFFICES ASSUME NEW r \in Requests, prod'[r] = "accepted", ~Reported(r)'
               PROVE  r \in Live'
    BY DEF NoAcceptedLoss
  <2>1. CASE prod[r] = "accepted"
    <3>1. ~Reported(r)
      BY ReportsStay DEF LossInv
    <3>2. r \in Live
      BY <2>1, <3>1 DEF LossInv, NoAcceptedLoss
    <3>3. QED BY <3>2, LiveStays
  <2>2. QED BY <2>1, Acceptance
<1>3. QED BY <1>1, <1>2 DEF LossInv

\* README.md:463: the queue acknowledges an entry only when its result has been
\* delivered or persisted, or the request parked.  So an accepted request is
\* never lost, however many crashes, faults, denials and stops there are.
THEOREM AcceptedNeverLost ==
    ASSUME GroupsSurvive
    PROVE  Spec => []NoAcceptedLoss
<1>1. Init => LossInv
  BY LossInit
<1>2. LossInv /\ [Next]_vars => LossInv'
  BY LossNext
<1>3. LossInv => NoAcceptedLoss
  BY DEF LossInv
<1>4. QED BY <1>1, <1>2, <1>3, PTL DEF Spec

-----------------------------------------------------------------------------
(* The retry bound.  A job that has yet to call, or is about to park, is   *)
(* within MaxAttempts, so what it parks is too, and one call adds one.     *)

Waiting == {"cache", "limit", "defer"}
AttemptsInv ==
    /\ TypeOK
    /\ \A r \in Requests : retry[r] <= MaxAttempts
    /\ \A e \in Unacked : e.attempts <= MaxAttempts
    /\ \A j \in jobs : /\ j.attempts <= MaxAttempts + 1
                       /\ j.pc \in Waiting => j.attempts <= MaxAttempts

\* How the count of a job's attempts moves.
LEMMA AttemptsFlow ==
    ASSUME TypeOK, NEW j \in jobs, JobStep(j), NEW k \in jobs', k \notin jobs
    PROVE  \/ j.pc = "limit" /\ k.pc = "call" /\ k.attempts = j.attempts + 1
           \/ /\ k.attempts = j.attempts
              /\ k.pc \in Waiting => j.pc \in Waiting \/ MayRetry(j.attempts)
<1>0. j \in JobType
  BY JobFields
<1>1. \A pc, res : /\ At(j, pc).pc = pc /\ At(j, pc).attempts = j.attempts
                   /\ Having(j, pc, res).pc = pc /\ Having(j, pc, res).attempts = j.attempts
  BY <1>0 DEF At, Having, JobType
<1>2. /\ [At(j, "call") EXCEPT !.attempts = @ + 1].pc = "call"
      /\ [At(j, "call") EXCEPT !.attempts = @ + 1].attempts = j.attempts + 1
  BY <1>0 DEF At, JobType
<1>3. CASE CheckCache(j)
  BY <1>1, <1>3 DEF CheckCache, Move, Leave, Waiting
<1>4. CASE CheckLimit(j)
  <2>1. j.pc = "limit"
    BY <1>4 DEF CheckLimit
  <2>2. \/ Move(j, [At(j, "call") EXCEPT !.attempts = @ + 1])
        \/ Move(j, At(j, "defer"))
        \/ Move(j, Having(j, "finish", "err"))
    BY <1>4 DEF CheckLimit
  <2>3. CASE Move(j, [At(j, "call") EXCEPT !.attempts = @ + 1])
    BY <1>2, <2>1, <2>3 DEF Move
  <2>4. CASE Move(j, At(j, "defer")) \/ Move(j, Having(j, "finish", "err"))
    BY <1>1, <2>1, <2>4 DEF Move, Waiting
  <2>5. QED BY <2>2, <2>3, <2>4
<1>5. CASE Execute(j)
  BY <1>1, <1>5 DEF Execute, Move, Waiting
<1>6. CASE Defer(j)
  BY <1>1, <1>6 DEF Defer, Move, Waiting
<1>7. CASE Replay(j) \/ Finish(j)
  BY <1>1, <1>7 DEF Replay, Finish, Undelivered, Move, Leave, Waiting
<1>8. CASE Ack(j) \/ Del(j) \/ Decr(j)
  BY <1>1, <1>8 DEF Ack, Del, Decr, Move, Leave, Waiting
<1>9. QED BY <1>3, <1>4, <1>5, <1>6, <1>7, <1>8 DEF JobStep

LEMMA AttemptsOfJob ==
    ASSUME AttemptsInv, NEW j \in jobs, JobStep(j), TypeOK'
    PROVE  AttemptsInv'
<1>0. TypeOK /\ MaxAttempts \in Nat
  BY SizesAssumption DEF AttemptsInv
<1>1. JobFrame(j) /\ j.attempts \in Nat
  BY <1>0, FrameOfJob, JobFields
<1>2. j.attempts <= MaxAttempts + 1 /\ (j.pc \in Waiting => j.attempts <= MaxAttempts)
  BY DEF AttemptsInv
<1>3. ASSUME NEW k \in jobs'
      PROVE  k.attempts <= MaxAttempts + 1 /\ (k.pc \in Waiting => k.attempts <= MaxAttempts)
  <2>1. CASE k \in jobs
    BY <2>1 DEF AttemptsInv
  <2>2. CASE j.pc = "limit" /\ k.pc = "call" /\ k.attempts = j.attempts + 1
    BY <1>0, <1>1, <1>2, <2>2 DEF Waiting
  <2>3. CASE /\ k.attempts = j.attempts
             /\ k.pc \in Waiting => j.pc \in Waiting \/ MayRetry(j.attempts)
    BY <1>2, <2>3 DEF MayRetry
  <2>4. QED BY <1>0, <2>1, <2>2, <2>3, AttemptsFlow
<1>4. ASSUME NEW r \in Requests PROVE retry'[r] <= MaxAttempts
  <2>1. CASE retry' = retry
    BY <2>1 DEF AttemptsInv
  <2>2. CASE retry' # retry
    <3>1. j.pc = "defer" /\ Park(j)
      BY <2>2 DEF JobStep, CheckCache, CheckLimit, Execute, Defer, Replay, Finish, Ack, Del, Decr
    <3>2. j.attempts <= MaxAttempts
      BY <1>2, <3>1 DEF Waiting
    <3>3. QED BY <1>0, <3>1, <3>2 DEF Park, TypeOK, AttemptsInv
  <2>3. QED BY <2>1, <2>2
<1>5. Unacked' \subseteq Unacked
  BY <1>1 DEF JobFrame, Unacked
<1>6. QED BY <1>3, <1>4, <1>5 DEF AttemptsInv

LEMMA AttemptsNext == AttemptsInv /\ [Next]_vars => AttemptsInv'
<1> SUFFICES ASSUME AttemptsInv, [Next]_vars PROVE AttemptsInv'
  OBVIOUS
<1>0. TypeOK /\ TypeOK' /\ MaxAttempts \in Nat
  BY SizesAssumption, TypeNext DEF AttemptsInv
<1>1. CASE \E j \in jobs : JobStep(j)
  BY <1>0, <1>1, AttemptsOfJob
<1>2. CASE /\ Unacked' \subseteq Unacked /\ retry' = retry
           /\ jobs' \subseteq jobs
  BY <1>0, <1>2 DEF AttemptsInv
<1>3. ASSUME NEW r \in Requests, XAdd(r) PROVE AttemptsInv'
  <2>1. Entry(r, 0).attempts <= MaxAttempts
    BY <1>0 DEF Entry
  <2>2. Unacked' \subseteq Unacked \cup {Entry(r, 0)} /\ UNCHANGED <<retry, jobs>>
    BY <1>3 DEF XAdd, AddEntry, Unacked
  <2>3. QED BY <1>0, <2>1, <2>2 DEF AttemptsInv
<1>4. ASSUME NEW r \in Requests, NEW g \in Gateways, Promote(g, r) PROVE AttemptsInv'
  <2>1. Entry(r, retry[r]).attempts <= MaxAttempts
    BY DEF Entry, AttemptsInv
  <2>2. Unacked' \subseteq Unacked \cup {Entry(r, retry[r])} /\ UNCHANGED jobs
    BY <1>4 DEF Promote, AddEntry, Unacked
  <2>3. \A q \in Requests : retry'[q] = retry[q] \/ retry'[q] = NotScheduled
    BY <1>0, <1>4 DEF Promote, Unpark, TypeOK
  <2>4. NotScheduled <= MaxAttempts
    BY <1>0 DEF NotScheduled
  <2>5. QED BY <1>0, <2>1, <2>2, <2>3, <2>4 DEF AttemptsInv
<1>5. ASSUME NEW g \in Gateways, NEW batch, batch \subseteq Unacked, Take(g, batch), fresh' \subseteq fresh
      PROVE  AttemptsInv'
  <2>1. Unacked' \subseteq Unacked /\ retry' = retry
    BY <1>5 DEF Take, Unacked
  <2>2. \A e \in batch : /\ NewJob(g, e).attempts = e.attempts
                         /\ e.attempts <= MaxAttempts /\ e.attempts \in Nat
    BY <1>0, <1>5 DEF NewJob, AttemptsInv, TypeOK, Unacked, EntryType
  <2>3. \A k \in jobs' : k \in jobs \/ (k.attempts <= MaxAttempts /\ k.attempts \in Nat)
    BY <1>5, <2>2 DEF Take
  <2>4. ASSUME NEW k \in jobs'
        PROVE  k.attempts <= MaxAttempts + 1 /\ (k.pc \in Waiting => k.attempts <= MaxAttempts)
    <3>1. CASE k \in jobs
      BY <3>1 DEF AttemptsInv
    <3>2. CASE k.attempts <= MaxAttempts /\ k.attempts \in Nat
      BY <1>0, <3>2
    <3>3. QED BY <2>3, <3>1, <3>2
  <2>5. QED BY <1>0, <2>1, <2>4 DEF AttemptsInv
<1>6. ASSUME NEW g \in Gateways, ClaimPending(g) \/ Read(g) PROVE AttemptsInv'
  <2>1. \A p : Oldest(OfStream(fresh, p), BatchSize) \subseteq Unacked
    BY DEF Oldest, OfStream, Unacked
  <2>2. CASE ClaimPending(g)
    <3>1. \A e \in stale : NewJob(g, e).attempts <= MaxAttempts /\ NewJob(g, e).attempts \in Nat
      BY <1>0 DEF NewJob, AttemptsInv, TypeOK, Unacked, EntryType
    <3>2. ASSUME NEW k \in jobs'
          PROVE  k.attempts <= MaxAttempts + 1 /\ (k.pc \in Waiting => k.attempts <= MaxAttempts)
      <4>1. CASE k \in jobs
        BY <4>1 DEF AttemptsInv
      <4>2. CASE k \notin jobs
        BY <1>0, <2>2, <3>1, <4>2, ClaimEffect
      <4>3. QED BY <4>1, <4>2
    <3>3. Unacked' = Unacked /\ retry' = retry
      BY <2>2, ClaimEffect DEF Unacked
    <3>4. QED BY <1>0, <3>2, <3>3 DEF AttemptsInv
  <2>3. CASE Read(g)
    BY <1>5, <2>1, <2>3 DEF Read
  <2>4. QED BY <1>6, <2>2, <2>3
<1>7. ASSUME NEW g \in Gateways, Quit(g) \/ Crash(g) PROVE AttemptsInv'
  BY <1>2, <1>7 DEF Quit, Crash, Vanish, Unacked
<1>8. ASSUME NEW g \in Gateways, RecoverGroups(g) \/ Start(g) PROVE AttemptsInv'
  BY <1>2, <1>8, RecoverEffect DEF Start, EnsureGroups, Unread, Unacked
<1>9. ASSUME NEW p \in Priorities, Wipe(p) PROVE AttemptsInv'
  BY <1>2, <1>9 DEF Wipe, Unacked
<1>10. CASE UNCHANGED <<fresh, pel, retry, jobs>>
  BY <1>2, <1>10 DEF Unacked
<1>11. QED
  BY NextCases, <1>1, <1>3, <1>4, <1>6, <1>7, <1>8, <1>9, <1>10
  DEF Reserve, GiveBack, Turn, ReadNone, Reconnect, Restart, BeginStop, IdleElapses

\* MaxAttempts bounds what the payloads say: no token and no entry ever carries
\* more attempts, and no job more than one beyond, whatever is lost or repeated.
CountersBound ==
    /\ \A r \in Requests : retry[r] <= MaxAttempts
    /\ \A e \in Unacked : e.attempts <= MaxAttempts
    /\ \A j \in jobs : j.attempts <= MaxAttempts + 1

LEMMA AttemptsInit == Init => AttemptsInv
BY TypeInit, SizesAssumption DEF Init, AttemptsInv, NotScheduled, Unacked

\* gateway-server.js:468, redis-stream-queue.js:433: see CountersBound.
THEOREM CountersBounded == Spec => []CountersBound
<1>1. AttemptsInv => CountersBound
  BY DEF AttemptsInv, CountersBound
<1>2. QED BY <1>1, AttemptsInit, AttemptsNext, PTL DEF Spec
=============================================================================
