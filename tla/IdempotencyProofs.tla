------------------------- MODULE IdempotencyProofs -------------------------
(* Proofs about Idempotency, for every number of requests, gateways and    *)
(* disturbances.                                                           *)
EXTENDS Idempotency, SequenceTheorems, TLAPS

-----------------------------------------------------------------------------
(* Types.                                                                  *)

\* A job that is about to answer knows with what.
Answering == \A j \in jobs : j.pc \in {"finish", "replay"} => j.res \in Outcomes
TypeInv == TypeOK /\ Answering

\* Spend counts one disturbance more.
LEMMA SpendType ==
    ASSUME used \in [Kinds -> Nat], NEW k \in Kinds, Spend(k)
    PROVE  used' \in [Kinds -> Nat]
BY DEF Spend

\* Each outcome of a command leaves the counters well typed.
LEMMA OutcomeType ==
    ASSUME used \in [Kinds -> Nat], NEW g \in Gateways,
           Answered(g) \/ Refused(g) \/ ReplyLost(g)
    PROVE  used' \in [Kinds -> Nat]
BY SpendType DEF Answered, Refused, ReplyLost, Kinds

\* Steps of _enqueue preserve the types.
LEMMA EnqueueType ==
    ASSUME TypeInv, NEW r \in Requests, Enqueue(r)
    PROVE  TypeInv'
<1> USE IdempotencyAssumption DEF TypeInv, TypeOK, Answering, InFlight, Claiming, history
<1>0. HomeOf[r] \in Gateways
  OBVIOUS
<1>1. CASE Claims(r)
  <2>1. used' \in [Kinds -> Nat]
    BY <1>0, <1>1, OutcomeType DEF Claims, Failed
  <2>2. at' \in [Requests -> InFlight \cup {"new", "accepted", "duplicate", "served",
                                            "refused", "rejected"}]
    BY <1>1 DEF Claims, Go
  <2>3. key' \in {Free} \cup [owner: Requests, answer: Outcomes \cup {"none"}]
    BY <1>1 DEF Claims, Claim
  <2> QED
    BY <1>1, <2>1, <2>2, <2>3 DEF Claims, Orphan
<1>2. CASE ReadsOwner(r)
  <2>1. used' \in [Kinds -> Nat]
    BY <1>0, <1>2, OutcomeType DEF ReadsOwner, Failed
  <2> QED
    BY <1>2, <2>1 DEF ReadsOwner, Go
<1>3. CASE Adds(r)
  <2>1. used' \in [Kinds -> Nat]
    BY <1>0, <1>3, OutcomeType, SpendType DEF Adds, Kinds
  <2> QED
    BY <1>3, <2>1 DEF Adds, Go
<1>4. CASE ReadsClaim(r)
  <2>1. used' \in [Kinds -> Nat]
    BY <1>0, <1>4, OutcomeType DEF ReadsClaim, Failed
  <2> QED
    BY <1>4, <2>1 DEF ReadsClaim, Go, OrphanOwn
<1>5. CASE Deletes(r)
  <2>1. used' \in [Kinds -> Nat]
    BY <1>0, <1>5, OutcomeType DEF Deletes, Executed
  <2> QED
    BY <1>5, <2>1 DEF Deletes, Go, OrphanOwn
<1> QED
  BY <1>1, <1>2, <1>3, <1>4, <1>5 DEF Enqueue

\* A job that moves stays well typed.
LEMMA MoveType ==
    ASSUME TypeInv, NEW j \in jobs,
           NEW pc \in {"cache", "run", "finish", "replay", "ack"},
           NEW res \in Outcomes \cup {"none"},
           pc \in {"finish", "replay"} => res \in Outcomes,
           Move(j, To(j, pc, res))
    PROVE  jobs' \subseteq JobType /\ Answering'
<1>1. To(j, pc, res) \in JobType /\ To(j, pc, res).pc = pc /\ To(j, pc, res).res = res
  <2>1. j \in [req: Requests, gw: Gateways, res: Outcomes \cup {"none"},
               pc: {"cache", "run", "finish", "replay", "ack"}]
    BY DEF TypeInv, TypeOK, JobType
  <2> QED
    BY <2>1 DEF JobType, To
<1> QED
  BY <1>1 DEF TypeInv, TypeOK, Answering, Move

\* Steps of a job, and its creation, preserve the types.
LEMMA WorkType ==
    ASSUME TypeInv, NEW r \in Requests, Work(r)
    PROVE  TypeInv'
<1> USE DEF TypeInv, TypeOK, Answering, history
<1>1. CASE \E g \in Gateways : Delivers(g, r)
  <2>1. PICK g \in Gateways : Delivers(g, r)
    BY <1>1
  <2>2. [req |-> r, gw |-> g, pc |-> "cache", res |-> "none"] \in JobType
    BY DEF JobType
  <2> QED
    BY <2>1, <2>2 DEF Delivers
<1>2. ASSUME NEW j \in jobs, Job(j)
      PROVE  TypeInv'
  <2>0. j \in JobType /\ j.gw \in Gateways /\ j.req \in Requests
    BY DEF JobType
  <2>1. CASE ChecksCache(j)
    <3>1. used' \in [Kinds -> Nat]
      BY <2>0, <2>1, OutcomeType DEF ChecksCache, Failed
    <3>2. key.answer \in Outcomes \cup {"none"}
      BY DEF Free
    <3> QED
      <4>1. CASE Move(j, To(j, "run", "none"))
        BY <2>1, <3>1, <4>1, MoveType DEF ChecksCache
      <4>2. CASE key.answer \in Outcomes /\ Move(j, To(j, "replay", key.answer))
        BY <2>1, <3>1, <4>2, MoveType DEF ChecksCache
      <4>3. CASE Leave(j)
        BY <2>1, <3>1, <4>3 DEF ChecksCache, Leave
      <4> QED
        BY <2>1, <3>2, <4>1, <4>2, <4>3 DEF ChecksCache, NotAnswered
  <2>2. CASE Runs(j)
    <3>1. used' \in [Kinds -> Nat]
      BY <2>2, SpendType DEF Runs, Kinds
    <3> QED
      <4>1. ASSUME NEW o \in Outcomes, Move(j, To(j, "finish", o))
            PROVE  TypeInv'
        BY <2>2, <3>1, <4>1, MoveType DEF Runs
      <4>2. CASE Leave(j)
        BY <2>2, <3>1, <4>2 DEF Runs, Leave
      <4> QED
        BY <2>2, <4>1, <4>2 DEF Runs
  <2>3. CASE Finishes(j)
    <3>1. used' \in [Kinds -> Nat]
      BY <2>3, SpendType DEF Finishes, Kinds
    <3>2. Response(j) \in ResponseType
      BY <2>0, <2>3 DEF Finishes, Response, ResponseType
    <3>3. saves' \in [Gateways -> Seq(ResponseType)]
      <4>1. Append(saves[j.gw], Response(j)) \in Seq(ResponseType)
        BY <2>0, <3>2, AppendProperties
      <4> QED
        BY <2>3, <4>1 DEF Finishes, Issue
    <3> QED
      <4>1. CASE Move(j, To(j, "ack", j.res))
        BY <2>0, <2>3, <3>1, <3>3, <4>1, MoveType DEF Finishes, JobType
      <4>2. CASE Move(j, To(j, "finish", "err"))
        BY <2>3, <3>1, <3>3, <4>2, MoveType DEF Finishes, Outcomes
      <4>3. CASE Leave(j)
        BY <2>3, <3>1, <3>3, <4>3 DEF Finishes, Leave
      <4> QED
        BY <2>3, <4>1, <4>2, <4>3 DEF Finishes
  <2>4. CASE Replays(j)
    <3>1. used' \in [Kinds -> Nat]
      BY <2>4, SpendType DEF Replays, Kinds
    <3> QED
      <4>1. CASE Move(j, To(j, "ack", j.res))
        BY <2>0, <2>4, <3>1, <4>1, MoveType DEF Replays, JobType
      <4>2. CASE Leave(j)
        BY <2>4, <3>1, <4>2 DEF Replays, Leave
      <4> QED
        BY <2>4, <4>1, <4>2 DEF Replays
  <2>5. CASE Acks(j)
    <3>1. used' \in [Kinds -> Nat]
      BY <2>0, <2>5, OutcomeType DEF Acks, Executed
    <3> QED
      BY <2>5, <3>1 DEF Acks, Leave
  <2> QED
    BY <1>2, <2>1, <2>2, <2>3, <2>4, <2>5 DEF Job
<1> QED
  BY <1>1, <1>2 DEF Work

\* The store and a crash preserve the types.
LEMMA OtherType ==
    ASSUME TypeInv, NEW g \in Gateways, Saves(g) \/ Crash(g)
    PROVE  TypeInv'
<1> USE DEF TypeInv, TypeOK, Answering, history
<1>1. CASE Saves(g)
  <2>1. used' \in [Kinds -> Nat]
    BY <1>1, SpendType DEF Saves, Kinds
  <2>2. /\ Head(saves[g]) \in ResponseType
        /\ Tail(saves[g]) \in Seq(ResponseType)
    BY <1>1, HeadTailProperties DEF Saves
  <2>3. saves' \in [Gateways -> Seq(ResponseType)]
    BY <1>1, <2>2 DEF Saves
  <2>4. CASE key' = Head(saves[g]) /\ UNCHANGED <<used, orphans>>
    BY <1>1, <2>2, <2>3, <2>4 DEF Saves, ResponseType
  <2>5. CASE OrphanOwn(Head(saves[g]).owner) /\ UNCHANGED key
    <3>1. orphans' \subseteq Requests
      BY <2>2, <2>5 DEF OrphanOwn, ResponseType
    <3> QED
      BY <1>1, <2>1, <2>3, <2>5, <3>1 DEF Saves
  <2> QED
    BY <1>1, <2>4, <2>5 DEF Saves
<1>2. CASE Crash(g)
  <2>1. used' \in [Kinds -> Nat]
    BY <1>2, SpendType DEF Crash, Kinds
  <2>2. saves' \in [Gateways -> Seq(ResponseType)]
    <3>1. <<>> \in Seq(ResponseType)
      OBVIOUS
    <3> QED
      BY <1>2, <3>1 DEF Crash
  <2> QED
    BY <1>2, <2>1, <2>2 DEF Crash
<1> QED
  BY <1>1, <1>2

\* The initial state is well typed.
LEMMA TypeInit == Init => TypeInv
BY IdempotencyAssumption DEF Init, TypeInv, TypeOK, Answering, InFlight, Claiming

\* A step leads from well typed states to well typed ones.
LEMMA TypeStep == TypeInv /\ [Next]_vars => TypeInv'
<1> SUFFICES ASSUME TypeInv, [Next]_vars
             PROVE  TypeInv'
  OBVIOUS
<1>1. CASE UNCHANGED vars
  BY <1>1 DEF vars, TypeInv, TypeOK, Answering
<1>2. ASSUME NEW r \in Requests, Enqueue(r) \/ Work(r)
      PROVE  TypeInv'
  BY <1>2, EnqueueType, WorkType
<1>3. ASSUME NEW g \in Gateways, Saves(g) \/ Crash(g)
      PROVE  TypeInv'
  BY <1>3, OtherType
<1>4. CASE Expires
  BY <1>4, SpendType DEF TypeInv, TypeOK, Answering, history, Expires, Kinds
<1> QED
  BY <1>1, <1>2, <1>3, <1>4 DEF Next

\* Every reachable state is well typed.
THEOREM TypeCorrect == Spec => []TypeOK
<1>1. TypeInv => TypeOK
  BY DEF TypeInv
<1> QED
  BY <1>1, TypeInit, TypeStep, PTL DEF Spec

-----------------------------------------------------------------------------
(* Jobs work on queued requests, one on each.                              *)

JobsQueued == \A j \in jobs : j.req \in queued
OneJob == \A i, j \in jobs : i.req = j.req => i = j
QueuedNotNew == \A r \in queued : at[r] # "new"
JobInv == TypeInv /\ JobsQueued /\ OneJob /\ QueuedNotNew

\* A job that moves or ends keeps its request to itself.
LEMMA MoveKeepsJobs ==
    ASSUME JobInv, NEW j \in jobs, NEW pc, NEW res,
           Move(j, To(j, pc, res)) \/ Leave(j)
    PROVE  OneJob' /\ \A k \in jobs' : \E i \in jobs : k.req = i.req
<1>1. j \in [req: Requests, gw: Gateways, res: Outcomes \cup {"none"},
             pc: {"cache", "run", "finish", "replay", "ack"}]
  BY DEF JobInv, TypeInv, TypeOK, JobType
<1>2. To(j, pc, res).req = j.req
  BY <1>1 DEF To
<1> QED
  BY <1>2 DEF JobInv, OneJob, Move, Leave

\* Every step keeps the jobs with their queued requests.
LEMMA JobStep ==
    ASSUME JobInv, [Next]_vars, TypeInv'
    PROVE  JobInv'
<1> USE DEF JobInv, history
<1>1. CASE UNCHANGED vars
  BY <1>1 DEF vars, JobsQueued, OneJob, QueuedNotNew
<1>2. ASSUME NEW r \in Requests, Enqueue(r)
      PROVE  JobInv'
  <2>1. jobs' = jobs /\ queued \subseteq queued'
    BY <1>2 DEF Enqueue, Claims, ReadsOwner, Adds, ReadsClaim, Deletes
  <2>2. QueuedNotNew'
    BY <1>2 DEF QueuedNotNew, Enqueue, Claims, ReadsOwner, Adds, ReadsClaim,
                Deletes, Go, TypeInv, TypeOK
  <2> QED
    BY <2>1, <2>2 DEF JobsQueued, OneJob
<1>3. ASSUME NEW r \in Requests, NEW g \in Gateways, Delivers(g, r)
      PROVE  JobInv'
  BY <1>3 DEF Delivers, JobsQueued, OneJob, QueuedNotNew
<1>4. ASSUME NEW j \in jobs, ChecksCache(j) \/ Runs(j) \/ Finishes(j) \/ Replays(j)
      PROVE  JobInv'
  <2>1. queued' = queued /\ at' = at
    BY <1>4 DEF ChecksCache, Runs, Finishes, Replays
  <2>2. (\E pc, res : Move(j, To(j, pc, res))) \/ Leave(j)
    BY <1>4 DEF ChecksCache, Runs, Finishes, Replays
  <2>3. OneJob' /\ \A k \in jobs' : \E i \in jobs : k.req = i.req
    BY <2>2, MoveKeepsJobs
  <2> QED
    BY <2>1, <2>3 DEF JobsQueued, QueuedNotNew
<1>5. ASSUME NEW j \in jobs, Acks(j)
      PROVE  JobInv'
  <2>1. jobs' = jobs \ {j} /\ queued \ {j.req} \subseteq queued' /\ queued' \subseteq queued
    BY <1>5 DEF Acks, Leave
  <2>2. at' = at
    BY <1>5 DEF Acks
  <2> QED
    BY <2>1, <2>2 DEF JobsQueued, OneJob, QueuedNotNew
<1>6. ASSUME NEW g \in Gateways, Saves(g)
      PROVE  JobInv'
  BY <1>6 DEF Saves, JobsQueued, OneJob, QueuedNotNew
<1>7. ASSUME NEW g \in Gateways, Crash(g)
      PROVE  JobInv'
  <2>1. jobs' \subseteq jobs /\ queued' = queued
    BY <1>7 DEF Crash
  <2>2. QueuedNotNew'
    BY <1>7 DEF Crash, QueuedNotNew, TypeInv, TypeOK
  <2> QED
    BY <2>1, <2>2 DEF JobsQueued, OneJob
<1>8. CASE Expires
  BY <1>8 DEF Expires, JobsQueued, OneJob, QueuedNotNew
<1> QED
  BY <1>1, <1>2, <1>3, <1>4, <1>5, <1>6, <1>7, <1>8 DEF Next, Work, Job

\* There are no jobs at first.
LEMMA JobInit == Init => JobInv
BY TypeInit DEF Init, JobInv, JobsQueued, OneJob, QueuedNotNew

-----------------------------------------------------------------------------
(* One request in flight.  Whoever is queued, claims, or has a response on *)
(* its way to Redis owns the key; the queued ones are past the release.    *)

Saving(r) == \E g \in Gateways : \E i \in DOMAIN saves[g] : saves[g][i].owner = r
Started(r) == r \in queued \/ Saving(r)
PastRelease == \A r \in Requests : Started(r) => at[r] = "accepted"
Owned == \A r \in Requests : Started(r) \/ at[r] \in Claiming => key.owner = r
OwnerInv == unsure = {} => PastRelease /\ Owned

\* The response that is issued is that of a queued request.
LEMMA IssueSaving ==
    ASSUME JobInv, NEW j \in jobs, saves' = Issue(j), NEW r \in Requests, Saving(r)'
    PROVE  Saving(r) \/ r = j.req
<1> DEFINE s == saves[j.gw]
           e == Response(j)
<1>1. j \in JobType
  BY DEF JobInv, TypeInv, TypeOK
<1>2. j.gw \in Gateways /\ s \in Seq(ResponseType) /\ saves \in [Gateways -> Seq(ResponseType)]
  BY <1>1 DEF JobInv, TypeInv, TypeOK, JobType
<1>3. PICK g \in Gateways : \E i \in DOMAIN saves'[g] : saves'[g][i].owner = r
  BY DEF Saving
<1>6. PICK i \in DOMAIN saves'[g] : saves'[g][i].owner = r
  BY <1>3
<1>4. CASE g # j.gw
  <2>1. saves'[g] = saves[g]
    BY <1>2, <1>4 DEF Issue
  <2> QED
    BY <1>6, <2>1 DEF Saving
<1>5. CASE g = j.gw
  <2>1. saves'[g] = Append(s, e)
    BY <1>2, <1>5 DEF Issue
  <2>2. i \in DOMAIN s \/ Append(s, e)[i] = e
    BY <1>2, <1>6, <2>1
  <2>3. CASE i \in DOMAIN s
    <3>1. Append(s, e)[i] = s[i]
      BY <1>2, <2>3
    <3> QED
      BY <1>6, <1>5, <2>1, <2>3, <3>1 DEF Saving
  <2>4. CASE Append(s, e)[i] = e
    BY <1>6, <2>1, <2>4 DEF Response
  <2> QED
    BY <2>2, <2>3, <2>4
<1> QED
  BY <1>4, <1>5

\* Executing or losing a response leaves no other on its way than before.
LEMMA ShrinkSaving ==
    ASSUME TypeInv, NEW g \in Gateways,
           \/ saves[g] # <<>> /\ saves' = [saves EXCEPT ![g] = Tail(@)]
           \/ saves' = [saves EXCEPT ![g] = <<>>],
           NEW r \in Requests, Saving(r)'
    PROVE  Saving(r)
<1>1. saves \in [Gateways -> Seq(ResponseType)]
  BY DEF TypeInv, TypeOK
<1>6. PICK h \in Gateways : \E i \in DOMAIN saves'[h] : saves'[h][i].owner = r
  BY DEF Saving
<1>2. PICK i \in DOMAIN saves'[h] : saves'[h][i].owner = r
  BY <1>6
<1>3. CASE h # g
  <2>1. saves'[h] = saves[h]
    BY <1>1, <1>3
  <2> QED
    BY <1>2, <2>1 DEF Saving
<1>4. CASE h = g /\ saves[g] # <<>> /\ saves'[g] = Tail(saves[g])
  <2> DEFINE s == saves[g]
  <2>1. s \in Seq(ResponseType) /\ s # <<>>
    BY <1>1, <1>4
  <2>2. i \in 1 .. Len(Tail(s)) /\ Tail(s)[i].owner = r
    <3>1. Tail(s) \in Seq(ResponseType)
      BY <2>1, HeadTailProperties
    <3>2. DOMAIN Tail(s) = 1 .. Len(Tail(s))
      BY <3>1, LenProperties
    <3> QED
      BY <1>2, <1>4, <3>2
  <2>3. Len(Tail(s)) = Len(s) - 1 /\ Tail(s)[i] = s[i + 1]
    BY <2>1, <2>2, HeadTailProperties
  <2>4. i + 1 \in DOMAIN s
    BY <2>1, <2>2, <2>3, LenProperties
  <2> QED
    BY <2>2, <2>3, <2>4 DEF Saving
<1>5. CASE h = g /\ saves'[g] = <<>>
  BY <1>2, <1>5
<1> QED
  BY <1>1, <1>3, <1>4, <1>5

\* The steps of _enqueue keep the key with whoever is in flight.
LEMMA EnqueueOwner ==
    ASSUME TypeInv, TypeInv', OwnerInv, NEW r \in Requests, Enqueue(r)
    PROVE  OwnerInv'
<1> SUFFICES ASSUME unsure' = {}
             PROVE  PastRelease' /\ Owned'
  BY DEF OwnerInv
<1>1. unsure = {} /\ saves' = saves /\ \A q \in Requests : Saving(q)' <=> Saving(q)
  BY DEF Enqueue, Claims, ReadsOwner, Adds, ReadsClaim, Deletes, history, Saving
<1>2. PastRelease /\ Owned
  BY <1>1 DEF OwnerInv
<1>3. DOMAIN at = Requests /\ at = [q \in Requests |-> at[q]] /\ None \notin Requests
  BY IdempotencyAssumption DEF TypeInv, TypeOK
<1> USE DEF PastRelease, Owned, Started, Claiming, history, Go
<1>4. CASE Claims(r)
  <2>1. Claim(r).owner = r
    BY DEF Claim
  <2>2. CASE key = Free /\ key' = Claim(r)
    <3>1. \A q \in Requests : ~Started(q) /\ at[q] \notin Claiming
      BY <1>2, <1>3, <2>2 DEF Free
    <3> QED
      BY <1>1, <1>3, <1>4, <2>1, <2>2, <3>1 DEF Claims
  <2>3. CASE key' = key
    BY <1>1, <1>2, <1>3, <1>4, <2>1, <2>3 DEF Claims, Unclaimed, Free
  <2> QED
    BY <1>4, <2>2, <2>3 DEF Claims, Unclaimed
<1>5. CASE ReadsOwner(r)
  BY <1>1, <1>2, <1>3, <1>5 DEF ReadsOwner
<1>6. CASE Adds(r)
  BY <1>1, <1>2, <1>3, <1>6 DEF Adds
<1>7. CASE ReadsClaim(r)
  BY <1>1, <1>2, <1>3, <1>7 DEF ReadsClaim
<1>8. CASE Deletes(r)
  <2>1. \A q \in Requests : Started(q) \/ at[q] \in Claiming => q = r
    BY <1>2, <1>8 DEF Deletes
  <2>2. ~Started(r)
    BY <1>2, <1>8 DEF Deletes
  <2> QED
    BY <1>1, <1>2, <1>3, <1>8, <2>1, <2>2 DEF Deletes
<1> QED
  BY <1>4, <1>5, <1>6, <1>7, <1>8 DEF Enqueue

\* So does every other step.
LEMMA OwnerStep ==
    ASSUME JobInv, TypeInv', OwnerInv, [Next]_vars
    PROVE  OwnerInv'
<1> USE DEF history
<1>0. TypeInv
  BY DEF JobInv
<1>1. CASE UNCHANGED vars
  BY <1>1 DEF vars, OwnerInv, PastRelease, Owned, Started, Saving
<1>2. ASSUME NEW r \in Requests, Enqueue(r)
      PROVE  OwnerInv'
  BY <1>0, <1>2, EnqueueOwner
<1>3. ASSUME unsure' = unsure, at' = at, queued' \subseteq queued, key'.owner = key.owner,
             \A r \in Requests : Saving(r)' => Started(r)
      PROVE  OwnerInv'
  BY <1>3 DEF OwnerInv, PastRelease, Owned, Started
<1>4. ASSUME NEW r \in Requests, NEW g \in Gateways, Delivers(g, r)
      PROVE  OwnerInv'
  BY <1>3, <1>4 DEF Delivers, Started, Saving
<1>5. ASSUME NEW j \in jobs, ChecksCache(j) \/ Runs(j) \/ Replays(j)
      PROVE  OwnerInv'
  BY <1>3, <1>5 DEF ChecksCache, Runs, Replays, Started, Saving
<1>6. ASSUME NEW j \in jobs, Finishes(j)
      PROVE  OwnerInv'
  <2>1. j.req \in queued
    BY DEF JobInv, JobsQueued
  <2>2. \A r \in Requests : Saving(r)' => Started(r)
    BY <1>6, <2>1, IssueSaving DEF Finishes, Started
  <2> QED
    BY <1>3, <1>6, <2>2 DEF Finishes
<1>7. ASSUME NEW j \in jobs, Acks(j)
      PROVE  OwnerInv'
  BY <1>3, <1>7 DEF Acks, Started, Saving
<1>8. ASSUME NEW g \in Gateways, Saves(g)
      PROVE  OwnerInv'
  <2>1. \A r \in Requests : Saving(r)' => Started(r)
    BY <1>0, <1>8, ShrinkSaving DEF Saves, Started
  <2>2. saves[g] \in Seq(ResponseType) /\ saves[g] # <<>>
    BY <1>0, <1>8 DEF Saves, TypeInv, TypeOK
  <2>3. Head(saves[g]) \in ResponseType /\ 1 \in DOMAIN saves[g] /\ Head(saves[g]) = saves[g][1]
    BY <2>2
  <2>4. Head(saves[g]).owner \in Requests /\ Saving(Head(saves[g]).owner)
    BY <2>3 DEF ResponseType, Saving
  <2>5. unsure = {} => key.owner = Head(saves[g]).owner
    BY <2>4 DEF OwnerInv, Owned, Started
  <2>6. CASE unsure = {}
    <3>1. key'.owner = key.owner
      BY <1>8, <2>5, <2>6 DEF Saves
    <3> QED
      BY <1>3, <1>8, <2>1, <3>1 DEF Saves
  <2>7. CASE unsure # {}
    BY <1>8, <2>7 DEF Saves, OwnerInv
  <2> QED
    BY <2>6, <2>7
<1>9. ASSUME NEW g \in Gateways, Crash(g)
      PROVE  OwnerInv'
  <2>1. \A r \in Requests : Saving(r)' => Saving(r)
    BY <1>0, <1>9, ShrinkSaving DEF Crash
  <2>2. \A r \in Requests : at'[r] = at[r] \/ (at[r] # "accepted" /\ at'[r] = "refused")
    BY <1>0, <1>9 DEF Crash, InFlight, Claiming, TypeInv, TypeOK
  <2> QED
    BY <1>9, <2>1, <2>2 DEF Crash, OwnerInv, PastRelease, Owned, Started, Claiming
<1>10. CASE Expires
  <2>1. \A r \in Requests : ~Started(r) /\ at[r] \notin Claiming
    BY <1>10 DEF Expires, AtWork, Started, Saving
  <2> QED
    BY <1>10, <2>1 DEF Expires, OwnerInv, PastRelease, Owned, Started, Saving
<1> QED
  BY <1>1, <1>2, <1>4, <1>5, <1>6, <1>7, <1>8, <1>9, <1>10 DEF Next, Work, Job

\* Nobody is in flight at first.
LEMMA OwnerInit == Init => OwnerInv
<1>1. Init => ~\E r \in Requests : Started(r) \/ at[r] \in Claiming
  BY DEF Init, Started, Saving, Claiming
<1> QED
  BY <1>1 DEF OwnerInv, PastRelease, Owned

\* Unless the reply of an XADD is lost, only the owner of the key is, or will
\* be, queued.
THEOREM OneRequestRuns == Spec => []OneInFlight
<1>1. Init => JobInv /\ OwnerInv
  BY JobInit, OwnerInit
<1>2. JobInv /\ OwnerInv /\ [Next]_vars => (JobInv /\ OwnerInv)'
  BY TypeStep, JobStep, OwnerStep DEF JobInv
<1>3. JobInv /\ OwnerInv => OneInFlight
  BY DEF JobInv, TypeInv, TypeOK, OwnerInv, Owned, Started, Claiming, OneInFlight
<1> QED
  BY <1>1, <1>2, <1>3, PTL DEF Spec

-----------------------------------------------------------------------------
(* A claim is backed.  A job acknowledges when its response has been        *)
(* executed or is still before the XACK on the same connection.            *)

Saved(j) == \E i \in DOMAIN saves[j.gw] : saves[j.gw][i].owner = j.req
ReplaySettled == \A j \in jobs : j.pc = "replay" => ~Claimed(j.req)
AckSettled ==
    \A j \in jobs : j.pc = "ack" /\ Claimed(j.req) => j.req \in orphans \/ Saved(j)
BackedInv == ReplaySettled /\ AckSettled /\ ClaimBacked

\* A request becomes the owner of an unanswered claim only when it arrives, and
\* no step forgets an orphan.
LEMMA ClaimsGrow ==
    ASSUME JobInv, [Next]_vars, NEW r \in Requests, Claimed(r)'
    PROVE  /\ orphans \subseteq orphans'
           /\ Claimed(r) \/ (at[r] = "new" /\ (at'[r] = "add" \/ r \in orphans'))
<1> USE DEF history
<1>0. None \notin Requests /\ TypeInv
  BY IdempotencyAssumption DEF JobInv
<1>1. CASE UNCHANGED vars
  BY <1>1 DEF vars, Claimed, Claim
<1>2. ASSUME NEW q \in Requests, Enqueue(q)
      PROVE  /\ orphans \subseteq orphans'
             /\ Claimed(r) \/ (at[r] = "new" /\ (at'[r] = "add" \/ r \in orphans'))
  <2>1. orphans \subseteq orphans'
    BY <1>2 DEF Enqueue, Claims, ReadsOwner, Adds, ReadsClaim, Deletes, Orphan, OrphanOwn
  <2>2. CASE Claims(q)
    <3>1. key' = key \/ (key' = Claim(q) /\ at[q] = "new" /\ (at'[q] = "add" \/ q \in orphans'))
      BY <1>0, <2>2 DEF Claims, Go, Orphan, TypeInv, TypeOK
    <3> QED
      BY <2>1, <3>1 DEF Claimed, Claim
  <2>3. CASE key' = key
    BY <2>1, <2>3 DEF Claimed, Claim
  <2>4. CASE key' = Free
    BY <1>0, <2>4 DEF Claimed, Claim, Free
  <2> QED
    BY <1>2, <2>2, <2>3, <2>4 DEF Enqueue, ReadsOwner, Adds, ReadsClaim, Deletes
<1>3. ASSUME NEW g \in Gateways, Saves(g)
      PROVE  orphans \subseteq orphans' /\ Claimed(r)
  <2>1. Head(saves[g]) \in ResponseType
    BY <1>0, <1>3, HeadTailProperties DEF Saves, TypeInv, TypeOK
  <2>2. Head(saves[g]) # Claim(r)
    BY <2>1 DEF ResponseType, Claim, Outcomes
  <2> QED
    BY <1>3, <2>2 DEF Saves, OrphanOwn, Claimed, Claim
<1>4. ASSUME key' = key /\ orphans \subseteq orphans'
      PROVE  Claimed(r)
  BY <1>4 DEF Claimed, Claim
<1>5. ASSUME NEW q \in Requests, Work(q)
      PROVE  orphans \subseteq orphans' /\ Claimed(r)
  <2>1. key' = key /\ orphans' = orphans
    BY <1>5 DEF Work, Delivers, Job, ChecksCache, Runs, Finishes, Replays, Acks
  <2> QED
    BY <1>4, <2>1
<1>6. ASSUME NEW g \in Gateways, Crash(g)
      PROVE  orphans \subseteq orphans' /\ Claimed(r)
  BY <1>4, <1>6 DEF Crash
<1>7. CASE Expires
  BY <1>0, <1>7 DEF Expires, Claimed, Claim, Free
<1> QED
  BY <1>1, <1>2, <1>3, <1>5, <1>6, <1>7 DEF Next

\* A step of a job keeps the claims backed.
LEMMA WorkBacked ==
    ASSUME JobInv, BackedInv, NEW j \in jobs, Job(j)
    PROVE  BackedInv'
<1> USE DEF history
<1>0. /\ key' = key /\ orphans' = orphans /\ at' = at
      /\ j \in JobType /\ j.gw \in Gateways
      /\ saves \in [Gateways -> Seq(ResponseType)]
  BY DEF JobInv, TypeInv, TypeOK, JobType, Job, ChecksCache, Runs, Finishes, Replays, Acks
<1>1. ASSUME NEW pc, NEW res, Move(j, To(j, pc, res)), saves' = saves, queued' = queued,
             pc = "replay" => ~Claimed(j.req),
             pc = "ack" => ~Claimed(j.req)
      PROVE  BackedInv'
  <2>1. To(j, pc, res).req = j.req /\ To(j, pc, res).pc = pc
    BY <1>0 DEF To, JobType
  <2> QED
    BY <1>0, <1>1, <2>1 DEF BackedInv, ReplaySettled, AckSettled, ClaimBacked, Saved,
                            Move, Claimed, Claim
<1>2. ASSUME Leave(j), saves' = saves, queued' = queued
      PROVE  BackedInv'
  BY <1>0, <1>2 DEF BackedInv, ReplaySettled, AckSettled, ClaimBacked, Saved, Leave,
                    Claimed, Claim
<1>3. CASE ChecksCache(j)
  <2>1. key.answer # "none" => ~Claimed(j.req)
    BY DEF Claimed, Claim
  <2> QED
    BY <1>1, <1>2, <1>3, <2>1 DEF ChecksCache, NotAnswered
<1>4. CASE Runs(j)
  BY <1>1, <1>2, <1>4 DEF Runs
<1>5. CASE Finishes(j)
  <2>1. \A k \in jobs : Saved(k) => \E i \in DOMAIN saves'[k.gw] : saves'[k.gw][i].owner = k.req
    <3> SUFFICES ASSUME NEW k \in jobs, NEW i \in DOMAIN saves[k.gw],
                        saves[k.gw][i].owner = k.req
                 PROVE  i \in DOMAIN saves'[k.gw] /\ saves'[k.gw][i] = saves[k.gw][i]
      BY DEF Saved
    <3>1. CASE k.gw = j.gw
      <4> DEFINE s == saves[j.gw]
      <4>1. saves'[j.gw] = Append(s, Response(j)) /\ s \in Seq(ResponseType)
        BY <1>0, <1>5 DEF Finishes, Issue
      <4> QED
        BY <3>1, <4>1
    <3>2. CASE k.gw # j.gw
      BY <1>0, <1>5, <3>2 DEF Finishes, Issue
    <3> QED
      BY <3>1, <3>2
  <2>2. \E i \in DOMAIN saves'[j.gw] : saves'[j.gw][i].owner = j.req
    <3> DEFINE s == saves[j.gw]
    <3>1. saves'[j.gw] = Append(s, Response(j)) /\ s \in Seq(ResponseType)
      BY <1>0, <1>5 DEF Finishes, Issue
    <3>2. Len(s) + 1 \in DOMAIN Append(s, Response(j))
      BY <3>1
    <3>3. Append(s, Response(j))[Len(s) + 1] = Response(j)
      BY <3>1
    <3> QED
      BY <3>1, <3>2, <3>3 DEF Response
  <2>3. \A res : /\ To(j, "ack", res).req = j.req /\ To(j, "ack", res).gw = j.gw
                 /\ To(j, "finish", res).pc = "finish" /\ To(j, "ack", res).pc = "ack"
    BY <1>0 DEF To, JobType
  <2>4. /\ queued' = queued
        /\ \A k \in jobs' :
              \/ k \in jobs
              \/ k.pc = "finish"
              \/ (k.pc = "ack" /\ k.req = j.req /\ k.gw = j.gw)
    <3>1. /\ To(j, "ack", j.res).req = j.req /\ To(j, "ack", j.res).gw = j.gw
          /\ To(j, "ack", j.res).pc = "ack" /\ To(j, "finish", "err").pc = "finish"
      BY <2>3
    <3>2. \/ Move(j, To(j, "ack", j.res))
          \/ Move(j, To(j, "finish", "err"))
          \/ Leave(j)
      BY <1>5 DEF Finishes
    <3>3. CASE Move(j, To(j, "ack", j.res))
      BY <1>5, <3>1, <3>3 DEF Finishes, Move
    <3>4. CASE Move(j, To(j, "finish", "err"))
      BY <1>5, <3>1, <3>4 DEF Finishes, Move
    <3>5. CASE Leave(j)
      BY <1>5, <3>5 DEF Finishes, Leave
    <3> QED
      BY <3>2, <3>3, <3>4, <3>5
  <2> QED
    BY <1>0, <2>1, <2>2, <2>4 DEF BackedInv, ReplaySettled, AckSettled, ClaimBacked, Saved,
                                  Claimed, Claim
<1>6. CASE Replays(j)
  BY <1>1, <1>2, <1>6 DEF Replays, BackedInv, ReplaySettled
<1>7. CASE Acks(j)
  <2>1. jobs' \subseteq jobs /\ saves' = saves
    BY <1>7 DEF Acks, Leave
  <2>2. CASE queued' = queued
    BY <1>0, <2>1, <2>2 DEF BackedInv, ReplaySettled, AckSettled, ClaimBacked, Saved,
                            Claimed, Claim
  <2>3. CASE queued' = queued \ {j.req} /\ saves[j.gw] = <<>>
    <3>1. ~Saved(j)
      BY <2>3 DEF Saved
    <3>2. Claimed(j.req) => j.req \in orphans
      BY <1>7, <3>1 DEF Acks, BackedInv, AckSettled
    <3> QED
      BY <1>0, <2>1, <2>3, <3>2 DEF BackedInv, ReplaySettled, AckSettled, ClaimBacked,
                                    Saved, Claimed, Claim
  <2> QED
    BY <1>7, <2>2, <2>3 DEF Acks, Executed, Answered, ReplyLost
<1> QED
  BY <1>3, <1>4, <1>5, <1>6, <1>7 DEF Job

\* So does every step of _enqueue.
LEMMA EnqueueBacked ==
    ASSUME JobInv, BackedInv, [Next]_vars, NEW q \in Requests, Enqueue(q)
    PROVE  BackedInv'
<1> USE DEF history
<1>0. TypeInv /\ at = [r \in Requests |-> at[r]]
  BY DEF JobInv, TypeInv, TypeOK
<1>1. /\ jobs' = jobs /\ saves' = saves /\ queued \subseteq queued'
      /\ \A r \in Requests : r # q => at'[r] = at[r]
  BY <1>0 DEF Enqueue, Claims, ReadsOwner, Adds, ReadsClaim, Deletes, Go
<1>2. \A j \in jobs : j.req \in Requests /\ at[j.req] # "new"
  BY DEF JobInv, JobsQueued, QueuedNotNew, TypeInv, TypeOK
<1>3. ASSUME NEW j \in jobs, Claimed(j.req)'
      PROVE  orphans \subseteq orphans' /\ Claimed(j.req)
  BY <1>2, <1>3, ClaimsGrow
<1>4. ReplaySettled' /\ AckSettled'
  BY <1>1, <1>3 DEF BackedInv, ReplaySettled, AckSettled, Saved, Claimed, Claim
<1>5. ASSUME NEW r \in Requests, Claimed(r)'
      PROVE  r \in orphans' \cup queued' \/ at'[r] \in Claiming
  <2>1. /\ orphans \subseteq orphans'
        /\ Claimed(r) \/ (at[r] = "new" /\ (at'[r] = "add" \/ r \in orphans'))
    BY <1>5, ClaimsGrow
  <2>2. CASE ~Claimed(r)
    BY <2>1, <2>2 DEF Claiming
  <2>3. CASE Claimed(r) /\ r \in orphans \cup queued
    BY <1>1, <2>1, <2>3
  <2>4. CASE Claimed(r) /\ at[r] \in Claiming /\ r # q
    BY <1>1, <2>4
  <2>5. CASE Claimed(r) /\ at[r] \in Claiming /\ r = q
    <3>1. key.owner = r /\ key'.owner = r /\ Free.owner # r
      BY <1>5, <2>5, IdempotencyAssumption DEF Claimed, Claim, Free
    <3>2. CASE Adds(q)
      BY <1>0, <2>5, <3>2 DEF Adds, Go, Claiming
    <3>3. CASE ReadsClaim(q)
      BY <1>0, <2>5, <3>1, <3>3 DEF ReadsClaim, Go, OwnClaim, OrphanOwn, Claiming
    <3>4. CASE Deletes(q)
      BY <1>0, <2>5, <3>1, <3>4 DEF Deletes, OrphanOwn
    <3> QED
      BY <2>5, <3>2, <3>3, <3>4 DEF Enqueue, Claims, ReadsOwner, Claiming
  <2> QED
    BY <2>2, <2>3, <2>4, <2>5 DEF BackedInv, ClaimBacked
<1> QED
  BY <1>4, <1>5 DEF BackedInv, ClaimBacked, Claimed, Claim

\* A response that is executed answers the claim; one that fails orphans it.
LEMMA SavesBacked ==
    ASSUME JobInv, BackedInv, NEW g \in Gateways, Saves(g)
    PROVE  BackedInv'
<1> DEFINE s == saves[g]
<1>1. s \in Seq(ResponseType) /\ s # <<>> /\ Head(s) \in ResponseType
  BY HeadTailProperties DEF Saves, JobInv, TypeInv, TypeOK
<1>2. CASE key' = Head(s)
  <2>1. \A r : ~Claimed(r)'
    BY <1>1, <1>2 DEF ResponseType, Outcomes, Claimed, Claim
  <2> QED
    BY <2>1 DEF BackedInv, ReplaySettled, AckSettled, ClaimBacked
<1>3. CASE key' = key /\ OrphanOwn(Head(s).owner)
  <2>1. orphans \subseteq orphans' /\ (Claimed(Head(s).owner) => Head(s).owner \in orphans')
    BY <1>3 DEF OrphanOwn
  <2>2. jobs' = jobs /\ at' = at /\ queued' = queued
    BY DEF Saves
  <2>3. ASSUME NEW j \in jobs, j.pc = "ack", Claimed(j.req), Saved(j)
        PROVE  j.req \in orphans' \/ \E i \in DOMAIN saves'[j.gw] : saves'[j.gw][i].owner = j.req
    <3>0. j.gw \in Gateways /\ saves \in [Gateways -> Seq(ResponseType)]
      BY DEF JobInv, TypeInv, TypeOK, JobType
    <3>1. CASE j.gw # g
      <4>1. saves'[j.gw] = saves[j.gw]
        BY <3>0, <3>1 DEF Saves
      <4> QED
        BY <2>3, <4>1 DEF Saved
    <3>2. CASE j.gw = g
      <4>1. PICK i \in DOMAIN s : s[i].owner = j.req
        BY <2>3, <3>2 DEF Saved
      <4>2. CASE i = 1
        <5>1. Head(s).owner = j.req
          BY <1>1, <4>1, <4>2
        <5> QED
          BY <2>1, <2>3, <5>1
      <4>3. CASE i # 1
        <5>1. i \in 1 .. Len(s) /\ Len(Tail(s)) = Len(s) - 1 /\ Len(s) \in Nat
          BY <1>1, <4>1, HeadTailProperties, LenProperties
        <5>2. i - 1 \in 1 .. Len(Tail(s)) /\ (i - 1) + 1 = i
          BY <4>3, <5>1
        <5>3. Tail(s)[i - 1] = s[i]
          BY <1>1, <5>2, HeadTailProperties
        <5>4. DOMAIN Tail(s) = 1 .. Len(Tail(s))
          BY <1>1, HeadTailProperties, LenProperties
        <5>5. saves'[j.gw] = Tail(s)
          BY <3>0, <3>2 DEF Saves
        <5> QED
          BY <4>1, <5>2, <5>3, <5>4, <5>5
      <4> QED
        BY <4>2, <4>3
    <3> QED
      BY <3>1, <3>2
  <2> QED
    BY <1>3, <2>1, <2>2, <2>3 DEF BackedInv, ReplaySettled, AckSettled, ClaimBacked, Saved,
                                  Claimed, Claim
<1> QED
  BY <1>2, <1>3 DEF Saves

\* Every step keeps the claims backed.
LEMMA BackedStep ==
    ASSUME JobInv, BackedInv, [Next]_vars
    PROVE  BackedInv'
<1> USE DEF history
<1>1. CASE UNCHANGED vars
  BY <1>1 DEF vars, BackedInv, ReplaySettled, AckSettled, ClaimBacked, Saved, Claimed, Claim
<1>2. ASSUME NEW r \in Requests, Enqueue(r)
      PROVE  BackedInv'
  BY <1>2, EnqueueBacked
<1>3. ASSUME NEW r \in Requests, NEW g \in Gateways, Delivers(g, r)
      PROVE  BackedInv'
  BY <1>3 DEF Delivers, BackedInv, ReplaySettled, AckSettled, ClaimBacked, Saved, Claimed,
              Claim
<1>4. ASSUME NEW j \in jobs, Job(j)
      PROVE  BackedInv'
  BY <1>4, WorkBacked
<1>5. ASSUME NEW g \in Gateways, Saves(g)
      PROVE  BackedInv'
  BY <1>5, SavesBacked
<1>6. ASSUME NEW g \in Gateways, Crash(g)
      PROVE  BackedInv'
  <2>1. /\ key' = key /\ queued' = queued /\ orphans \subseteq orphans'
        /\ jobs' = {j \in jobs : j.gw # g}
    BY <1>6 DEF Crash
  <2>2. \A j \in jobs' : saves'[j.gw] = saves[j.gw]
    BY <1>6, <2>1 DEF Crash, JobInv, TypeInv, TypeOK, JobType
  <2>3. \A r \in Requests : at'[r] = at[r] \/ (Claimed(r) => r \in orphans')
    BY <1>6 DEF Crash
  <2> QED
    BY <2>1, <2>2, <2>3 DEF BackedInv, ReplaySettled, AckSettled, ClaimBacked, Saved, Claimed,
                            Claim
<1>7. CASE Expires
  <2>1. \A r \in Requests : ~Claimed(r)'
    BY <1>7, IdempotencyAssumption DEF Expires, Claimed, Claim, Free
  <2>2. \A j \in jobs : j.req \in Requests
    BY DEF JobInv, TypeInv, TypeOK, JobType
  <2> QED
    BY <1>7, <2>1, <2>2 DEF Expires, BackedInv, ReplaySettled, AckSettled, ClaimBacked
<1> QED
  BY <1>1, <1>2, <1>3, <1>4, <1>5, <1>6, <1>7 DEF Next, Work

\* No claim is left without someone who will answer or release it, but for the
\* orphans.
THEOREM ClaimsBacked == Spec => []ClaimBacked
<1>1. Init => JobInv /\ BackedInv
  <2>1. Init => BackedInv
    BY IdempotencyAssumption DEF Init, BackedInv, ReplaySettled, AckSettled, ClaimBacked,
                                 Claimed, Claim, Free
  <2> QED
    BY <2>1, JobInit
<1>2. JobInv /\ BackedInv /\ [Next]_vars => (JobInv /\ BackedInv)'
  BY TypeStep, JobStep, BackedStep DEF JobInv
<1>3. BackedInv => ClaimBacked
  BY DEF BackedInv
<1> QED
  BY <1>1, <1>2, <1>3, PTL DEF Spec

-----------------------------------------------------------------------------
(* An answer is kept.  Without faults a response on its way to Redis is the *)
(* only one, and its job waits behind it to acknowledge.                   *)

ClaimingOwns == \A r \in Requests : at[r] \in Claiming => key = Claim(r)
RunsUnanswered == \A j \in jobs : j.pc \in {"run", "finish"} => key.answer = "none"
BeforeAck(g, j) == j.gw = g /\ j.pc = "ack" /\ j.req = saves[g][1].owner
SavesOnce ==
    \A g \in Gateways : saves[g] # <<>> =>
        /\ Len(saves[g]) = 1
        /\ key.answer = "none"
        /\ \E j \in jobs : BeforeAck(g, j)
KeptInv == used["fault"] = 0 =>
               unsure = {} /\ ClaimingOwns /\ RunsUnanswered /\ SavesOnce

\* A step that leaves the fault counter at 0 was no fault, and none came before.
LEMMA NoFault ==
    ASSUME TypeInv, [Next]_vars, used'["fault"] = 0
    PROVE  used["fault"] = 0 /\ ~Spend("fault")
<1>1. used \in [Kinds -> Nat] /\ "fault" \in Kinds
  BY DEF TypeInv, TypeOK, Kinds
<1>2. used' = used \/ \E k \in Kinds : Spend(k)
  <2>1. ASSUME NEW r \in Requests, Enqueue(r)
        PROVE  used' = used \/ \E k \in Kinds : Spend(k)
    BY <2>1 DEF Enqueue, Claims, ReadsOwner, Adds, ReadsClaim, Deletes, Answered, Refused,
                ReplyLost, Executed, Failed, Kinds
  <2>2. ASSUME NEW r \in Requests, Work(r)
        PROVE  used' = used \/ \E k \in Kinds : Spend(k)
    BY <2>2 DEF Work, Delivers, Job, ChecksCache, Runs, Finishes, Replays, Acks, Answered,
                Refused, ReplyLost, Executed, Failed, Kinds
  <2> QED
    BY <2>1, <2>2 DEF Next, Saves, Crash, Expires, Kinds, vars
<1> QED
  BY <1>1, <1>2 DEF Spend

\* Without faults, all jobs work on the owner of the key, and so are one job.
LEMMA SoleJob ==
    ASSUME JobInv, OwnerInv, unsure = {}, NEW i \in jobs, NEW j \in jobs
    PROVE  i = j /\ i.req = key.owner
BY DEF JobInv, JobsQueued, OneJob, OwnerInv, Owned, Started, TypeInv, TypeOK, JobType

\* The steps of _enqueue keep answers.
LEMMA EnqueueKept ==
    ASSUME JobInv, OwnerInv, KeptInv, NEW r \in Requests, Enqueue(r),
           used["fault"] = 0, ~Spend("fault")
    PROVE  unsure' = {} /\ ClaimingOwns' /\ RunsUnanswered' /\ SavesOnce'
<1> USE DEF history, Go, Claiming, Answered, Refused, ReplyLost, Executed, Failed
<1>0. /\ unsure = {} /\ ClaimingOwns /\ RunsUnanswered /\ SavesOnce
      /\ at = [q \in Requests |-> at[q]] /\ jobs' = jobs /\ saves' = saves
  BY DEF KeptInv, JobInv, TypeInv, TypeOK, Enqueue, Claims, ReadsOwner, Adds, ReadsClaim,
         Deletes
<1>1. \A q \in Requests : Claim(q).owner = q /\ Claim(q) # Free /\ Claim(q).answer = "none"
  BY IdempotencyAssumption DEF Claim, Free
<1>2. Free.answer = "none"
  BY DEF Free
<1>3. unsure' = {}
  BY <1>0 DEF Enqueue, Claims, ReadsOwner, Adds, ReadsClaim, Deletes
<1>4. key' = key \/ key'.answer = "none"
  BY <1>1, <1>2 DEF Enqueue, Claims, ReadsOwner, Adds, ReadsClaim, Deletes
<1>5. RunsUnanswered' /\ SavesOnce'
  BY <1>0, <1>4 DEF RunsUnanswered, SavesOnce, BeforeAck
<1>6. ClaimingOwns'
  <2>1. CASE Claims(r)
    BY <1>0, <1>1, <2>1 DEF ClaimingOwns, Claims, Unclaimed
  <2>2. CASE ReadsOwner(r)
    BY <1>0, <2>2 DEF ClaimingOwns, ReadsOwner
  <2>3. CASE Adds(r)
    BY <1>0, <2>3 DEF ClaimingOwns, Adds
  <2>4. CASE ReadsClaim(r)
    BY <1>0, <2>4 DEF ClaimingOwns, ReadsClaim
  <2>5. CASE Deletes(r)
    BY <1>0, <1>1, <2>5 DEF ClaimingOwns, Deletes
  <2> QED
    BY <2>1, <2>2, <2>3, <2>4, <2>5 DEF Enqueue
<1> QED
  BY <1>3, <1>5, <1>6

\* The steps of a job keep answers.
LEMMA JobKept ==
    ASSUME JobInv, OwnerInv, KeptInv, NEW j \in jobs, Job(j),
           used["fault"] = 0, ~Spend("fault")
    PROVE  unsure' = {} /\ ClaimingOwns' /\ RunsUnanswered' /\ SavesOnce'
<1> USE DEF history, Answered, Refused, ReplyLost, Executed, Failed
<1>0. /\ unsure = {} /\ ClaimingOwns /\ RunsUnanswered /\ SavesOnce
      /\ key' = key /\ at' = at /\ unsure' = unsure
      /\ saves \in [Gateways -> Seq(ResponseType)] /\ j \in JobType /\ j.gw \in Gateways
  BY DEF KeptInv, JobInv, TypeInv, TypeOK, JobType, Job, ChecksCache, Runs, Finishes,
         Replays, Acks
<1>1. jobs = {j}
  BY <1>0, SoleJob
<1>2. ClaimingOwns'
  BY <1>0 DEF ClaimingOwns
<1>3. \A g \in Gateways : saves[g] # <<>> => j.pc = "ack" /\ j.gw = g
  BY <1>0, <1>1 DEF SavesOnce, BeforeAck
<1>4. \A pc, res : /\ To(j, pc, res).pc = pc /\ To(j, pc, res).gw = j.gw
                   /\ To(j, pc, res).req = j.req
  BY <1>0 DEF To, JobType
<1>5. CASE ChecksCache(j)
  <2>1. saves' = saves /\ \A g \in Gateways : saves[g] = <<>>
    BY <1>3, <1>5 DEF ChecksCache
  <2>2. \A k \in jobs' : k.pc \in {"run", "finish"} => key.answer = "none"
    BY <1>1, <1>4, <1>5 DEF ChecksCache, Move, Leave, NotAnswered
  <2> QED
    BY <1>0, <1>2, <2>1, <2>2 DEF RunsUnanswered, SavesOnce
<1>6. CASE Runs(j)
  <2>1. saves' = saves /\ \A g \in Gateways : saves[g] = <<>>
    BY <1>3, <1>6 DEF Runs
  <2>2. key.answer = "none"
    BY <1>0, <1>6 DEF Runs, RunsUnanswered
  <2> QED
    BY <1>0, <1>2, <2>1, <2>2 DEF RunsUnanswered, SavesOnce
<1>7. CASE Finishes(j)
  <2>1. \A g \in Gateways : saves[g] = <<>>
    BY <1>3, <1>7 DEF Finishes
  <2>2. key.answer = "none"
    BY <1>0, <1>7 DEF Finishes, RunsUnanswered
  <2>3. saves' = [saves EXCEPT ![j.gw] = Append(@, Response(j))]
    BY <1>7 DEF Finishes, Issue
  <2>4. \A g \in Gateways : g # j.gw => saves'[g] = <<>>
    BY <1>0, <2>1, <2>3
  <2>5. saves'[j.gw] = Append(<<>>, Response(j))
    BY <1>0, <2>1, <2>3
  <2>6. saves'[j.gw] = <<Response(j)>>
    BY <2>5
  <2>7. Len(saves'[j.gw]) = 1 /\ Head(saves'[j.gw]) = Response(j) /\ saves'[j.gw] # <<>>
    BY <2>6
  <2>8. To(j, "ack", j.res) \in jobs'
    BY <1>7 DEF Finishes, Move
  <2>9. BeforeAck(j.gw, To(j, "ack", j.res))'
    BY <1>4, <2>7 DEF BeforeAck, Response
  <2>10. SavesOnce'
    BY <1>0, <2>2, <2>4, <2>7, <2>8, <2>9 DEF SavesOnce
  <2> QED
    BY <1>0, <1>2, <2>2, <2>10 DEF RunsUnanswered
<1>8. CASE Replays(j)
  <2>1. saves' = saves /\ \A g \in Gateways : saves[g] = <<>>
    BY <1>3, <1>8 DEF Replays
  <2>2. \A k \in jobs' : k.pc = "ack"
    BY <1>1, <1>4, <1>8 DEF Replays, Move
  <2> QED
    BY <1>0, <1>2, <2>1, <2>2 DEF RunsUnanswered, SavesOnce
<1>9. CASE Acks(j)
  <2>1. saves' = saves /\ saves[j.gw] = <<>> /\ jobs' = {}
    BY <1>1, <1>9 DEF Acks, Leave
  <2> QED
    BY <1>0, <1>2, <1>3, <2>1 DEF RunsUnanswered, SavesOnce
<1> QED
  BY <1>5, <1>6, <1>7, <1>8, <1>9 DEF Job

\* The one response on its way answers the claim.
LEMMA SavesKept ==
    ASSUME JobInv, OwnerInv, KeptInv, NEW g \in Gateways, Saves(g),
           used["fault"] = 0, ~Spend("fault")
    PROVE  unsure' = {} /\ ClaimingOwns' /\ RunsUnanswered' /\ SavesOnce'
<1> USE DEF history
<1>0. /\ unsure = {} /\ unsure' = {} /\ at' = at /\ jobs' = jobs
      /\ ClaimingOwns /\ RunsUnanswered /\ SavesOnce
      /\ saves \in [Gateways -> Seq(ResponseType)] /\ saves[g] # <<>>
  BY DEF KeptInv, Saves, JobInv, TypeInv, TypeOK
<1>1. PICK j \in jobs : BeforeAck(g, j)
  BY <1>0 DEF SavesOnce
<1>2. jobs = {j} /\ j.req = key.owner /\ j.pc = "ack" /\ j.gw = g
  BY <1>0, <1>1, SoleJob DEF BeforeAck
<1>3. \A h \in Gateways : h # g => saves[h] = <<>>
  BY <1>0, <1>2 DEF SavesOnce, BeforeAck
<1>4. \A h \in Gateways : saves'[h] = <<>>
  <2>1. Len(saves[g]) = 1
    BY <1>0 DEF SavesOnce
  <2>2. Tail(saves[g]) \in Seq(ResponseType) /\ Len(Tail(saves[g])) = 0
    BY <1>0, <2>1, HeadTailProperties
  <2>3. Tail(saves[g]) = <<>>
    BY <2>2, EmptySeq
  <2> QED
    BY <1>0, <1>3, <2>3 DEF Saves
<1>5. j.req \in queued /\ j.req \in Requests
  BY DEF JobInv, JobsQueued, TypeInv, TypeOK, JobType
<1>6. \A r \in Requests : at[r] \notin Claiming
  BY <1>0, <1>2, <1>5 DEF OwnerInv, PastRelease, Owned, Started, Claiming
<1> QED
  BY <1>0, <1>2, <1>4, <1>6 DEF ClaimingOwns, RunsUnanswered, SavesOnce

\* Every step keeps answers.
LEMMA KeptStep ==
    ASSUME JobInv, OwnerInv, KeptInv, [Next]_vars
    PROVE  KeptInv'
<1> USE DEF history
<1> SUFFICES ASSUME used'["fault"] = 0
             PROVE  unsure' = {} /\ ClaimingOwns' /\ RunsUnanswered' /\ SavesOnce'
  BY DEF KeptInv
<1>0. used["fault"] = 0 /\ ~Spend("fault")
  BY NoFault DEF JobInv
<1>00. unsure = {} /\ ClaimingOwns /\ RunsUnanswered /\ SavesOnce
  BY <1>0 DEF KeptInv
<1>1. CASE UNCHANGED vars
  BY <1>00, <1>1 DEF vars, ClaimingOwns, RunsUnanswered, SavesOnce, BeforeAck
<1>2. ASSUME NEW r \in Requests, Enqueue(r)
      PROVE  unsure' = {} /\ ClaimingOwns' /\ RunsUnanswered' /\ SavesOnce'
  BY <1>0, <1>2, EnqueueKept
<1>3. ASSUME NEW r \in Requests, NEW g \in Gateways, Delivers(g, r)
      PROVE  unsure' = {} /\ ClaimingOwns' /\ RunsUnanswered' /\ SavesOnce'
  BY <1>00, <1>3 DEF Delivers, ClaimingOwns, RunsUnanswered, SavesOnce, BeforeAck
<1>4. ASSUME NEW j \in jobs, Job(j)
      PROVE  unsure' = {} /\ ClaimingOwns' /\ RunsUnanswered' /\ SavesOnce'
  BY <1>0, <1>4, JobKept
<1>5. ASSUME NEW g \in Gateways, Saves(g)
      PROVE  unsure' = {} /\ ClaimingOwns' /\ RunsUnanswered' /\ SavesOnce'
  BY <1>0, <1>5, SavesKept
<1>6. ASSUME NEW g \in Gateways, Crash(g)
      PROVE  unsure' = {} /\ ClaimingOwns' /\ RunsUnanswered' /\ SavesOnce'
  <2>1. /\ key' = key /\ unsure' = unsure
        /\ jobs' = {j \in jobs : j.gw # g}
        /\ saves' = [saves EXCEPT ![g] = <<>>] /\ saves \in [Gateways -> Seq(ResponseType)]
        /\ \A r \in Requests : at'[r] = at[r] \/ at'[r] = "refused"
    BY <1>6 DEF Crash, JobInv, TypeInv, TypeOK
  <2>2. ClaimingOwns'
    BY <1>00, <2>1 DEF ClaimingOwns, Claiming, Claim
  <2>3. \A h \in Gateways : saves'[h] # <<>> => h # g /\ saves'[h] = saves[h]
    BY <2>1
  <2> QED
    BY <1>00, <2>1, <2>2, <2>3 DEF RunsUnanswered, SavesOnce, BeforeAck
<1>7. CASE Expires
  <2>1. jobs = {} /\ jobs' = jobs /\ saves' = saves /\ at' = at /\ unsure' = unsure
    BY <1>7 DEF Expires, AtWork, JobInv, JobsQueued
  <2> QED
    BY <1>00, <1>7, <2>1 DEF Expires, AtWork, ClaimingOwns, RunsUnanswered, SavesOnce
<1> QED
  BY <1>1, <1>2, <1>3, <1>4, <1>5, <1>6, <1>7 DEF Next, Work

\* Without faults, a stored answer is neither replaced nor removed before it
\* expires.
THEOREM AnswersKept == Spec => AnswerKept
<1>1. Init => JobInv /\ OwnerInv /\ KeptInv
  <2>1. Init => KeptInv
    BY DEF Init, KeptInv, ClaimingOwns, RunsUnanswered, SavesOnce, Claiming
  <2> QED
    BY <2>1, JobInit, OwnerInit
<1>2. JobInv /\ OwnerInv /\ KeptInv /\ [Next]_vars => (JobInv /\ OwnerInv /\ KeptInv)'
  BY TypeStep, JobStep, OwnerStep, KeptStep DEF JobInv
<1>3. JobInv /\ OwnerInv /\ KeptInv /\ [Next]_vars =>
        [used'["fault"] = 0 /\ key.answer # "none" /\ used'["expiry"] = used["expiry"]
           => UNCHANGED key]_vars
  <2> SUFFICES ASSUME JobInv, OwnerInv, KeptInv, Next, used'["fault"] = 0,
                      key.answer # "none", used'["expiry"] = used["expiry"]
               PROVE  key' = key
    BY DEF vars
  <2>1. unsure = {} /\ ClaimingOwns /\ SavesOnce
    BY NoFault DEF KeptInv, JobInv
  <2>2. ASSUME NEW r \in Requests, Enqueue(r)
        PROVE  key' = key
    <3>1. key # Free /\ key # Claim(r)
      BY DEF Free, Claim
    <3>2. at[r] \notin Claiming
      BY <2>1, <3>1 DEF ClaimingOwns
    <3> QED
      BY <2>2, <3>1, <3>2 DEF Enqueue, Claims, Unclaimed, ReadsOwner, Adds, ReadsClaim,
                              Deletes, Claiming
  <2>3. ASSUME NEW r \in Requests, Work(r)
        PROVE  key' = key
    BY <2>3 DEF Work, Delivers, Job, ChecksCache, Runs, Finishes, Replays, Acks
  <2>4. ASSUME NEW g \in Gateways, Saves(g) \/ Crash(g)
        PROVE  key' = key
    BY <2>1, <2>4 DEF Saves, Crash, SavesOnce
  <2>5. ~Expires
    BY DEF Expires, Spend, JobInv, TypeInv, TypeOK, Kinds
  <2> QED
    BY <2>2, <2>3, <2>4, <2>5 DEF Next
<1> QED
  BY <1>1, <1>2, <1>3, PTL DEF Spec, AnswerKept
=============================================================================
