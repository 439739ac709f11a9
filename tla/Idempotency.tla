---------------------------- MODULE Idempotency ----------------------------
(***************************************************************************)
(* One idempotency key of one POD in Redis: claimed by SET NX when a       *)
(* request arrives (lib/gateway-server.js, _enqueue), released by GET and  *)
(* DEL when the request cannot be queued, overwritten with the response    *)
(* when it has run (_finish, not awaited), and read before it is run again *)
(* (_handleQueuedItem).  All Requests carry the key; they may arrive on    *)
(* different gateways, and each step is one Redis command.                 *)
(*                                                                         *)
(* The queue itself is that of StreamQueue, reduced to what it promises:   *)
(* an entry stays until it is acknowledged and is never worked on twice at *)
(* a time (NoAcceptedLoss, NoDoubleDispatch).                              *)
(***************************************************************************)
EXTENDS Integers, Sequences, FiniteSets

CONSTANTS
    Requests,   \* requests that carry the key
    Gateways,   \* gateway processes sharing one Redis
    HomeOf,     \* the gateway whose WebSocket a request arrives on
    None,       \* no owner
    Limit       \* how often each kind of disturbance happens, at most

Kinds == {"crash", "fault", "full", "deferral", "expiry"}

ASSUME IdempotencyAssumption ==
    /\ HomeOf \in [Requests -> Gateways]
    /\ None \notin Requests
    /\ Limit \in [Kinds -> Nat]

VARIABLES
    key,        \* the value under the idempotency key
    queued,     \* requests with an entry or a retry token in Redis
    at,         \* where _enqueue stands for each request, or how it ended
    jobs,       \* the items that _handleQueuedItem and _finish work on
    saves,      \* SETs of responses that were issued and not executed yet
    used,       \* disturbances so far
    \* history, read by properties only
    orphans,    \* requests whose claim lost what would answer or release it
    unsure      \* requests that are queued and were told otherwise

vars == <<key, queued, at, jobs, saves, used, orphans, unsure>>
history == <<orphans, unsure>>

Free == [owner |-> None, answer |-> "none"]
Claim(r) == [owner |-> r, answer |-> "none"]
Outcomes == {"ok", "err"}
Claimed(r) == key = Claim(r)

Go(r, s) == at' = [at EXCEPT ![r] = s]
Orphan(r) == orphans' = orphans \cup {r}
OrphanOwn(r) == orphans' = IF Claimed(r) THEN orphans \cup {r} ELSE orphans

-----------------------------------------------------------------------------
(* What a command of gateway g can come to.  Its connection executes       *)
(* commands in the order they were issued, so a SET that nobody awaits     *)
(* comes before the commands issued after it.  An outage is as many faults *)
(* as there are commands it hits.                                          *)

Spend(k) == used[k] < Limit[k] /\ used' = [used EXCEPT ![k] = @ + 1]

Answered(g) == saves[g] = <<>> /\ UNCHANGED used
Refused(g) == Spend("fault")
ReplyLost(g) == saves[g] = <<>> /\ Spend("fault")
Executed(g) == Answered(g) \/ ReplyLost(g)
Failed(g) == Refused(g) \/ ReplyLost(g)

-----------------------------------------------------------------------------
(* _enqueue: claim, add, or release.                                       *)

\* SET NX: whoever finds the key free owns it.
ClaimsAnyway == TRUE                         \* slip: SET without NX
Unclaimed == key = Free
Claims(r) ==
    /\ at[r] = "new"
    /\ \/ Answered(HomeOf[r]) /\ Unclaimed
          /\ key' = Claim(r) /\ Go(r, "add") /\ UNCHANGED orphans
       \/ Answered(HomeOf[r]) /\ ~Unclaimed
          /\ Go(r, "read") /\ UNCHANGED <<key, orphans>>
       \/ ReplyLost(HomeOf[r]) /\ Unclaimed
          /\ key' = Claim(r) /\ Go(r, "refused") /\ Orphan(r)
       \/ Failed(HomeOf[r]) /\ Go(r, "refused") /\ UNCHANGED <<key, orphans>>
    /\ UNCHANGED <<queued, jobs, saves, unsure>>

\* GET by one that found the key taken: it is served from the stored response,
\* or told that it duplicates the owner, even when the key is free again.
ReadsOwner(r) ==
    /\ at[r] = "read"
    /\ \/ Answered(HomeOf[r])
          /\ Go(r, IF key.answer = "none" THEN "duplicate" ELSE "served")
       \/ Failed(HomeOf[r]) /\ Go(r, "refused")
    /\ UNCHANGED <<key, queued, jobs, saves, history>>

\* enqueue(): queued, or turned away by QUEUE_FULL or an error, in doubt if
\* the reply of XADD is what was lost.
Adds(r) ==
    /\ at[r] = "add"
    /\ \/ /\ Answered(HomeOf[r])
          /\ queued' = queued \cup {r} /\ Go(r, "accepted") /\ UNCHANGED unsure
       \/ /\ ReplyLost(HomeOf[r])
          /\ queued' = queued \cup {r} /\ Go(r, "release") /\ unsure' = unsure \cup {r}
       \/ /\ Refused(HomeOf[r]) \/ (saves[HomeOf[r]] = <<>> /\ Spend("full"))
          /\ Go(r, "release") /\ UNCHANGED <<queued, unsure>>
    /\ UNCHANGED <<key, jobs, saves, orphans>>

\* releaseIdempotency: GET, and DEL of a claim that is still one's own.
OthersClaim(r) == key.owner # r              \* slip: the test is inverted
OwnClaim(r) == key.owner = r
ReadsClaim(r) ==
    /\ at[r] = "release"
    /\ \/ /\ Answered(HomeOf[r])
          /\ Go(r, IF OwnClaim(r) THEN "delete" ELSE "rejected")
          /\ UNCHANGED orphans
       \/ Failed(HomeOf[r]) /\ Go(r, "rejected") /\ OrphanOwn(r)
    /\ UNCHANGED <<key, queued, jobs, saves, unsure>>
Deletes(r) ==
    /\ at[r] = "delete"
    /\ Go(r, "rejected")
    /\ \/ Executed(HomeOf[r]) /\ key' = Free /\ UNCHANGED orphans
       \/ Refused(HomeOf[r]) /\ OrphanOwn(r) /\ UNCHANGED key
    /\ UNCHANGED <<queued, jobs, saves, unsure>>

-----------------------------------------------------------------------------
(* A queued request is delivered, checked against the key, run, answered   *)
(* and acknowledged.                                                       *)

Move(j, k) == jobs' = (jobs \ {j}) \cup {k}
Leave(j) == jobs' = jobs \ {j}
To(j, pc, res) == [j EXCEPT !.pc = pc, !.res = res]

Delivers(g, r) ==
    /\ r \in queued
    /\ \A j \in jobs : j.req # r
    /\ jobs' = jobs \cup {[req |-> r, gw |-> g, pc |-> "cache", res |-> "none"]}
    /\ UNCHANGED <<key, queued, at, saves, used, history>>

\* GET of the stored response, which is delivered instead of a second run.
RunsAgain == TRUE                            \* slip: the lookup is left out
NotAnswered == key.answer = "none"
ChecksCache(j) ==
    /\ j.pc = "cache"
    /\ \/ /\ Answered(j.gw)
          /\ Move(j, IF NotAnswered THEN To(j, "run", "none")
                     ELSE To(j, "replay", key.answer))
       \/ Failed(j.gw) /\ Leave(j)
    /\ UNCHANGED <<key, queued, at, saves, history>>

\* The limiter, the adapter, the retry decision: an answer, or a retry that
\* will be delivered again.
Runs(j) ==
    /\ j.pc = "run"
    /\ \/ \E o \in Outcomes : Move(j, To(j, "finish", o)) /\ UNCHANGED used
       \/ Spend("deferral") /\ Leave(j)
    /\ UNCHANGED <<key, queued, at, saves, history>>

\* _finish issues the SET and delivers; when a successful result cannot be
\* delivered, _execute finishes the item again, with an error.
Response(j) == [owner |-> j.req, answer |-> j.res]
StoresNothing(j) == saves                    \* slip: the response is not stored
Issue(j) == [saves EXCEPT ![j.gw] = Append(@, Response(j))]
Finishes(j) ==
    /\ j.pc = "finish"
    /\ saves' = Issue(j)
    /\ \/ Move(j, To(j, "ack", j.res)) /\ UNCHANGED used
       \/ Spend("fault") /\ IF j.res = "ok" THEN Move(j, To(j, "finish", "err"))
                            ELSE Leave(j)
    /\ UNCHANGED <<key, queued, at, history>>
Replays(j) ==
    /\ j.pc = "replay"
    /\ \/ Move(j, To(j, "ack", j.res)) /\ UNCHANGED used
       \/ Spend("fault") /\ Leave(j)
    /\ UNCHANGED <<key, queued, at, saves, history>>

\* The SET that nobody awaits is executed, or fails with a warning.
Saves(g) ==
    /\ saves[g] # <<>>
    /\ saves' = [saves EXCEPT ![g] = Tail(@)]
    /\ LET r == Head(saves[g]).owner
       IN  \/ key' = Head(saves[g]) /\ UNCHANGED <<used, orphans>>
           \/ Spend("fault") /\ OrphanOwn(r) /\ UNCHANGED key
    /\ UNCHANGED <<queued, at, jobs, unsure>>

\* XACK; an error leaves the entry to be delivered again.
Acks(j) ==
    /\ j.pc = "ack"
    /\ Leave(j)
    /\ \/ Executed(j.gw) /\ queued' = queued \ {j.req}
       \/ Refused(j.gw) /\ UNCHANGED queued
    /\ UNCHANGED <<key, at, saves, history>>

-----------------------------------------------------------------------------
\* A gateway dies and is started again: what it was doing for a request that
\* is not queued ends here, and SETs in flight are gone.
Claiming == {"add", "release", "delete"}
InFlight == Claiming \cup {"read"}
Crash(g) ==
    LET gone == {r \in Requests : HomeOf[r] = g /\ at[r] \in InFlight}
    IN  /\ Spend("crash")
        /\ at' = [r \in Requests |-> IF r \in gone THEN "refused" ELSE at[r]]
        /\ jobs' = {j \in jobs : j.gw # g}
        /\ saves' = [saves EXCEPT ![g] = <<>>]
        /\ orphans' = orphans \cup {r \in gone : Claimed(r)}
        /\ UNCHANGED <<key, queued, unsure>>

\* resultTtlSeconds is over.  It is set "longer than the period in which a
\* duplicate request must be recognized" (README.md:480): nothing that the key
\* stands for is under way any more.
AtWork == queued \cup {r \in Requests : at[r] \in Claiming}
Expires ==
    /\ key # Free
    /\ AtWork = {}
    /\ \A g \in Gateways : saves[g] = <<>>
    /\ Spend("expiry")
    /\ key' = Free
    /\ UNCHANGED <<queued, at, jobs, saves, history>>

-----------------------------------------------------------------------------
Init ==
    /\ key = Free
    /\ queued = {}
    /\ at = [r \in Requests |-> "new"]
    /\ jobs = {}
    /\ saves = [g \in Gateways |-> <<>>]
    /\ used = [k \in Kinds |-> 0]
    /\ orphans = {}
    /\ unsure = {}

Enqueue(r) == Claims(r) \/ ReadsOwner(r) \/ Adds(r) \/ ReadsClaim(r) \/ Deletes(r)
Job(j) == \/ ChecksCache(j) \/ Runs(j) \/ Finishes(j) \/ Replays(j) \/ Acks(j)
Work(r) == (\E g \in Gateways : Delivers(g, r)) \/ \E j \in jobs : j.req = r /\ Job(j)

Next == \/ \E r \in Requests : Enqueue(r) \/ Work(r)
        \/ \E g \in Gateways : Saves(g) \/ Crash(g)
        \/ Expires

\* Awaits end, entries are delivered, and issued commands are executed.
Fairness == /\ \A r \in Requests : WF_vars(Enqueue(r)) /\ WF_vars(Work(r))
            /\ \A g \in Gateways : WF_vars(Saves(g))
Spec == Init /\ [][Next]_vars /\ Fairness

-----------------------------------------------------------------------------
JobType == [req: Requests, gw: Gateways, res: Outcomes \cup {"none"},
            pc: {"cache", "run", "finish", "replay", "ack"}]
ResponseType == [owner: Requests, answer: Outcomes]

\* Every variable stays in its range; a stored response names its request.
TypeOK ==
    /\ key \in {Free} \cup [owner: Requests, answer: Outcomes \cup {"none"}]
    /\ queued \subseteq Requests
    /\ at \in [Requests -> InFlight \cup {"new", "accepted", "duplicate", "served",
                                          "refused", "rejected"}]
    /\ jobs \subseteq JobType
    /\ saves \in [Gateways -> Seq(ResponseType)]
    /\ used \in [Kinds -> Nat]
    /\ orphans \subseteq Requests
    /\ unsure \subseteq Requests

\* Of all requests with the key only its owner is, or will be, queued, so that
\* duplicates never run beside it, whichever crash or fault hits a claim, a
\* release or a store; only an XADD whose reply is lost breaks it, since its
\* request is queued and its claim released.
OneInFlight ==
    unsure = {} => queued \cup {r \in Requests : at[r] = "add"} \subseteq {key.owner}

\* An answer that is stored stays until it expires: no late release, claim,
\* store or second run after a crash takes it back or replaces it.  (A fault can:
\* the answer to a call whose result could not be delivered is replaced.)
AnswerKept ==
    [][used'["fault"] = 0 /\ key.answer # "none" /\ used'["expiry"] = used["expiry"]
       => UNCHANGED key]_vars

\* A claim without an answer is backed by a request that will answer or release
\* it, so that its duplicates do not wait for the TTL.  The exceptions are the
\* orphans: a claim, release or store that failed, or a crash before the request
\* is queued.  A crash while it is queued or runs is none of them, although the
\* store is not awaited: on its connection it comes before the XACK, so that the
\* entry outlives the claim.
ClaimBacked ==
    \A r \in Requests :
        Claimed(r) => r \in orphans \cup queued \/ at[r] \in Claiming

\* A claim ends in an answer or in its release, unless it is an orphan.
ClaimEnds == \A r \in Requests : Claimed(r) ~> ~Claimed(r) \/ r \in orphans
=============================================================================
