-------------------------- MODULE StreamQueueRuns --------------------------
(* StreamQueue with a record of the calls it really makes to the API, to   *)
(* set the counters in tokens, entries and jobs against what happened.     *)
EXTENDS StreamQueueProperties

VARIABLES
    runs,       \* history: how often the API was called for each request
    drops       \* history: how often an entry was in hand and given up

Called(r) == \E j \in jobs' \ jobs : j.entry.req = r /\ j.pc = "call"

\* The jobs that end in this step and leave their entry pending: the process
\* crashed, or a command failed and _dispatch skipped the XACK.
Dropped(r) == {j \in jobs : /\ j.entry.req = r
                            /\ j.entry \in pel'
                            /\ \A k \in jobs' : k.entry # j.entry}
Record ==
    /\ runs' = [r \in Requests |-> IF Called(r) THEN runs[r] + 1 ELSE runs[r]]
    /\ drops' = [r \in Requests |-> drops[r] + Cardinality(Dropped(r))]

RunsInit == /\ Init
            /\ runs = [r \in Requests |-> 0]
            /\ drops = [r \in Requests |-> 0]
RunsNext == Next /\ Record
RunsSpec == RunsInit /\ [][RunsNext]_<<vars, runs, drops>>

-----------------------------------------------------------------------------
\* The calls a request may get: the first one and its retries.
Series == MaxAttempts + 1

\* The API is called for a request at most once and MaxAttempts times again,
\* however often rate limits and retryable errors park it and whichever gateway
\* promotes it.  A gateway that gives up an entry in hand, after a crash or a
\* failed command, costs at most one more series: the entry starts over with
\* the count it was stored with, perhaps beside the token that was parked.
RetriesBounded == \A r \in Requests : runs[r] <= Series * (1 + drops[r])

\* Every copy of a request that may still run it: its token, an entry no gateway
\* has read, and a job that has not parked or answered it yet.
BeforeOutcome == {"cache", "limit", "call", "defer"}
Counts(r) ==
    ({retry[r]} \ {NotScheduled})
    \cup {e.attempts : e \in {f \in fresh : f.req = r}}
    \cup {j.attempts : j \in {k \in jobs : k.entry.req = r /\ k.pc \in BeforeOutcome}}

\* The count travels with the payload through token, entry and job, from
\* gateway to gateway: no copy counts a call that was not made, and as long as
\* nothing failed each copy counts every one of them.
CountTravels ==
    \A r \in Requests : \A n \in Counts(r) :
        n <= runs[r] /\ (used["crash"] + used["fault"] = 0 => n = runs[r])
=============================================================================
