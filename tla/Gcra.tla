-------------------------------- MODULE Gcra --------------------------------
(***************************************************************************)
(* The rate limiters, lib/redis-rate-limiter.js and its in-memory twin:    *)
(* the generic cell rate algorithm.  A bucket is one number, the           *)
(* theoretical arrival time (tat) up to which its budget is spent; the     *)
(* Redis key that holds it expires.  Time is counted in ticks of which the *)
(* emission intervals and the millisecond are multiples: TIME tells        *)
(* fractions and what is computed from it is not rounded, but a caller is  *)
(* told whole milliseconds, and a key lives for whole milliseconds.  The   *)
(* cost is 1, as both callers pass.                                        *)
(***************************************************************************)
EXTENDS Integers

CONSTANTS
    Calls,          \* kinds of calls, [service, operation, own]
    Limits,         \* names with an entry in the limits; own: the adapter's
    Buckets,        \* the names of the buckets
    Millisecond,    \* its length in ticks
    Emission,       \* 1000 / rate of each bucket, in ticks
    Burst,          \* burst of each bucket
    Grace,          \* the constant part of a key's time to live, in milliseconds
    Horizon         \* the clock stops here

NoLimit == "none"

ASSUME BucketsAssumption ==
    /\ NoLimit \notin Buckets
    /\ Millisecond \in Nat \ {0}
    /\ Emission \in [Buckets -> Nat \ {0}]
    /\ Burst \in [Buckets -> Nat \ {0}]
    /\ Grace \in Nat \ {0}
    /\ Horizon \in Nat

VARIABLES
    now,            \* TIME of Redis
    tat,            \* the field of that name, NoKey when there is no key
    expiry,         \* when the key expires
    \* what callers see
    decision,       \* allowed or not, of the last call
    advice,         \* when retryAfterMs of the last refusal is over, None after a grant
    \* history: a window an observer opens at any time
    opened, granted

vars == <<now, tat, expiry, decision, advice, opened, granted>>

NoKey == -1
None == -1
Tolerance(b) == Emission[b] * Burst[b]

\* selectLimit and the adapter's own limit: operation, service, default.
SelectLimit(c) ==
    IF c.own \/ c.operation \in Limits THEN c.operation
    ELSE IF c.service \in Limits THEN c.service
    ELSE IF "default" \in Limits THEN "default" ELSE NoLimit

\* The budget spent so far; a missing or past tat counts as now.
KeepsPast(b) == IF tat[b] = NoKey THEN now ELSE tat[b]  \* slip: idle time saved up
Base(b) == IF tat[b] < now THEN now ELSE tat[b]
NextTat(b) == Base(b) + Emission[b]

\* How long until the call conforms (allowAt - now), and what a refusal says of
\* it: math.ceil, in milliseconds.
Ceil(ticks) == (ticks + Millisecond - 1) \div Millisecond
OneTooLong(b) == NextTat(b) - Tolerance(b) - now + 1    \* slip: > for >=
Wait(b) == NextTat(b) - Tolerance(b) - now
RoundedDown(b) == Wait(b) \div Millisecond    \* slip: floor
RetryAfterMs(b) == Ceil(Wait(b))

TimeToLive(b) == (Ceil(2 * Tolerance(b)) + Grace) * Millisecond

\* One run of the script.
Grant(b) ==
    /\ Wait(b) <= 0
    /\ tat' = [tat EXCEPT ![b] = NextTat(b)]
    /\ expiry' = [expiry EXCEPT ![b] = now + TimeToLive(b)]
    /\ decision' = [decision EXCEPT ![b] = "granted"]
    /\ advice' = [advice EXCEPT ![b] = None]
    /\ granted' = [granted EXCEPT ![b] = @ + 1]
    /\ UNCHANGED <<now, opened>>
Refuse(b) ==
    /\ Wait(b) > 0
    /\ decision' = [decision EXCEPT ![b] = "refused"]
    /\ advice' = [advice EXCEPT ![b] = now + RetryAfterMs(b) * Millisecond]
    /\ UNCHANGED <<now, tat, expiry, opened, granted>>
Allow(c) == /\ SelectLimit(c) \in Buckets
            /\ Grant(SelectLimit(c)) \/ Refuse(SelectLimit(c))

\* Time passes, and Redis drops the keys that are due.
Expired(b) == tat[b] # NoKey /\ expiry[b] <= now + 1
Tick ==
    /\ now < Horizon
    /\ now' = now + 1
    /\ tat' = [b \in Buckets |-> IF Expired(b) THEN NoKey ELSE tat[b]]
    /\ UNCHANGED <<expiry, decision, advice, opened, granted>>

OpenWindow(b) ==
    /\ opened' = [opened EXCEPT ![b] = now]
    /\ granted' = [granted EXCEPT ![b] = 0]
    /\ UNCHANGED <<now, tat, expiry, decision, advice>>

Init ==
    /\ now = 0
    /\ tat = [b \in Buckets |-> NoKey]
    /\ expiry = [b \in Buckets |-> 0]
    /\ decision = [b \in Buckets |-> "none"]
    /\ advice = [b \in Buckets |-> None]
    /\ opened = [b \in Buckets |-> 0]
    /\ granted = [b \in Buckets |-> 0]

Next == \/ \E c \in Calls : Allow(c)
        \/ \E b \in Buckets : OpenWindow(b)
        \/ Tick

Spec == Init /\ [][Next]_vars

-----------------------------------------------------------------------------
TypeOK ==
    /\ now \in Nat
    /\ tat \in [Buckets -> Nat \cup {NoKey}]
    /\ \A b \in Buckets : tat[b] <= now + Tolerance(b)
    /\ expiry \in [Buckets -> Nat]
    /\ decision \in [Buckets -> {"none", "granted", "refused"}]
    /\ advice \in [Buckets -> Nat \cup {None}]
    /\ opened \in [Buckets -> Nat]
    /\ granted \in [Buckets -> Nat]

\* README.md:269 promises a sustained rate and a short burst: in no window of
\* time, wherever it begins, are more calls granted than its length at the
\* rate, plus the burst.
RateBound ==
    \A b \in Buckets : granted[b] * Emission[b] <= now - opened[b] + Tolerance(b)

\* retryAfterMs is exact to the millisecond: unless others are granted first, a
\* refused caller is granted when it comes back after that many milliseconds, and
\* is refused again when it comes a whole millisecond earlier.
RetryAfterExact ==
    \A b \in Buckets : advice[b] # None =>
        /\ now >= advice[b] => Wait(b) <= 0
        /\ now <= advice[b] - Millisecond => Wait(b) > 0

\* The time to live never forgives a debt: a key expires only when the call
\* would be decided the same way without it.
ExpiryHarmless ==
    [][\A b \in Buckets : tat[b] # NoKey /\ tat'[b] = NoKey => tat[b] <= now']_vars

\* The limiter is a token bucket of capacity burst, counted in time: a call is
\* refused only when the budget is really spent.
AbstractBucket == INSTANCE TokenBucket WITH
    Price <- Emission,
    Capacity <- [b \in Buckets |-> Tolerance(b)],
    level <- [b \in Buckets |-> Tolerance(b) - (Base(b) - now)]
ImplementsTokenBucket == AbstractBucket!Spec
=============================================================================
