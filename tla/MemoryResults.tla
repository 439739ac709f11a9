---------------------------- MODULE MemoryResults ----------------------------
(***************************************************************************)
(* What the server without Redis keeps beside its queue: the idempotency   *)
(* keys of the requests in it, their responses until these expire, and the *)
(* responses that wait for their POD.  It composes with the pump: each of  *)
(* its actions is one of MemoryPump with what the same code does to these  *)
(* maps.  One POD, whose connections follow one another.                   *)
(***************************************************************************)
EXTENDS MemoryPump

CONSTANTS
    Keys, NoKey,
    KeyOf,              \* idempotencyKey of each request, if it has one
    MaxLeaves           \* how often the POD loses its connection

ASSUME ResultsAssumption ==
    /\ NoKey \notin Keys
    /\ KeyOf \in [Requests -> Keys \cup {NoKey}]
    /\ MaxLeaves \in Nat

VARIABLES
    inflight,           \* inflightIdempotency: the keys of requests under way
    stored,             \* idempotencyResults: the keys that have a response
    result,             \* what became of each request's response
    socket,             \* the POD's connection as the server sees it
    leaves

resultVars == <<inflight, stored, result, socket, leaves>>
allVars == <<vars, resultVars>>

UnderWay == {"queued", "limiter", "finish", "executing", "backoff"}
With(key) == {r \in Requests : KeyOf[r] = key}
KeysOf(r) == {KeyOf[r]} \ {NoKey}

-----------------------------------------------------------------------------
\* _claimIdempotencySync, which returns a duplicate with or without a response.
SeesAnswers(key) == key \in stored                     \* slip: inflight is not read
Taken(key) == key \in inflight \cup stored

\* _enqueue: a full queue is reported before the key is looked at.
Full == Len(memoryQueue) >= MaxQueueSize
Submit(r) ==
    /\ socket = "open"
    /\ IF ~Full /\ Taken(KeyOf[r])
       THEN /\ at[r] = "new"
            /\ at' = Moved(r, "duplicate")
            /\ UNCHANGED <<memoryQueue, active, pumping, pumpTimer, attempts, enqueuedAt,
                           denials, inflight>>
       ELSE /\ Enqueue(r)
            /\ inflight' = IF Full THEN inflight ELSE inflight \cup KeysOf(r)
    /\ UNCHANGED <<stored, result, socket, leaves>>

\* _deliverResponse with _send and _storePending.  What is sent on a socket that
\* has gone is lost.
KnownSocket == socket # "none"                         \* slip: readyState is not read
Sendable == socket = "open"
Arrive == IF socket = "open" THEN "sent" ELSE "lost"
Delivered(r) ==
    result' = [result EXCEPT ![r] = IF Sendable THEN Arrive ELSE "pending"]

\* _finish.
Finish(r) ==
    /\ inflight' = inflight \ KeysOf(r)
    /\ stored' = stored \cup KeysOf(r)
    /\ Delivered(r)
Continues(r) ==
    /\ Work(r)
    /\ IF at'[r] = "done"
       THEN Finish(r)
       ELSE UNCHANGED <<inflight, stored, result>>
    /\ UNCHANGED <<socket, leaves>>

\* The timer of a stored response.
Forget(key) ==
    /\ key \in stored
    /\ stored' = stored \ {key}
    /\ UNCHANGED <<vars, inflight, result, socket, leaves>>

\* _hello with _replayPending; the events of a socket.
NoReplay == UNCHANGED result                           \* slip: nothing is replayed
ReplayPending ==
    result' = [r \in Requests |-> IF result[r] = "pending" THEN "sent" ELSE result[r]]
Hello ==
    /\ socket = "none"
    /\ socket' = "open"
    /\ ReplayPending
    /\ UNCHANGED <<vars, inflight, stored, leaves>>
Leaves ==
    /\ socket = "open" /\ leaves < MaxLeaves
    /\ socket' = "closing"
    /\ leaves' = leaves + 1
    /\ UNCHANGED <<vars, inflight, stored, result>>
Disconnect ==
    /\ socket = "closing"
    /\ socket' = "none"
    /\ UNCHANGED <<vars, inflight, stored, result, leaves>>

-----------------------------------------------------------------------------
ResultsInit ==
    /\ Init
    /\ inflight = {} /\ stored = {}
    /\ result = [r \in Requests |-> "none"]
    /\ socket = "none" /\ leaves = 0
ResultsNext ==
    \/ \E r \in Requests : Submit(r) \/ Continues(r)
    \/ TimerFires /\ UNCHANGED resultVars
    \/ \E key \in Keys : Forget(key)
    \/ Hello \/ Leaves \/ Disconnect
ResultsSpec ==
    /\ ResultsInit /\ [][ResultsNext]_allVars
    /\ \A r \in Requests : WF_allVars(Continues(r))
    /\ WF_allVars(TimerFires /\ UNCHANGED resultVars)
    /\ WF_allVars(Disconnect) /\ WF_allVars(Hello)

-----------------------------------------------------------------------------
\* Of the requests that share a key one is under way at a time, and none while a
\* response is stored: neither a retry in its back-off nor a duplicate that comes
\* in the meantime gives the key away.
OneRunPerKey ==
    \A key \in Keys :
        LET running == {r \in With(key) : at[r] \in UnderWay}
        IN  /\ Cardinality(running) <= 1
            /\ running # {} <=> key \in inflight
            /\ ~(key \in inflight /\ key \in stored)

\* The response of a request that is done was sent on an open socket or waits for
\* the POD, and nothing waits while the POD is connected.
ResponseKept ==
    /\ \A r \in Requests : at[r] = "done" => result[r] \in {"sent", "pending"}
    /\ socket = "open" => \A r \in Requests : result[r] # "pending"

\* The queue empties: every accepted request ends and its response reaches the POD,
\* over lost connections, refusals and retries, and a duplicate that was told that
\* its key is taken finds the response of the request that took it.
EventuallyServed ==
    <>[](\A r \in Requests :
            /\ at[r] \notin UnderWay
            /\ at[r] = "done" => result[r] = "sent"
            /\ at[r] = "duplicate" => \E q \in With(KeyOf[r]) \ {r} : result[q] = "sent")
=============================================================================
