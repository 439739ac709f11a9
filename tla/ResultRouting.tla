--------------------------- MODULE ResultRouting ---------------------------
(***************************************************************************)
(* Where the responses for one POD go (lib/gateway-server.js): to the      *)
(* WebSocket the call came from, to the one that has replaced it, or to a  *)
(* hash in Redis (lib/redis-stream-queue.js) from which a later hello      *)
(* replays them.  Connections are slots: each stands for one socket after  *)
(* another.                                                                *)
(*                                                                         *)
(* The queue is that of StreamQueue, reduced to what it promises: a        *)
(* request is acknowledged after its handler has ended without an error,   *)
(* and handled again otherwise.                                            *)
(***************************************************************************)
EXTENDS Integers, Sequences, FiniteSets

CONSTANTS
    Requests,
    Connections,
    None,           \* no connection
    Limit           \* how often each kind of disturbance happens, at most

Kinds == {"break", "fault", "crash"}

ASSUME RoutingAssumption ==
    /\ None \notin Connections
    /\ Limit \in [Kinds -> Nat]

VARIABLES
    peer,           \* the socket is open, as the POD sees it
    ready,          \* its readyState in the gateway
    authenticated,  \* connection.authenticated
    byPod,          \* connectionsByPod.get(podId)
    origin,         \* the connection with item.connectionId
    at,             \* where each request is
    commands,       \* commands in flight on commandClient, oldest first
    pending,        \* the hash of pending results
    taken,          \* what a replay has read
    used,           \* disturbances so far
    \* history, read by properties only
    received,       \* how often the POD got the response
    unheard,        \* sent to a POD that was gone, which nobody had noticed
    dropped,        \* taken out of Redis by a replay that could not send them
    overlap,        \* the POD was back before the gateway had seen it leave
    crossed         \* stored although, after that, a socket was open

sockets == <<peer, ready, authenticated, byPod>>
redis == <<commands, pending, taken>>
outcome == <<received, unheard, dropped>>
history == <<outcome, overlap, crossed>>
vars == <<sockets, origin, at, redis, used, history>>

Spend(k) == used[k] < Limit[k] /\ used' = [used EXCEPT ![k] = @ + 1]
Issue(kind, x) == commands' = Append(commands, [kind |-> kind, of |-> x])
IssueNext(kind, x) == commands' = Append(Tail(commands), [kind |-> kind, of |-> x])

-----------------------------------------------------------------------------
(* Sockets.                                                                *)

\* The POD opens its next socket when it takes the last one for lost, whatever the
\* gateway thinks of that one.  A slot with a replay in flight is not free.
Idle(c) == \A i \in DOMAIN commands : commands[i].of # c
Others(c) == \E d \in Connections \ {c} : ready[d] # "closed"
Connect(c) ==
    /\ ready[c] = "closed" /\ Idle(c)
    /\ \A d \in Connections : ~peer[d]
    /\ overlap' = Others(c)
    /\ peer' = [peer EXCEPT ![c] = TRUE]
    /\ ready' = [ready EXCEPT ![c] = "open"]
    /\ authenticated' = [authenticated EXCEPT ![c] = FALSE]
    /\ UNCHANGED <<byPod, origin, at, redis, used, outcome, crossed>>

\* _hello: it starts the replay and does not await it.
Hello(c) ==
    /\ ready[c] = "open" /\ ~authenticated[c]
    /\ authenticated' = [authenticated EXCEPT ![c] = TRUE]
    /\ byPod' = c
    /\ Issue("read", c)
    /\ UNCHANGED <<peer, ready, origin, at, pending, taken, used, history>>

\* The POD closes its socket or loses it; the gateway hears of it by a close
\* frame, or not until later.
Leaves(c) ==
    /\ peer[c] /\ Spend("break")
    /\ peer' = [peer EXCEPT ![c] = FALSE]
    /\ \E state \in {"open", "closing"} : ready' = [ready EXCEPT ![c] = state]
    /\ UNCHANGED <<authenticated, byPod, origin, at, redis, history>>

\* 'close': _disconnect.  No item finds this connectionId again.
Forget(c) == IF byPod = c THEN None ELSE byPod
Disconnect(c) ==
    /\ ready[c] # "closed" /\ ~peer[c]
    /\ ready' = [ready EXCEPT ![c] = "closed"]
    /\ byPod' = Forget(c)
    /\ origin' = [r \in Requests |-> IF origin[r] = c THEN None ELSE origin[r]]
    /\ overlap' = (overlap /\ Others(c))
    /\ UNCHANGED <<peer, authenticated, at, redis, used, outcome, crossed>>

-----------------------------------------------------------------------------
(* Requests and their responses.                                           *)

Call(r, c) ==
    /\ at[r] = "new"
    /\ ready[c] = "open" /\ authenticated[c]
    /\ at' = [at EXCEPT ![r] = "queued"]
    /\ origin' = [origin EXCEPT ![r] = c]
    /\ UNCHANGED <<sockets, redis, used, history>>

\* _findConnection: the originating socket first.
FindConnection(r) == IF origin[r] # None THEN origin[r] ELSE byPod

\* A set of responses sent on c, which may have nobody at its other end.
Arrive(R, c) ==
    /\ received' = [r \in Requests |-> received[r] + IF r \in R /\ peer[c] THEN 1 ELSE 0]
    /\ unheard' = unheard \cup IF ready[c] = "open" /\ ~peer[c] THEN R ELSE {}

\* _deliverResponse: what cannot be sent is stored before the entry is
\* acknowledged.
AnySocket(c) == c # None                     \* slip: the outcome of _send is ignored
Sendable(c) == c # None /\ ready[c] = "open"
AtHome == \E d \in Connections : ready[d] = "open" /\ authenticated[d]
Deliver(r) ==
    LET c == FindConnection(r)
    IN  /\ at[r] = "queued"
        /\ \/ /\ Sendable(c)
              /\ at' = [at EXCEPT ![r] = "answered"]
              /\ Arrive({r}, c)
              /\ UNCHANGED <<commands, crossed>>
           \/ /\ ~Sendable(c)
              /\ at' = [at EXCEPT ![r] = "storing"]
              /\ Issue("store", r)
              /\ crossed' = crossed \cup IF overlap /\ AtHome THEN {r} ELSE {}
              /\ UNCHANGED <<received, unheard>>
        /\ UNCHANGED <<sockets, origin, pending, taken, used, dropped, overlap>>

-----------------------------------------------------------------------------
(* Redis executes the commands of commandClient in order, and the reply    *)
(* sets off what awaits it.  A fault is a command that is not executed or  *)
(* whose reply is lost.                                                    *)

Next1(kind) == commands # <<>> /\ Head(commands).kind = kind
Of == Head(commands).of

\* HSET and EXPIRE of storePendingResult: an error leaves the entry.
Store ==
    /\ Next1("store")
    /\ commands' = Tail(commands)
    /\ \/ /\ pending' = pending \cup {Of}
          /\ at' = [at EXCEPT ![Of] = "answered"]
          /\ UNCHANGED used
       \/ /\ Spend("fault")
          /\ pending' \in {pending, pending \cup {Of}}
          /\ at' = [at EXCEPT ![Of] = "queued"]
    /\ UNCHANGED <<sockets, origin, taken, history>>

\* HGETALL of takePendingResults, then DEL if there was something.
Read ==
    /\ Next1("read")
    /\ \/ /\ UNCHANGED used
          /\ taken' = [taken EXCEPT ![Of] = pending]
          /\ IF pending = {} THEN commands' = Tail(commands) ELSE IssueNext("del", Of)
       \/ Spend("fault") /\ commands' = Tail(commands) /\ UNCHANGED taken
    /\ UNCHANGED <<sockets, origin, at, pending, history>>

\* DEL, and the sends of _replayPending, whose outcome nobody reads.
KeepsHash == pending                         \* slip: the hash is not deleted
Cleared == {}
Replay ==
    /\ Next1("del")
    /\ commands' = Tail(commands)
    /\ taken' = [taken EXCEPT ![Of] = {}]
    /\ \/ /\ UNCHANGED used
          /\ pending' = Cleared
          /\ IF Sendable(Of)
             THEN Arrive(taken[Of], Of) /\ UNCHANGED dropped
             ELSE dropped' = dropped \cup pending /\ UNCHANGED <<received, unheard>>
       \/ /\ Spend("fault")
          /\ \/ pending' = {} /\ dropped' = dropped \cup pending
             \/ UNCHANGED <<pending, dropped>>
          /\ UNCHANGED <<received, unheard>>
    /\ UNCHANGED <<sockets, origin, at, overlap, crossed>>

\* The gateway dies and is started again: sockets and replays end, and what was
\* about to be stored is delivered again from its entry.
Crash ==
    /\ Spend("crash")
    /\ peer' = [c \in Connections |-> FALSE]
    /\ ready' = [c \in Connections |-> "closed"]
    /\ byPod' = None
    /\ origin' = [r \in Requests |-> None]
    /\ at' = [r \in Requests |-> IF at[r] = "storing" THEN "queued" ELSE at[r]]
    /\ commands' = <<>>
    /\ taken' = [c \in Connections |-> {}]
    /\ overlap' = FALSE
    /\ UNCHANGED <<authenticated, pending, outcome, crossed>>

-----------------------------------------------------------------------------
Init ==
    /\ peer = [c \in Connections |-> FALSE]
    /\ ready = [c \in Connections |-> "closed"]
    /\ authenticated = [c \in Connections |-> FALSE]
    /\ byPod = None
    /\ origin = [r \in Requests |-> None]
    /\ at = [r \in Requests |-> "new"]
    /\ commands = <<>>
    /\ pending = {}
    /\ taken = [c \in Connections |-> {}]
    /\ used = [k \in Kinds |-> 0]
    /\ received = [r \in Requests |-> 0]
    /\ unheard = {}
    /\ dropped = {}
    /\ overlap = FALSE
    /\ crossed = {}

Socket(c) == Connect(c) \/ Hello(c) \/ Leaves(c) \/ Disconnect(c)
Execute == Store \/ Read \/ Replay
Next == \/ \E c \in Connections : Socket(c) \/ \E r \in Requests : Call(r, c)
        \/ \E r \in Requests : Deliver(r)
        \/ Execute
        \/ Crash

Spec == Init /\ [][Next]_vars

-----------------------------------------------------------------------------
CommandType == [kind: {"store"}, of: Requests] \cup [kind: {"read", "del"}, of: Connections]

\* Every variable stays in its range; connectionsByPod holds only a connection
\* that has said hello and has not ended.
TypeOK ==
    /\ peer \in [Connections -> BOOLEAN]
    /\ ready \in [Connections -> {"closed", "open", "closing"}]
    /\ authenticated \in [Connections -> BOOLEAN]
    /\ byPod \in {None} \cup {c \in Connections : ready[c] # "closed" /\ authenticated[c]}
    /\ origin \in [Requests -> Connections \cup {None}]
    /\ at \in [Requests -> {"new", "queued", "storing", "answered"}]
    /\ commands \in Seq(CommandType)
    /\ pending \subseteq Requests
    /\ taken \in [Connections -> SUBSET Requests]
    /\ used \in [Kinds -> Nat]
    /\ received \in [Requests -> Nat]
    /\ unheard \cup dropped \cup crossed \subseteq Requests
    /\ overlap \in BOOLEAN

\* An acknowledged request is answered for good: the POD has its response, or it
\* waits in Redis.  There are three exceptions: the socket was dead and nobody had
\* noticed; the socket of a replay, or the reply to its DEL, was lost; the response
\* of an old socket was stored although a newer one was open.  But for the last,
\* the DEL of a replay that can send takes nothing out of Redis that its HGETALL
\* has not seen.
Exceptions == unheard \cup dropped \cup crossed
Kept ==
    \A r \in Requests :
        at[r] = "answered" => received[r] > 0 \/ r \in pending \cup Exceptions

\* While the POD is connected and its replay is over, nothing waits for it in
\* Redis but what an older socket of its left there meanwhile: a response stored
\* because the POD was gone is stored before its hello reads the hash.
NoneStranded ==
    \A c \in Connections :
        peer[c] /\ authenticated[c] /\ Idle(c) /\ used["fault"] = 0 => pending \subseteq crossed

\* The comment at gateway-server.js:668-670: the result of a closing socket is not
\* dropped but persisted and replayed when the POD reconnects.  So it is with the
\* POD or in Redis, unless it was sent to a dead socket or by a replay that failed.
PersistedIsReplayed ==
    \A r \in Requests :
        at[r] = "answered" => received[r] > 0 \/ r \in pending \cup unheard \cup dropped
=============================================================================
