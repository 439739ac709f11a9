---------------------------- MODULE GatewayClient ----------------------------
(***************************************************************************)
(* lib/gateway-client.js: one client, its successive WebSockets and the    *)
(* calls that wait on them.  A step is one callback and the promise        *)
(* continuations it sets off.  Every socket keeps its handlers until its   *)
(* own 'close' event, also when the client has opened another meanwhile.   *)
(***************************************************************************)
EXTENDS Integers, FiniteSets

CONSTANTS
    Requests,       \* calls of request(), by Gateway Call
    Sends,          \* calls of send(), by Gateway Out
    Repeats,        \* those that carry the idempotency key of another call,
    Original,       \* which one; of two that have a key in common either may be first
    MaxSockets,     \* sockets that exist at the same time
    MaxDrops,       \* connections that fail or break
    MaxRefusals     \* hello_error answers

Calls == Requests \cup Sends
Sockets == 1 .. MaxSockets
None == 0
Dead == -1          \* a promise that was rejected before it was assigned

ASSUME ClientAssumption ==
    /\ Requests \cap Sends = {}
    /\ Repeats \subseteq Calls
    /\ Original \in [Repeats -> Calls]
    /\ MaxSockets \in Nat /\ MaxDrops \in Nat /\ MaxRefusals \in Nat

VARIABLES
    url,            \* url: one that new WebSocket takes, one it throws on, or none
    state,          \* state
    ws,             \* ws, None for null
    connectPromise, \* connectPromise: the socket it is about, None for null
    unsettled,      \* connection attempts with their timer and hello listeners
    reconnectTimer, heartbeat, closing, authFailed,
    \* the sockets
    sock,           \* readyState; "leaving": close() was called, messages still come
    hello,          \* how far the handshake is on each
    \* the calls
    at,             \* pending, aliases, or how the promise was settled
    awaits,         \* the attempt whose promise it awaits
    armed,          \* timer and acceptedTimer
    wire,           \* what the gateway has said
    \* the environment
    drops, refusals,
    crashed,        \* an exception has left an event handler
    \* what has happened, for the properties
    overlap,        \* the last connect() found a socket that was not closed yet
    overtaken       \* the calls in flight when one did

past == <<overlap, overtaken>>
client == <<url, state, ws, connectPromise, unsettled, reconnectTimer, heartbeat,
            closing, authFailed>>
calls == <<at, awaits, armed, wire>>
network == <<sock, hello, drops, refusals>>
vars == <<client, calls, network, past, crashed>>

Pending == {"pending", "accepted"}
Settled == {"resolved", "rejected"}
InFlight == {c \in Calls : at[c] \in Pending \cup {"alias"}}
Awaiting(G) == {c \in Calls : at[c] = "connecting" /\ awaits[c] \in G}
Alive == ~crashed       \* an uncaught exception ends the process
Usable(socket, readyState) == socket # None /\ readyState[socket] = "open"
Receives(g) == sock[g] \in {"open", "leaving"}

-----------------------------------------------------------------------------
(* Settling calls.                                                         *)

Put(f, S, value) == [x \in DOMAIN f |-> IF x \in S THEN value ELSE f[x]]

Reject(C) == /\ at' = Put(at, C, "rejected")
             /\ awaits' = Put(awaits, C, None)
             /\ armed' = Put(armed, C, {})
             /\ UNCHANGED wire

\* After `await this.connect()`: the call is written if the socket is open.
Timers(c) == IF c \in Requests THEN {"timer", "acceptedTimer"} ELSE {"timer"}
Proceed(C, go) ==
    IF ~go THEN Reject(C)
    ELSE /\ at' = Put(at, C, "pending")
         /\ awaits' = Put(awaits, C, None)
         /\ armed' = [c \in Calls |-> IF c \in C THEN Timers(c) ELSE armed[c]]
         /\ wire' = Put(wire, C, "sent")

-----------------------------------------------------------------------------
(* Connecting.                                                             *)

AfterConnection == state = "connected" /\ ~closing /\ ~authFailed
                                            \* slip: not after a failed attempt
MaySchedule == ~closing /\ ~authFailed
ScheduleReconnect == reconnectTimer' = (reconnectTimer \/ MaySchedule)

Connected == state = "connected" /\ Usable(ws, sock)

\* connect() past its early returns: a socket that begins to connect,
NewAttempt(g) ==
    /\ url = "valid"
    /\ sock[g] = "closed"
    /\ state' = "connecting"
    /\ connectPromise' = g
    /\ unsettled' = unsettled \cup {g}
    /\ ws' = g
    /\ sock' = [sock EXCEPT ![g] = "connecting"]
    /\ hello' = [hello EXCEPT ![g] = "none"]
    /\ overlap' = \E h \in Sockets : sock[h] # "closed"
    /\ overtaken' = overtaken \cup IF overlap' THEN InFlight ELSE {}
    /\ UNCHANGED <<url, heartbeat, closing, authFailed, drops, refusals>>

\* or a constructor that throws.  Line 90 clears connectPromise before line 42
\* assigns it: every later connect() returns the promise rejected here.
FailedAttempt ==
    /\ url = "invalid"
    /\ state' = "disconnected"
    /\ connectPromise' = Dead
    /\ ScheduleReconnect
    /\ UNCHANGED <<url, ws, unsettled, heartbeat, closing, authFailed, network, past>>

\* connect() rejects at once.
Refuses == \/ closing
           \/ ~Connected /\ connectPromise = Dead
           \/ ~Connected /\ connectPromise = None /\ url = "missing"

Await(c, g) ==
    /\ at' = [at EXCEPT ![c] = "connecting"]
    /\ awaits' = [awaits EXCEPT ![c] = g]
    /\ UNCHANGED <<armed, wire>>

\* send() and request().
Call(c) ==
    /\ Alive
    /\ at[c] = "new"
    /\ \/ Refuses /\ Reject({c}) /\ UNCHANGED <<client, network, past>>
       \/ /\ ~closing /\ Connected
          /\ Proceed({c}, TRUE)
          /\ UNCHANGED <<client, network, past>>
       \/ /\ ~closing /\ ~Connected /\ connectPromise \in Sockets
          /\ Await(c, connectPromise)
          /\ UNCHANGED <<client, network, past>>
       \/ /\ ~closing /\ ~Connected /\ connectPromise = None
          /\ \/ (\E g \in Sockets : NewAttempt(g) /\ Await(c, g)) /\ UNCHANGED reconnectTimer
             \/ FailedAttempt /\ Reject({c})
    /\ UNCHANGED crashed

ReconnectFires ==
    /\ Alive
    /\ reconnectTimer
    /\ reconnectTimer' = FALSE
    /\ IF closing \/ Connected \/ connectPromise # None
       THEN UNCHANGED <<url, state, ws, connectPromise, unsettled, heartbeat, closing,
                        authFailed, network, past>>
       ELSE \E g \in Sockets : NewAttempt(g)
    /\ UNCHANGED <<calls, crashed>>

\* 'open': hello goes to this.ws, whichever socket has opened.
Open(g) ==
    /\ Alive
    /\ sock[g] = "connecting"
    /\ sock' = [sock EXCEPT ![g] = "open"]
    /\ IF Usable(ws, sock')
       THEN /\ hello' = [hello EXCEPT ![ws] = IF @ = "none" THEN "sent" ELSE @]
            /\ UNCHANGED crashed
       ELSE crashed' = TRUE /\ UNCHANGED hello
    /\ UNCHANGED <<client, calls, drops, refusals, past>>

\* hello_ack: the listeners of every open attempt hear it.
HelloAck(g) ==
    /\ Alive
    /\ Receives(g) /\ hello[g] = "sent"
    /\ hello' = [hello EXCEPT ![g] = "answered"]
    /\ IF unsettled = {} THEN UNCHANGED <<client, calls>>
       ELSE /\ state' = "connected"
            /\ connectPromise' = None
            /\ unsettled' = {}
            /\ authFailed' = FALSE
            /\ heartbeat' = TRUE
            /\ Proceed(Awaiting(unsettled), Usable(ws, sock))
            /\ UNCHANGED <<url, ws, reconnectTimer, closing>>
    /\ UNCHANGED <<sock, drops, refusals, past, crashed>>

\* ws.close() of the current socket.
LeaveOpen(g) ==                             \* slip: one that connects is kept
    sock' = IF Usable(g, sock) THEN Put(sock, {g}, "leaving") ELSE sock
Leave(g) ==
    sock' = CASE Usable(g, sock) -> Put(sock, {g}, "leaving")
              [] g # None /\ sock[g] = "connecting" -> Put(sock, {g}, "closing")
              [] OTHER -> sock

HelloError(g) ==
    /\ Alive
    /\ refusals < MaxRefusals
    /\ refusals' = refusals + 1
    /\ Receives(g) /\ hello[g] = "sent"
    /\ hello' = [hello EXCEPT ![g] = "answered"]
    /\ IF unsettled = {} THEN UNCHANGED <<client, calls, sock>>
       ELSE /\ connectPromise' = None
            /\ unsettled' = {}
            /\ authFailed' = TRUE
            /\ Leave(ws)
            /\ state' = "disconnected"
            /\ Reject(Awaiting(unsettled))
            /\ UNCHANGED <<url, ws, reconnectTimer, heartbeat, closing>>
    /\ UNCHANGED <<drops, past, crashed>>

\* The connect timer of one attempt terminates the current socket.  One that is still
\* connecting closes in the same turn of the event loop, and its attempt fails
\* with it; one that is open has its close event to come.
KeepsPromise == UNCHANGED connectPromise    \* slip: the promise stays
ForgetPromise == connectPromise' = None
Terminate ==
    IF ws = None \/ sock[ws] = "closed" THEN UNCHANGED <<ws, heartbeat, sock, hello>>
    ELSE IF sock[ws] = "connecting"
    THEN /\ sock' = Put(sock, {ws}, "closed") /\ hello' = Put(hello, {ws}, "none")
         /\ ws' = None
         /\ heartbeat' = FALSE
    ELSE sock' = Put(sock, {ws}, "closing") /\ UNCHANGED <<ws, heartbeat, hello>>
Failing(g) == {g} \cup IF ws # None /\ sock[ws] = "connecting" THEN {ws} ELSE {}
ConnectTimeout(g) ==
    /\ Alive
    /\ g \in unsettled
    /\ unsettled' = unsettled \ Failing(g)
    /\ Terminate
    /\ ForgetPromise
    /\ state' = "disconnected"
    /\ Reject(Awaiting(Failing(g)))
    /\ ScheduleReconnect
    /\ UNCHANGED <<url, closing, authFailed, drops, refusals, past, crashed>>

-----------------------------------------------------------------------------
(* Losing a connection.                                                    *)

\* The 'close' handler of a socket, whichever this.ws is by now.
WasConnected == state = "connected"
KeepsState == UNCHANGED state               \* slip: the state is not set
Disconnect == state' = "disconnected"
KeepsHeartbeat == UNCHANGED heartbeat       \* slip: the interval is kept
StopHeartbeat == heartbeat' = FALSE
CloseEvent(g) ==
    /\ Alive
    /\ sock' = [sock EXCEPT ![g] = "closed"]
    /\ hello' = [hello EXCEPT ![g] = "none"]
    /\ unsettled' = unsettled \ {g}
    /\ StopHeartbeat
    /\ ws' = None
    /\ connectPromise' = None
    /\ Disconnect
    /\ Reject(Awaiting({g}) \cup IF WasConnected THEN InFlight ELSE {})
    /\ ScheduleReconnect
    /\ UNCHANGED <<url, closing, authFailed, refusals, past, crashed>>

Closed(g) == /\ sock[g] \in {"closing", "leaving"}
             /\ CloseEvent(g)
             /\ UNCHANGED drops

\* The connection cannot be made, or breaks.
Lost(g) == /\ sock[g] \in {"connecting", "open"}
           /\ drops < MaxDrops /\ drops' = drops + 1
           /\ CloseEvent(g)

\* The gateway's close frame arrives.
GatewayCloses(g) ==
    /\ Alive
    /\ sock[g] = "open"
    /\ drops < MaxDrops /\ drops' = drops + 1
    /\ sock' = [sock EXCEPT ![g] = "closing"]
    /\ UNCHANGED <<client, calls, hello, refusals, past, crashed>>

\* close().
Close ==
    /\ Alive
    /\ ~closing /\ closing' = TRUE
    /\ reconnectTimer' = FALSE
    /\ heartbeat' = FALSE
    /\ Reject(InFlight)
    /\ Leave(ws)
    /\ ws' = None
    /\ state' = "closed"
    /\ UNCHANGED <<url, connectPromise, unsettled, authFailed, hello, drops, refusals, past,
                   crashed>>

-----------------------------------------------------------------------------
(* The answers to calls, and their timers.                                 *)

Heard == \E g \in Sockets : Receives(g) /\ hello[g] = "answered"
Says(c, word) == wire' = [wire EXCEPT ![c] = word]

\* The gateway finds the key of a repetition claimed.
Claimed(c) ==
    /\ Alive
    /\ wire[c] = "sent" /\ c \in Repeats
    /\ wire[Original[c]] \in {"sent", "accepted"}
    /\ Says(c, "duplicate")
    /\ UNCHANGED <<client, network, past, at, awaits, armed, crashed>>

WrongTimer == "timer"                       \* slip: the other timer is cleared
AcceptedTimer == "acceptedTimer"
Accepted(c) ==
    /\ Alive
    /\ Heard
    /\ \/ wire[c] = "sent" /\ Says(c, "accepted")
       \/ wire[c] = "duplicate" /\ Says(c, "told")       \* duplicateOf
    /\ \/ /\ at[c] = "pending" /\ c \in Requests
          /\ at' = [at EXCEPT ![c] = IF wire[c] = "duplicate" THEN "alias" ELSE "accepted"]
          /\ armed' = [armed EXCEPT ![c] = @ \ {AcceptedTimer}]
       \/ /\ at[c] = "pending" /\ c \in Sends
          /\ at' = [at EXCEPT ![c] = "resolved"]
          /\ armed' = [armed EXCEPT ![c] = {}]
       \/ at[c] # "pending" /\ UNCHANGED <<at, armed>>
    /\ UNCHANGED <<client, network, past, awaits, crashed>>

\* result and failed.  The record of a send() has no resolve.
Aliases(c) == {d \in Repeats : Original[d] = c /\ at[d] = "alias"}
Answer(c, how) ==
    /\ IF at[c] \notin Pending THEN UNCHANGED <<at, armed, crashed>>
       ELSE IF how = "resolved" /\ c \in Sends
       THEN /\ at' = [at EXCEPT ![c] = "lost"]
            /\ armed' = [armed EXCEPT ![c] = {}]
            /\ crashed' = TRUE
       ELSE LET C == {c} \cup Aliases(c) IN
            /\ at' = Put(at, C, how)
            /\ armed' = Put(armed, C, {})
            /\ UNCHANGED crashed
    /\ UNCHANGED <<client, network, past, awaits>>

\* A call is answered after it was accepted; at once when it is refused, or when
\* the response to its key is there already.
Result(c) ==
    /\ Alive
    /\ Heard
    /\ \/ /\ wire[c] = "accepted" /\ Says(c, "answered")
          /\ \E how \in Settled : Answer(c, how)
       \/ /\ wire[c] = "sent" /\ Says(c, "refused")
          /\ Answer(c, "rejected")
       \/ /\ wire[c] = "sent" /\ Says(c, "answered")
          /\ c \in Repeats /\ wire[Original[c]] = "answered"
          /\ \E how \in Settled : Answer(c, how)

Fires(c, timer) == timer \in armed[c]
AcceptTimeout(c) ==
    /\ Alive
    /\ Fires(c, "acceptedTimer")
    /\ IF at[c] = "pending" THEN Reject({c})
       ELSE /\ armed' = [armed EXCEPT ![c] = @ \ {"acceptedTimer"}]
            /\ UNCHANGED <<at, awaits, wire>>
    /\ UNCHANGED <<client, network, past, crashed>>
Timeout(c) ==
    /\ Alive
    /\ Fires(c, "timer")
    /\ at' = [at EXCEPT ![c] = "rejected"]
    /\ armed' = [armed EXCEPT ![c] = @ \ {"timer"}]
    /\ UNCHANGED <<client, network, past, awaits, wire, crashed>>

-----------------------------------------------------------------------------
Init ==
    /\ url \in {"valid", "invalid", "missing"}
    /\ state = "disconnected"
    /\ ws = None /\ connectPromise = None /\ unsettled = {}
    /\ reconnectTimer = FALSE /\ heartbeat = FALSE
    /\ closing = FALSE /\ authFailed = FALSE
    /\ sock = [g \in Sockets |-> "closed"]
    /\ hello = [g \in Sockets |-> "none"]
    /\ at = [c \in Calls |-> "new"]
    /\ awaits = [c \in Calls |-> None]
    /\ armed = [c \in Calls |-> {}]
    /\ wire = [c \in Calls |-> "none"]
    /\ drops = 0 /\ refusals = 0
    /\ crashed = FALSE
    /\ overlap = FALSE /\ overtaken = {}

OfSocket(g) == \/ Open(g) \/ HelloAck(g) \/ HelloError(g) \/ ConnectTimeout(g)
               \/ Closed(g) \/ Lost(g) \/ GatewayCloses(g)
OfCall(c) == \/ Call(c) \/ Claimed(c) \/ Accepted(c) \/ Result(c)
             \/ AcceptTimeout(c) \/ Timeout(c)
Next == \/ ReconnectFires \/ Close
        \/ \E g \in Sockets : OfSocket(g)
        \/ \E c \in Calls : OfCall(c)

\* Timers fire, and a socket that is closing closes: ws allows it 30 seconds.
Timely == /\ WF_vars(ReconnectFires)
          /\ \A g \in Sockets : WF_vars(ConnectTimeout(g)) /\ WF_vars(Closed(g))
          /\ \A c \in Calls : WF_vars(AcceptTimeout(c)) /\ WF_vars(Timeout(c))
\* A gateway that can be reached again and again is reached, and acknowledges.
Reachable == \A g \in Sockets : SF_vars(Open(g)) /\ SF_vars(HelloAck(g))

Spec == Init /\ [][Next]_vars /\ Timely
=============================================================================
