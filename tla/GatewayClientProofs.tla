------------------------ MODULE GatewayClientProofs ------------------------
(* Proofs about GatewayClient: types, and what GatewayClientProperties     *)
(* promises of its states.                                                 *)
EXTENDS GatewayClientProperties, TLAPS

-----------------------------------------------------------------------------
(* The operators.                                                          *)

\* None and Dead are no sockets.
LEMMA NoneIsNoSocket ==
    None \notin Sockets /\ Dead \notin Sockets /\ None # Dead /\ Sockets \subseteq Nat
BY DEF None, Dead, Sockets

ClientType ==
    /\ url \in {"valid", "invalid", "missing"}
    /\ state \in {"disconnected", "connecting", "connected", "closed"}
    /\ ws \in Sockets \cup {None}
    /\ unsettled \subseteq Sockets
    /\ connectPromise \in unsettled \cup {None, Dead}
    /\ connectPromise = Dead => url = "invalid"
    /\ reconnectTimer \in BOOLEAN /\ heartbeat \in BOOLEAN /\ closing \in BOOLEAN
    /\ authFailed \in BOOLEAN
NetworkType ==
    /\ sock \in [Sockets -> {"closed", "connecting", "open", "leaving", "closing"}]
    /\ hello \in [Sockets -> {"none", "sent", "answered"}]
    /\ drops \in 0 .. MaxDrops
    /\ refusals \in 0 .. MaxRefusals
    /\ crashed \in BOOLEAN
    /\ overlap \in BOOLEAN
    /\ overtaken \subseteq Calls
Where == {"new", "connecting", "alias", "lost"} \cup Pending \cup Settled
Words == {"none", "sent", "duplicate", "told", "accepted", "answered", "refused"}
Attempts == Sockets \cup {None}
TimerSets == SUBSET {"timer", "acceptedTimer"}
CallsType ==
    /\ at \in [Calls -> Where]
    /\ awaits \in [Calls -> Attempts]
    /\ armed \in [Calls -> TimerSets]
    /\ wire \in [Calls -> Words]

\* TypeOK is what each part of the state keeps.
LEMMA TypeParts == TypeOK <=> ClientType /\ NetworkType /\ CallsType
BY DEF TypeOK, ClientType, NetworkType, CallsType, Where, Words, Attempts, TimerSets

\* Rejecting calls leaves the others as they were.
LEMMA RejectKeeps ==
    ASSUME CallsType, NEW C, Reject(C)
    PROVE  /\ CallsType'
           /\ \A c \in Calls : /\ at'[c] = IF c \in C THEN "rejected" ELSE at[c]
                               /\ awaits'[c] = IF c \in C THEN None ELSE awaits[c]
                               /\ armed'[c] = IF c \in C THEN {} ELSE armed[c]
           /\ wire' = wire
<1> USE DEF CallsType
<1>1. at' = Put(at, C, "rejected") /\ awaits' = Put(awaits, C, None)
      /\ armed' = Put(armed, C, {}) /\ wire' = wire
  BY DEF Reject
<1>2. /\ at' \in [Calls -> Where]
      /\ \A c \in Calls : at'[c] = IF c \in C THEN "rejected" ELSE at[c]
  <2>1. "rejected" \in Where
    BY DEF Where, Settled
  <2> QED
    BY <1>1, <2>1 DEF Put
<1>3. /\ awaits' \in [Calls -> Attempts]
      /\ \A c \in Calls : awaits'[c] = IF c \in C THEN None ELSE awaits[c]
  <2>1. None \in Attempts
    BY DEF Attempts
  <2> QED
    BY <1>1, <2>1 DEF Put
<1>4. /\ armed' \in [Calls -> TimerSets]
      /\ \A c \in Calls : armed'[c] = IF c \in C THEN {} ELSE armed[c]
  <2>1. {} \in TimerSets
    BY DEF TimerSets
  <2> QED
    BY <1>1, <2>1 DEF Put
<1> QED
  BY <1>1, <1>2, <1>3, <1>4

\* So does letting them proceed.
LEMMA ProceedKeeps ==
    ASSUME CallsType, NEW C, Proceed(C, TRUE)
    PROVE  /\ CallsType'
           /\ \A c \in Calls : /\ at'[c] = IF c \in C THEN "pending" ELSE at[c]
                               /\ awaits'[c] = IF c \in C THEN None ELSE awaits[c]
                               /\ armed'[c] = IF c \in C THEN Timers(c) ELSE armed[c]
                               /\ wire'[c] = IF c \in C THEN "sent" ELSE wire[c]
<1> USE DEF CallsType
<1>1. /\ at' = Put(at, C, "pending") /\ awaits' = Put(awaits, C, None)
      /\ armed' = [c \in Calls |-> IF c \in C THEN Timers(c) ELSE armed[c]]
      /\ wire' = Put(wire, C, "sent")
  BY DEF Proceed
<1>2. /\ at' \in [Calls -> Where]
      /\ \A c \in Calls : at'[c] = IF c \in C THEN "pending" ELSE at[c]
  <2>1. "pending" \in Where
    BY DEF Where, Pending
  <2> QED
    BY <1>1, <2>1 DEF Put
<1>3. /\ awaits' \in [Calls -> Attempts]
      /\ \A c \in Calls : awaits'[c] = IF c \in C THEN None ELSE awaits[c]
  <2>1. None \in Attempts
    BY DEF Attempts
  <2> QED
    BY <1>1, <2>1 DEF Put
<1>4. /\ wire' \in [Calls -> Words]
      /\ \A c \in Calls : wire'[c] = IF c \in C THEN "sent" ELSE wire[c]
  <2>1. "sent" \in Words
    BY DEF Words
  <2> QED
    BY <1>1, <2>1 DEF Put
<1>5. \A c \in Calls : Timers(c) \in TimerSets
  BY DEF Timers, TimerSets
<1>6. armed' \in [Calls -> TimerSets]
  BY <1>1, <1>5
<1> QED
  BY <1>1, <1>2, <1>3, <1>4, <1>6

\* Closing the current socket: it neither connects nor is open afterwards, and
\* no other socket changes.
LEMMA LeaveKeeps ==
    ASSUME ClientType, NetworkType, Leave(ws)
    PROVE  /\ sock' \in [Sockets -> {"closed", "connecting", "open", "leaving", "closing"}]
           /\ \A g \in Sockets : g # ws => sock'[g] = sock[g]
           /\ ws # None =>
                \/ sock[ws] = "open" /\ sock'[ws] = "leaving"
                \/ sock[ws] = "connecting" /\ sock'[ws] = "closing"
                \/ sock[ws] \notin {"open", "connecting"} /\ sock'[ws] = sock[ws]
<1> USE DEF ClientType, NetworkType
<1>1. CASE Usable(ws, sock)
  <2>1. sock' = Put(sock, {ws}, "leaving") /\ ws # None /\ sock[ws] = "open"
    BY <1>1 DEF Leave, Usable
  <2> QED
    BY <2>1 DEF Put
<1>2. CASE ~Usable(ws, sock) /\ ws # None /\ sock[ws] = "connecting"
  <2>1. sock' = Put(sock, {ws}, "closing")
    BY <1>2 DEF Leave
  <2> QED
    BY <1>2, <2>1 DEF Put
<1>3. CASE ~Usable(ws, sock) /\ ~(ws # None /\ sock[ws] = "connecting")
  <2>1. sock' = sock
    BY <1>3 DEF Leave
  <2> QED
    BY <1>3, <2>1 DEF Usable
<1> QED
  BY <1>1, <1>2, <1>3

-----------------------------------------------------------------------------
(* Types.                                                                  *)

\* A new attempt.
LEMMA AttemptTypes ==
    ASSUME ClientType, NetworkType, NEW g \in Sockets, NewAttempt(g),
           reconnectTimer' \in BOOLEAN, crashed' = crashed
    PROVE  ClientType' /\ NetworkType'
<1>1. connectPromise' \in unsettled' /\ connectPromise' # Dead
  BY NoneIsNoSocket DEF NewAttempt
<1>2. overlap' \in BOOLEAN /\ overtaken' \subseteq Calls
  BY DEF NewAttempt, NetworkType, InFlight
<1> QED
  BY <1>1, <1>2 DEF NewAttempt, ClientType, NetworkType

\* Calls, and the client's own timer.
LEMMA CallTypes ==
    ASSUME ClientType, NetworkType, CallsType, NEW c \in Calls, OfCall(c)
    PROVE  ClientType' /\ NetworkType' /\ CallsType'
<1>1. CASE Call(c)
  <2>1. \A g \in Sockets : Await(c, g) => CallsType'
    BY DEF Await, CallsType, Where, Attempts
  <2>0. ASSUME UNCHANGED <<client, network, past>> PROVE ClientType' /\ NetworkType'
    <3>1. crashed' = crashed
      BY <1>1 DEF Call
    <3>2. ClientType'
      BY <2>0 DEF client, ClientType
    <3>3. NetworkType'
      BY <2>0, <3>1 DEF network, past, NetworkType
    <3> QED
      BY <3>2, <3>3
  <2>2. CASE Reject({c}) /\ UNCHANGED <<client, network, past>>
    BY <2>0, <2>2, RejectKeeps
  <2>3. CASE Proceed({c}, TRUE) /\ UNCHANGED <<client, network, past>>
    BY <2>0, <2>3, ProceedKeeps
  <2>4. CASE /\ connectPromise \in Sockets /\ Await(c, connectPromise)
             /\ UNCHANGED <<client, network, past>>
    BY <2>0, <2>1, <2>4
  <2>5. CASE (\E g \in Sockets : NewAttempt(g) /\ Await(c, g)) /\ UNCHANGED reconnectTimer
    <3>1. PICK g \in Sockets : NewAttempt(g) /\ Await(c, g)
      BY <2>5
    <3>2. reconnectTimer' \in BOOLEAN /\ crashed' = crashed
      BY <1>1, <2>5 DEF Call, ClientType
    <3>3. ClientType' /\ NetworkType'
      BY <3>1, <3>2, AttemptTypes
    <3> QED
      BY <2>1, <3>1, <3>3
  <2>6. CASE connectPromise = None /\ FailedAttempt /\ Reject({c})
    BY <1>1, <2>6, RejectKeeps
       DEF Call, FailedAttempt, ScheduleReconnect, MaySchedule, ClientType, NetworkType, network, past
  <2> QED
    BY <1>1, <2>2, <2>3, <2>4, <2>5, <2>6 DEF Call
<1>2. CASE Claimed(c)
  BY <1>2 DEF Claimed, Says, client, past, network, ClientType, NetworkType, CallsType, Words
<1>3. CASE Accepted(c)
  <2>1. wire' \in [Calls -> Words]
    BY <1>3 DEF Accepted, Says, CallsType, Words
  <2>2. at' \in [Calls -> Where]
    BY <1>3 DEF Accepted, CallsType, Where, Pending, Settled
  <2>3. armed' \in [Calls -> TimerSets]
    BY <1>3 DEF Accepted, CallsType, TimerSets
  <2> QED
    BY <1>3, <2>1, <2>2, <2>3 DEF Accepted, client, past, network, ClientType, NetworkType, CallsType
<1>4. CASE Result(c)
  <2>1. wire' \in [Calls -> Words]
    BY <1>4 DEF Result, Says, CallsType, Words
  <2>2. PICK how \in Settled : Answer(c, how)
    BY <1>4 DEF Result, Settled
  <2>3. at' \in [Calls -> Where]
    BY <2>2 DEF Answer, Put, CallsType, Where, Settled
  <2>4. armed' \in [Calls -> TimerSets]
    BY <2>2 DEF Answer, Put, CallsType, TimerSets
  <2>5. crashed' \in BOOLEAN
    BY <2>2 DEF Answer, NetworkType
  <2> QED
    BY <2>1, <2>2, <2>3, <2>4, <2>5
       DEF Answer, client, past, network, ClientType, NetworkType, CallsType
<1>5. CASE AcceptTimeout(c)
  <2>1. CallsType'
    <3>1. CASE Reject({c})
      BY <3>1, RejectKeeps
    <3>2. CASE /\ armed' = [armed EXCEPT ![c] = @ \ {"acceptedTimer"}]
               /\ UNCHANGED <<at, awaits, wire>>
      BY <3>2 DEF CallsType, TimerSets
    <3> QED
      BY <1>5, <3>1, <3>2 DEF AcceptTimeout
  <2> QED
    BY <1>5, <2>1 DEF AcceptTimeout, client, past, network, ClientType, NetworkType
<1>6. CASE Timeout(c)
  BY <1>6 DEF Timeout, client, past, network, ClientType, NetworkType, CallsType, TimerSets, Where, Settled
<1> QED
  BY <1>1, <1>2, <1>3, <1>4, <1>5, <1>6 DEF OfCall

\* The events of a socket.
LEMMA SocketTypes ==
    ASSUME ClientType, NetworkType, CallsType, NEW g \in Sockets, OfSocket(g)
    PROVE  ClientType' /\ NetworkType' /\ CallsType'
<1>1. CASE Open(g)
  <2>1. Usable(ws, sock') => ws \in Sockets
    BY DEF Usable, ClientType
  <2>2. NetworkType'
    BY <1>1, <2>1 DEF Open, NetworkType, past
  <2> QED
    BY <1>1, <2>2 DEF Open, client, calls, ClientType, CallsType
<1>2. CASE HelloAck(g)
  <2>1. NetworkType'
    BY <1>2 DEF HelloAck, NetworkType, past
  <2>2. CASE unsettled = {}
    BY <1>2, <2>1, <2>2 DEF HelloAck, client, calls, ClientType, CallsType
  <2>3. CASE unsettled # {}
    <3>1. Proceed(Awaiting(unsettled), Usable(ws, sock))
      BY <1>2, <2>3 DEF HelloAck
    <3>2. Proceed(Awaiting(unsettled), TRUE) \/ Reject(Awaiting(unsettled))
      BY <3>1 DEF Proceed
    <3>3. CallsType'
      BY <3>2, ProceedKeeps, RejectKeeps
    <3>4. /\ state' = "connected" /\ connectPromise' = None /\ unsettled' = {}
          /\ authFailed' = FALSE /\ heartbeat' = TRUE
          /\ UNCHANGED <<url, ws, reconnectTimer, closing>>
      BY <1>2, <2>3 DEF HelloAck
    <3> QED
      BY <2>1, <3>3, <3>4, NoneIsNoSocket DEF ClientType
  <2> QED
    BY <2>2, <2>3
<1>3. CASE HelloError(g)
  <2>1. NetworkType'
    <3>1. sock' \in [Sockets -> {"closed", "connecting", "open", "leaving", "closing"}]
      BY <1>3, LeaveKeeps DEF HelloError, NetworkType
    <3>2. hello' \in [Sockets -> {"none", "sent", "answered"}]
      BY <1>3 DEF HelloError, NetworkType
    <3> QED
      BY <1>3, <3>1, <3>2, ClientAssumption DEF HelloError, NetworkType, past
  <2>2. CallsType'
    BY <1>3, RejectKeeps DEF HelloError, calls, CallsType
  <2>3. ClientType'
    <3>1. CASE unsettled = {}
      BY <1>3, <3>1 DEF HelloError, client, ClientType
    <3>2. CASE unsettled # {}
      <4>1. /\ connectPromise' = None /\ unsettled' = {} /\ authFailed' = TRUE
            /\ state' = "disconnected"
            /\ UNCHANGED <<url, ws, reconnectTimer, heartbeat, closing>>
        BY <1>3, <3>2 DEF HelloError
      <4> QED
        BY <4>1, NoneIsNoSocket DEF ClientType
    <3> QED
      BY <3>1, <3>2
  <2> QED
    BY <2>1, <2>2, <2>3
<1>4. CASE ConnectTimeout(g)
  <2>1. NetworkType' /\ ws' \in Sockets \cup {None} /\ heartbeat' \in BOOLEAN
    <3>1. sock' \in [Sockets -> {"closed", "connecting", "open", "leaving", "closing"}]
      BY <1>4 DEF ConnectTimeout, Terminate, Put, NetworkType
    <3>2. hello' \in [Sockets -> {"none", "sent", "answered"}]
      BY <1>4 DEF ConnectTimeout, Terminate, Put, NetworkType
    <3>3. ws' \in Sockets \cup {None} /\ heartbeat' \in BOOLEAN
      BY <1>4 DEF ConnectTimeout, Terminate, ClientType
    <3> QED
      BY <1>4, <3>1, <3>2, <3>3 DEF ConnectTimeout, NetworkType, past
  <2>2. CallsType'
    BY <1>4, RejectKeeps DEF ConnectTimeout
  <2>3. ClientType'
    BY <1>4, <2>1, NoneIsNoSocket
       DEF ConnectTimeout, ForgetPromise, ScheduleReconnect, MaySchedule, ClientType
  <2> QED
    BY <2>1, <2>2, <2>3
<1>5. ASSUME CloseEvent(g), drops' \in 0 .. MaxDrops
      PROVE  ClientType' /\ NetworkType' /\ CallsType'
  <2>1. NetworkType'
    BY <1>5 DEF CloseEvent, NetworkType, past
  <2>2. CallsType'
    BY <1>5, RejectKeeps DEF CloseEvent
  <2>3. ClientType'
    BY <1>5, NoneIsNoSocket DEF CloseEvent, StopHeartbeat, Disconnect, ScheduleReconnect, MaySchedule, ClientType
  <2> QED
    BY <2>1, <2>2, <2>3
<1>6. CASE Closed(g)
  BY <1>5, <1>6 DEF Closed, NetworkType
<1>7. CASE Lost(g)
  BY <1>5, <1>7, ClientAssumption DEF Lost, NetworkType
<1>8. CASE GatewayCloses(g)
  BY <1>8, ClientAssumption DEF GatewayCloses, client, past, calls, ClientType, NetworkType, CallsType
<1> QED
  BY <1>1, <1>2, <1>3, <1>4, <1>6, <1>7, <1>8 DEF OfSocket

LEMMA TypeStep ==
    ASSUME TypeOK, [Next]_vars
    PROVE  TypeOK'
<1>0. ClientType /\ NetworkType /\ CallsType
  BY TypeParts
<1> SUFFICES ClientType' /\ NetworkType' /\ CallsType'
  BY DEF TypeOK, ClientType, NetworkType, CallsType, Where, Words, Attempts, TimerSets
<1>1. CASE ReconnectFires
  <2>1. CallsType'
    BY <1>0, <1>1 DEF ReconnectFires, calls, CallsType
  <2>2. CASE UNCHANGED <<url, state, ws, connectPromise, unsettled, heartbeat, closing,
                         authFailed, network, past>>
    BY <1>0, <1>1, <2>1, <2>2 DEF ReconnectFires, ClientType, NetworkType, network, past
  <2>3. CASE \E g \in Sockets : NewAttempt(g)
    BY <1>0, <1>1, <2>1, <2>3, AttemptTypes DEF ReconnectFires
  <2> QED
    BY <1>1, <2>2, <2>3 DEF ReconnectFires
<1>2. CASE Close
  <2>1. CallsType'
    BY <1>0, <1>2, RejectKeeps DEF Close
  <2>2. NetworkType'
    BY <1>0, <1>2, LeaveKeeps DEF Close, NetworkType, past
  <2> QED
    BY <1>0, <1>2, <2>1, <2>2 DEF Close, ClientType
<1>3. CASE \E g \in Sockets : OfSocket(g)
  BY <1>0, <1>3, SocketTypes
<1>4. CASE \E c \in Calls : OfCall(c)
  BY <1>0, <1>4, CallTypes
<1>5. CASE UNCHANGED vars
  BY <1>0, <1>5 DEF vars, client, past, calls, network, ClientType, NetworkType, CallsType
<1> QED
  BY <1>1, <1>2, <1>3, <1>4, <1>5 DEF Next

LEMMA InitType == Init => TypeOK
<1> HAVE Init
<1>1. ClientType /\ CallsType
  <2>1. ClientType
    BY NoneIsNoSocket DEF Init, ClientType
  <2>2. "new" \in Where /\ "none" \in Words /\ {} \in TimerSets /\ None \in Attempts
    BY DEF Where, Words, Attempts, TimerSets
  <2> QED
    BY <2>1, <2>2 DEF Init, CallsType
<1>2. NetworkType
  <2>1. 0 \in 0 .. MaxDrops /\ 0 \in 0 .. MaxRefusals
    BY ClientAssumption
  <2> QED
    BY <2>1 DEF Init, NetworkType
<1> QED
  BY <1>1, <1>2, TypeParts

\* Every variable stays in its range, whatever the sockets and the timers do.  Unless
\* the URL is invalid, when it is the rejected promise of the first attempt for good,
\* connectPromise is the promise of an attempt that is not settled, so that nobody
\* awaits a promise of the past.
THEOREM TypeCorrect == Spec => []TypeOK
<1>1. Init => TypeOK
  BY InitType
<1>2. TypeOK /\ [Next]_vars => TypeOK'
  BY TypeStep
<1> QED
  BY <1>1, <1>2, PTL DEF Spec

-----------------------------------------------------------------------------
(* Calls are watched and settled once.  The invariant adds to Watched that *)
(* the timers of a call run only while it waits for an answer.             *)

CallAttended(c) ==
    /\ at[c] = "new" => armed[c] = {}
    /\ at[c] = "connecting" => awaits[c] \in unsettled /\ armed[c] = {}
    /\ at[c] = "pending" => armed[c] = Timers(c)
    /\ at[c] \in {"accepted", "alias"} => armed[c] = {"timer"}
    /\ at[c] \in Settled => "timer" \notin armed[c]
Attended == \A c \in Calls : CallAttended(c)

\* A step settles no call a second time.
Keeps(c) == at[c] \in Settled => at'[c] = at[c]
KeepsSettled == \A c \in Calls : Keeps(c)

\* A call that is rejected needs no watch; the others keep what watched them.
LEMMA RejectAttends ==
    ASSUME CallsType, Attended, NEW C, Reject(C),
           \A c \in Calls : c \in C => at[c] \notin Settled,
           \A c \in Calls : at[c] = "connecting" /\ c \notin C => awaits[c] \in unsettled'
    PROVE  Attended' /\ KeepsSettled
<1>1. SUFFICES ASSUME NEW c \in Calls PROVE CallAttended(c)' /\ Keeps(c)
  BY DEF Attended, KeepsSettled
<1>2. /\ at'[c] = IF c \in C THEN "rejected" ELSE at[c]
      /\ awaits'[c] = IF c \in C THEN None ELSE awaits[c]
      /\ armed'[c] = IF c \in C THEN {} ELSE armed[c]
  BY RejectKeeps
<1>3. CallAttended(c)
  BY DEF Attended
<1> QED
  BY <1>2, <1>3 DEF CallAttended, Keeps, Timers

\* A call that proceeds has its timers.
LEMMA ProceedAttends ==
    ASSUME CallsType, Attended, NEW C, Proceed(C, TRUE),
           \A c \in Calls : c \in C => at[c] \notin Settled,
           \A c \in Calls : at[c] = "connecting" /\ c \notin C => awaits[c] \in unsettled'
    PROVE  Attended' /\ KeepsSettled
<1>1. SUFFICES ASSUME NEW c \in Calls PROVE CallAttended(c)' /\ Keeps(c)
  BY DEF Attended, KeepsSettled
<1>2. /\ at'[c] = IF c \in C THEN "pending" ELSE at[c]
      /\ awaits'[c] = IF c \in C THEN None ELSE awaits[c]
      /\ armed'[c] = IF c \in C THEN Timers(c) ELSE armed[c]
  BY ProceedKeeps
<1>3. CallAttended(c)
  BY DEF Attended
<1> QED
  BY <1>2, <1>3 DEF CallAttended, Keeps, Timers, Settled

\* A call that begins to wait for a connection waits for an attempt that is under way.
LEMMA AwaitAttends ==
    ASSUME CallsType, Attended, NEW c \in Calls, at[c] = "new", NEW g \in unsettled', Await(c, g),
           unsettled \subseteq unsettled'
    PROVE  Attended' /\ KeepsSettled
<1>1. SUFFICES ASSUME NEW d \in Calls PROVE CallAttended(d)' /\ Keeps(d)
  BY DEF Attended, KeepsSettled
<1>2. /\ at'[d] = IF d = c THEN "connecting" ELSE at[d]
      /\ awaits'[d] = IF d = c THEN g ELSE awaits[d]
      /\ armed'[d] = armed[d]
  BY DEF Await, CallsType
<1>3. CallAttended(d) /\ at[d] \in Where
  BY DEF Attended, CallsType
<1> QED
  BY <1>2, <1>3 DEF CallAttended, Keeps, Settled, Timers

\* Only the attempts that are settled by a step let go of the calls that await them.
LEMMA NothingAttended ==
    ASSUME Attended, UNCHANGED <<at, awaits, armed>>, unsettled \subseteq unsettled'
    PROVE  Attended' /\ KeepsSettled
BY DEF Attended, CallAttended, KeepsSettled, Keeps, Timers

LEMMA CallAttends ==
    ASSUME ClientType, CallsType, Attended, NEW c \in Calls, OfCall(c)
    PROVE  Attended' /\ KeepsSettled
<1>0. \A d \in Calls : CallAttended(d)
  BY DEF Attended
<1>1. CASE Call(c)
  <2>1. at[c] = "new"
    BY <1>1 DEF Call
  <2>2. at[c] \notin Settled /\ at[c] # "connecting"
    BY <2>1 DEF Settled
  <2>3. CASE Reject({c}) /\ unsettled' = unsettled
    BY <1>0, <2>2, <2>3, RejectAttends DEF CallAttended
  <2>4. CASE Proceed({c}, TRUE) /\ unsettled' = unsettled
    BY <1>0, <2>2, <2>4, ProceedAttends DEF CallAttended
  <2>5. CASE connectPromise \in Sockets /\ Await(c, connectPromise) /\ unsettled' = unsettled
    <3>1. connectPromise \in unsettled'
      BY <2>5, NoneIsNoSocket DEF ClientType
    <3> QED
      BY <2>1, <2>5, <3>1, AwaitAttends
  <2>6. CASE \E g \in Sockets : NewAttempt(g) /\ Await(c, g)
    <3>1. PICK g \in Sockets : NewAttempt(g) /\ Await(c, g)
      BY <2>6
    <3>2. g \in unsettled' /\ unsettled \subseteq unsettled'
      BY <3>1 DEF NewAttempt
    <3> QED
      BY <2>1, <3>1, <3>2, AwaitAttends
  <2> QED
    BY <1>1, <2>3, <2>4, <2>5, <2>6 DEF Call, FailedAttempt, client
<1>2. CASE Claimed(c)
  BY <1>2, NothingAttended DEF Claimed, client
<1>3. CASE Accepted(c)
  <2>1. SUFFICES ASSUME NEW d \in Calls PROVE CallAttended(d)' /\ Keeps(d)
    BY DEF Attended, KeepsSettled
  <2>2. /\ d # c => at'[d] = at[d] /\ armed'[d] = armed[d]
        /\ awaits' = awaits /\ unsettled' = unsettled
    BY <1>3 DEF Accepted, CallsType, client
  <2>3. \/ /\ at[c] = "pending" /\ c \in Requests
           /\ at'[c] \in {"alias", "accepted"} /\ armed'[c] = armed[c] \ {"acceptedTimer"}
        \/ /\ at[c] = "pending"
           /\ at'[c] = "resolved" /\ armed'[c] = {}
        \/ at'[c] = at[c] /\ armed'[c] = armed[c]
    BY <1>3 DEF Accepted, CallsType, AcceptedTimer
  <2>4. CallAttended(c)' /\ Keeps(c)
    BY <1>0, <2>2, <2>3 DEF CallAttended, Keeps, Timers, Settled
  <2>5. CASE d # c
    BY <1>0, <2>2, <2>5 DEF CallAttended, Keeps, Timers
  <2> QED
    BY <2>4, <2>5
<1>4. CASE Result(c)
  <2>0. PICK how \in Settled : Answer(c, how)
    BY <1>4 DEF Result, Settled
  <2>1. SUFFICES ASSUME NEW d \in Calls PROVE CallAttended(d)' /\ Keeps(d)
    BY DEF Attended, KeepsSettled
  <2>2. awaits' = awaits /\ unsettled' = unsettled
    BY <2>0 DEF Answer, client
  <2>3. CASE UNCHANGED <<at, armed>>
    BY <1>0, <2>2, <2>3 DEF CallAttended, Keeps, Timers
  <2>4. CASE /\ at[c] \in Pending
             /\ at' = [at EXCEPT ![c] = "lost"] /\ armed' = [armed EXCEPT ![c] = {}]
    BY <1>0, <2>2, <2>4 DEF CallAttended, Keeps, Timers, CallsType, Pending, Settled
  <2>5. CASE /\ at[c] \in Pending
             /\ at' = Put(at, {c} \cup Aliases(c), how)
             /\ armed' = Put(armed, {c} \cup Aliases(c), {})
    <3>1. d \in {c} \cup Aliases(c) => at[d] \notin Settled
      BY <2>5 DEF Aliases, Pending, Settled
    <3>2. /\ at'[d] = IF d \in {c} \cup Aliases(c) THEN how ELSE at[d]
          /\ armed'[d] = IF d \in {c} \cup Aliases(c) THEN {} ELSE armed[d]
      BY <2>5 DEF Put, CallsType
    <3> QED
      BY <1>0, <2>2, <3>1, <3>2 DEF CallAttended, Keeps, Timers, Settled
  <2> QED
    BY <2>0, <2>3, <2>4, <2>5 DEF Answer
<1>5. CASE AcceptTimeout(c)
  <2>0. unsettled' = unsettled
    BY <1>5 DEF AcceptTimeout, client
  <2>1. CASE at[c] = "pending" /\ Reject({c})
    BY <1>0, <2>0, <2>1, RejectAttends DEF CallAttended, Settled
  <2>2. CASE /\ at[c] # "pending"
             /\ armed' = [armed EXCEPT ![c] = @ \ {"acceptedTimer"}]
             /\ UNCHANGED <<at, awaits>>
    BY <1>0, <2>0, <2>2 DEF CallAttended, Keeps, Timers, CallsType, Attended, KeepsSettled
  <2> QED
    BY <1>5, <2>1, <2>2 DEF AcceptTimeout
<1>6. CASE Timeout(c)
  <2>1. at[c] \notin Settled
    BY <1>0, <1>6 DEF Timeout, Fires, CallAttended
  <2>2. /\ at' = [at EXCEPT ![c] = "rejected"] /\ armed' = [armed EXCEPT ![c] = @ \ {"timer"}]
        /\ awaits' = awaits /\ unsettled' = unsettled
    BY <1>6 DEF Timeout, client
  <2> QED
    BY <1>0, <2>1, <2>2 DEF CallAttended, Keeps, Timers, CallsType, Settled, Attended, KeepsSettled
<1> QED
  BY <1>1, <1>2, <1>3, <1>4, <1>5, <1>6 DEF OfCall

LEMMA SocketAttends ==
    ASSUME ClientType, CallsType, Attended, NEW g \in Sockets, OfSocket(g)
    PROVE  Attended' /\ KeepsSettled
<1>0. \A c \in Calls : CallAttended(c)
  BY DEF Attended
<1>a. \A G : \A c \in Calls : c \in Awaiting(G) => at[c] \notin Settled
  BY DEF Awaiting, Settled
<1>b. \A G : \A c \in Calls :
          at[c] = "connecting" /\ c \notin Awaiting(G) => awaits[c] \in unsettled \ G
  BY <1>0 DEF Awaiting, CallAttended
<1>1. CASE Open(g)
  BY <1>1, NothingAttended DEF Open, client, calls
<1>2. CASE HelloAck(g)
  <2>1. CASE unsettled = {}
    BY <1>2, <2>1, NothingAttended DEF HelloAck, client, calls
  <2>2. CASE unsettled # {}
    <3>1. Proceed(Awaiting(unsettled), Usable(ws, sock))
      BY <1>2, <2>2 DEF HelloAck
    <3>2. Proceed(Awaiting(unsettled), TRUE) \/ Reject(Awaiting(unsettled))
      BY <3>1 DEF Proceed
    <3>3. \A c \in Calls : at[c] = "connecting" /\ c \notin Awaiting(unsettled)
                           => awaits[c] \in unsettled'
      BY <1>b
    <3> QED
      BY <1>a, <3>2, <3>3, ProceedAttends, RejectAttends
  <2> QED
    BY <2>1, <2>2
<1>3. CASE HelloError(g)
  <2>1. CASE unsettled = {}
    BY <1>3, <2>1, NothingAttended DEF HelloError, client, calls
  <2>2. CASE unsettled # {}
    <3>1. Reject(Awaiting(unsettled))
      BY <1>3, <2>2 DEF HelloError
    <3>2. \A c \in Calls : at[c] = "connecting" /\ c \notin Awaiting(unsettled)
                           => awaits[c] \in unsettled'
      BY <1>b
    <3> QED
      BY <1>a, <3>1, <3>2, RejectAttends
  <2> QED
    BY <2>1, <2>2
<1>4. CASE ConnectTimeout(g)
  <2>1. Reject(Awaiting(Failing(g))) /\ unsettled' = unsettled \ Failing(g)
    BY <1>4 DEF ConnectTimeout
  <2>2. \A c \in Calls : at[c] = "connecting" /\ c \notin Awaiting(Failing(g))
                         => awaits[c] \in unsettled'
    BY <1>b, <2>1
  <2> QED
    BY <1>a, <2>1, <2>2, RejectAttends
<1>5. CASE CloseEvent(g)
  <2> DEFINE C == Awaiting({g}) \cup IF WasConnected THEN InFlight ELSE {}
  <2>1. Reject(C) /\ unsettled' = unsettled \ {g}
    BY <1>5 DEF CloseEvent
  <2>2. \A c \in Calls : at[c] = "connecting" /\ c \notin C => awaits[c] \in unsettled'
    BY <1>b, <2>1
  <2>3. \A c \in Calls : c \in C => at[c] \notin Settled
    BY <1>a DEF InFlight, Pending, Settled
  <2> HIDE DEF C
  <2> QED
    BY <2>1, <2>2, <2>3, RejectAttends
<1>6. CASE Closed(g) \/ Lost(g)
  BY <1>5, <1>6 DEF Closed, Lost
<1>7. CASE GatewayCloses(g)
  BY <1>7, NothingAttended DEF GatewayCloses, client, calls
<1> QED
  BY <1>1, <1>2, <1>3, <1>4, <1>6, <1>7 DEF OfSocket

LEMMA AttendedStep ==
    ASSUME TypeOK, Attended, [Next]_vars
    PROVE  Attended' /\ KeepsSettled
<1>0. ClientType /\ CallsType
  BY TypeParts
<1>1. CASE ReconnectFires
  BY <1>1, NothingAttended DEF ReconnectFires, NewAttempt, calls
<1>2. CASE Close
  <2>1. Reject(InFlight) /\ unsettled' = unsettled
    BY <1>2 DEF Close
  <2>2. \A c \in Calls : c \in InFlight => at[c] \notin Settled
    BY DEF InFlight, Pending, Settled
  <2>3. \A c \in Calls : at[c] = "connecting" => awaits[c] \in unsettled'
    BY <2>1 DEF Attended, CallAttended
  <2> QED
    BY <1>0, <2>1, <2>2, <2>3, RejectAttends
<1>3. CASE \E g \in Sockets : OfSocket(g)
  BY <1>0, <1>3, SocketAttends
<1>4. CASE \E c \in Calls : OfCall(c)
  BY <1>0, <1>4, CallAttends
<1>5. CASE UNCHANGED vars
  BY <1>5, NothingAttended DEF vars, client, past, calls
<1> QED
  BY <1>1, <1>2, <1>3, <1>4, <1>5 DEF Next

\* A lost connection is made again: whatever ends an attempt or a connection
\* leaves something behind that starts the next one.
LEMMA PlannedStep ==
    ASSUME TypeOK, Attended, ReconnectPlanned, [Next]_vars
    PROVE  ReconnectPlanned'
<1>0. ClientType /\ NetworkType /\ CallsType
  BY TypeParts
<1> SUFFICES ASSUME url' = "valid", state' = "disconnected", ~closing', ~authFailed',
                    \E c \in Calls : at'[c] # "new"
             PROVE  reconnectTimer' \/ unsettled' # {} \/ \E g \in Sockets : sock'[g] # "closed"
  BY DEF ReconnectPlanned
<1>a. CASE /\ UNCHANGED client
           /\ \A g \in Sockets : sock[g] # "closed" => sock'[g] # "closed"
           /\ \A c \in Calls : at[c] = "new" => at'[c] = "new"
  BY <1>0, <1>a DEF ReconnectPlanned, client
<1>1. CASE ReconnectFires
  <2>1. ~Connected
    BY <1>1 DEF ReconnectFires, Connected
  <2>2. CASE /\ connectPromise # None
             /\ UNCHANGED <<url, connectPromise, unsettled>>
    BY <1>0, <2>2 DEF ClientType
  <2>3. CASE \E g \in Sockets : NewAttempt(g)
    BY <2>3 DEF NewAttempt
  <2>4. closing' = closing
    BY <1>1 DEF ReconnectFires, NewAttempt
  <2> QED
    BY <1>1, <2>1, <2>2, <2>3, <2>4 DEF ReconnectFires
<1>2. CASE Close
  BY <1>2 DEF Close
<1>3. ASSUME NEW g \in Sockets, OfSocket(g)
      PROVE  reconnectTimer' \/ unsettled' # {} \/ \E h \in Sockets : sock'[h] # "closed"
  <2>1. CASE Open(g)
    BY <1>0, <2>1 DEF Open, NetworkType
  <2>2. CASE HelloAck(g)
    BY <1>0, <1>a, <2>2 DEF HelloAck, Receives, client, past, NetworkType
  <2>3. CASE HelloError(g)
    BY <1>0, <1>a, <2>3 DEF HelloError, Receives, client, past, NetworkType
  <2>4. CASE ConnectTimeout(g)
    BY <2>4 DEF ConnectTimeout, ScheduleReconnect, MaySchedule
  <2>5. CASE CloseEvent(g)
    BY <2>5 DEF CloseEvent, ScheduleReconnect, MaySchedule
  <2>6. CASE GatewayCloses(g)
    BY <1>0, <2>6 DEF GatewayCloses, NetworkType
  <2> QED
    BY <1>3, <2>1, <2>2, <2>3, <2>4, <2>5, <2>6 DEF OfSocket, Closed, Lost
<1>4. ASSUME NEW c \in Calls, OfCall(c)
      PROVE  reconnectTimer' \/ unsettled' # {} \/ \E g \in Sockets : sock'[g] # "closed"
  <2>1. CASE Call(c)
    <3>1. CASE UNCHANGED client /\ (Refuses \/ Connected)
      BY <1>0, <3>1 DEF Refuses, Connected, ClientType, client
    <3>2. CASE connectPromise \in Sockets /\ UNCHANGED client
      BY <1>0, <3>2, NoneIsNoSocket DEF ClientType, client
    <3>3. CASE \E g \in Sockets : NewAttempt(g)
      BY <3>3 DEF NewAttempt
    <3>4. ~FailedAttempt
      BY DEF FailedAttempt
    <3> QED
      BY <2>1, <3>1, <3>2, <3>3, <3>4 DEF Call
  <2>2. ~Call(c) => UNCHANGED client /\ UNCHANGED sock
    BY <1>4 DEF OfCall, Claimed, Accepted, Result, Answer, AcceptTimeout, Timeout, network
  <2>3. ~Call(c) /\ at[c] = "new" => at' = at
    <3>1. CASE Claimed(c)
      BY <3>1 DEF Claimed
    <3>2. CASE Accepted(c)
      BY <3>2 DEF Accepted
    <3>3. CASE Result(c)
      BY <3>3 DEF Result, Answer, Pending
    <3>4. CASE AcceptTimeout(c)
      BY <3>4 DEF AcceptTimeout
    <3>5. CASE Timeout(c)
      BY <3>5 DEF Timeout, Fires, Attended, CallAttended
    <3> QED
      BY <1>4, <3>1, <3>2, <3>3, <3>4, <3>5 DEF OfCall
  <2>4. ~Call(c) => \E d \in Calls : at[d] # "new"
    BY <2>3
  <2> QED
    BY <2>1, <2>2, <2>4 DEF ReconnectPlanned, client
<1>5. CASE UNCHANGED vars
  BY <1>a, <1>5 DEF vars, client, past, calls, network
<1> QED
  BY <1>1, <1>2, <1>3, <1>4, <1>5 DEF Next

\* What holds of the calls and of the next connection in every state.
WatchInv == TypeOK /\ Attended /\ ReconnectPlanned

LEMMA WatchInvariant == Spec => [](WatchInv)
<1>1. Init => WatchInv
  <2> HAVE Init
  <2>1. TypeOK
    BY InitType
  <2> QED
    BY <2>1 DEF Init, WatchInv, Attended, CallAttended, ReconnectPlanned, Settled
<1>2. WatchInv /\ [Next]_vars => WatchInv'
  BY TypeStep, AttendedStep, PlannedStep DEF WatchInv
<1> QED
  BY <1>1, <1>2, PTL DEF Spec

\* Nothing is stranded: in every state a call that is not settled awaits an attempt
\* whose timer runs, or has the timers that will settle it, and a client that has
\* lost its connection has a timer, an attempt or a close event that starts the next.
THEOREM CallsAreWatched == Spec => []Watched
<1>1. WatchInv => Watched
  BY DEF WatchInv, Attended, CallAttended, Watched
<1> QED
  BY <1>1, WatchInvariant, PTL

\* A promise is settled once: no later answer, timer, close event or close() gives a
\* call that was resolved another outcome, although its acceptedTimer may still be
\* running and its record still stand among the aliases.
THEOREM SettledOnce == Spec => [][KeepsSettled]_vars
<1>1. WatchInv /\ [Next]_vars => [KeepsSettled]_vars
  BY AttendedStep DEF WatchInv
<1> QED
  BY <1>1, WatchInvariant, PTL DEF Spec

-----------------------------------------------------------------------------
(* The sockets, those that overlap included.                              *)

\* An attempt lasts no longer than its socket; only an open socket has been greeted;
\* whoever is connected has a socket and no attempt left; without a URL there is none.
AnySockets ==
    /\ \A g \in unsettled : sock[g] # "closed"
    /\ \A g \in Sockets : hello[g] # "none" => sock[g] \notin {"closed", "connecting"}
    /\ state = "connected" => unsettled = {} /\ \E g \in Sockets : sock[g] # "closed"
    /\ url # "valid" => \A g \in Sockets : sock[g] = "closed"

\* Unless they overlap there is one socket at a time, and the client has it: it is
\* the one it waits for or the one it is connected on.
OneSocket ==
    /\ \A g, h \in Sockets : sock[g] # "closed" /\ sock[h] # "closed" => g = h
    /\ \A g \in Sockets : ~closing /\ sock[g] = "leaving" => unsettled = {}
    /\ \A g \in Sockets :
          ~closing /\ sock[g] \in {"connecting", "open"}
          => connectPromise = g \/ (state = "connected" /\ hello[g] = "answered")
    /\ \A g \in Sockets : sock[g] \in {"connecting", "open"} => ws = g
    /\ state = "connected" /\ ~closing => ws # None /\ hello[ws] = "answered"

SocketInv == AnySockets /\ (~overlap => OneSocket)

\* Calls are in flight only while the client is connected.
FlightInv == InFlight \ overtaken # {} => state = "connected"

\* A connect() past its early returns starts afresh when no socket is left.
LEMMA AttemptKeeps ==
    ASSUME ClientType, NetworkType, SocketInv, FlightInv, NEW g \in Sockets, NewAttempt(g)
    PROVE  SocketInv' /\ InFlight \ overtaken' = {}
<1> USE DEF ClientType, NetworkType, SocketInv
<1>1. /\ state' = "connecting" /\ connectPromise' = g /\ unsettled' = unsettled \cup {g}
      /\ ws' = g /\ url' = "valid"
      /\ \A h \in Sockets : sock'[h] = IF h = g THEN "connecting" ELSE sock[h]
      /\ \A h \in Sockets : hello'[h] = IF h = g THEN "none" ELSE hello[h]
  BY DEF NewAttempt
<1>2. AnySockets'
  BY <1>1 DEF AnySockets
<1>3. CASE overlap'
  BY <1>2, <1>3 DEF NewAttempt
<1>4. CASE ~overlap'
  <2>1. \A h \in Sockets : sock[h] = "closed"
    BY <1>4 DEF NewAttempt
  <2>2. state # "connected" /\ unsettled = {} /\ \A h \in Sockets : hello[h] = "none"
    BY <2>1 DEF AnySockets
  <2>3. OneSocket'
    BY <1>1, <2>1, <2>2 DEF OneSocket
  <2> QED
    BY <1>2, <1>4, <2>2, <2>3 DEF NewAttempt, FlightInv
<1> QED
  BY <1>3, <1>4

LEMMA SocketsOfSocket ==
    ASSUME ClientType, NetworkType, SocketInv, NEW g \in Sockets, OfSocket(g)
    PROVE  SocketInv'
<1> USE DEF ClientType, NetworkType
<1>0. /\ AnySockets
      /\ overlap' = overlap
  BY DEF SocketInv, OfSocket, Open, HelloAck, HelloError, ConnectTimeout, Closed, Lost, CloseEvent,
         GatewayCloses, past
<1>1. CASE Open(g)
  <2>1. /\ \A h \in Sockets : sock'[h] = IF h = g THEN "open" ELSE sock[h]
        /\ sock[g] = "connecting" /\ hello[g] = "none"
        /\ UNCHANGED client
    BY <1>0, <1>1 DEF Open, AnySockets
  <2>2. \A h \in Sockets :
            hello'[h] = hello[h] \/ (sock'[h] = "open" /\ hello'[h] = "sent" /\ hello[h] = "none")
    BY <1>1 DEF Open, Usable
  <2>3. AnySockets'
    BY <1>0, <2>1, <2>2 DEF AnySockets, client
  <2>4. ASSUME OneSocket PROVE OneSocket'
    <3>1. ws = g /\ ws # None
      BY <2>1, <2>4, NoneIsNoSocket DEF OneSocket
    <3>2. \A h \in Sockets : hello'[h] = IF h = g THEN "sent" ELSE hello[h]
      BY <1>1, <2>1, <3>1 DEF Open, Usable
    <3> QED
      BY <2>1, <2>4, <3>1, <3>2 DEF OneSocket, client
  <2> QED
    BY <1>0, <2>3, <2>4 DEF SocketInv
<1>2. CASE HelloAck(g)
  <2>1. /\ sock' = sock /\ sock[g] \in {"open", "leaving"} /\ hello[g] = "sent"
        /\ \A h \in Sockets : hello'[h] = IF h = g THEN "answered" ELSE hello[h]
    BY <1>2 DEF HelloAck, Receives
  <2>2. CASE unsettled = {}
    <3>1. UNCHANGED client
      BY <1>2, <2>2 DEF HelloAck
    <3>2. AnySockets'
      BY <1>0, <2>1, <3>1 DEF AnySockets, client
    <3>3. OneSocket => OneSocket'
      BY <2>1, <3>1 DEF OneSocket, client
    <3> QED
      BY <1>0, <3>2, <3>3 DEF SocketInv
  <2>3. CASE unsettled # {}
    <3>1. /\ state' = "connected" /\ connectPromise' = None /\ unsettled' = {}
          /\ ws' = ws /\ closing' = closing /\ url' = url
      BY <1>2, <2>3 DEF HelloAck
    <3>2. AnySockets'
      BY <1>0, <2>1, <3>1 DEF AnySockets
    <3>3. ASSUME OneSocket PROVE OneSocket'
      <4>1. ~closing => sock[g] = "open" /\ ws = g
        BY <2>1, <2>3, <3>3 DEF OneSocket
      <4> QED
        BY <2>1, <3>1, <3>3, <4>1, NoneIsNoSocket DEF OneSocket
    <3> QED
      BY <1>0, <3>2, <3>3 DEF SocketInv
  <2> QED
    BY <2>2, <2>3
<1>3. CASE HelloError(g)
  <2>1. /\ sock[g] \in {"open", "leaving"} /\ hello[g] = "sent"
        /\ \A h \in Sockets : hello'[h] = IF h = g THEN "answered" ELSE hello[h]
    BY <1>3 DEF HelloError, Receives
  <2>2. CASE unsettled = {}
    <3>1. UNCHANGED client /\ sock' = sock
      BY <1>3, <2>2 DEF HelloError
    <3>2. AnySockets'
      BY <1>0, <2>1, <3>1 DEF AnySockets, client
    <3>3. OneSocket => OneSocket'
      BY <2>1, <3>1 DEF OneSocket, client
    <3> QED
      BY <1>0, <3>2, <3>3 DEF SocketInv
  <2>3. CASE unsettled # {}
    <3>1. /\ state' = "disconnected" /\ connectPromise' = None /\ unsettled' = {}
          /\ ws' = ws /\ closing' = closing /\ url' = url /\ Leave(ws)
      BY <1>3, <2>3 DEF HelloError
    <3>2. \A h \in Sockets : /\ sock'[h] \in {"closed", "connecting"} => sock'[h] = sock[h]
                             /\ sock'[h] # "closed" <=> sock[h] # "closed"
      <4>1. SUFFICES ASSUME NEW h \in Sockets
                     PROVE  /\ sock'[h] \in {"closed", "connecting"} => sock'[h] = sock[h]
                            /\ sock'[h] # "closed" <=> sock[h] # "closed"
        OBVIOUS
      <4>2. CASE h = ws
        BY <3>1, <4>2, LeaveKeeps, NoneIsNoSocket
      <4>3. CASE h # ws
        BY <3>1, <4>3, LeaveKeeps
      <4> QED
        BY <4>2, <4>3
    <3>3. AnySockets'
      BY <1>0, <2>1, <3>1, <3>2 DEF AnySockets
    <3>4. ASSUME OneSocket PROVE OneSocket'
      <4>1. \A h \in Sockets : sock'[h] \notin {"connecting", "open"}
        BY <3>1, <3>4, LeaveKeeps, NoneIsNoSocket DEF OneSocket
      <4> QED
        BY <3>1, <3>2, <3>4, <4>1 DEF OneSocket
    <3> QED
      BY <1>0, <3>3, <3>4 DEF SocketInv
  <2> QED
    BY <2>2, <2>3
<1>4. CASE ConnectTimeout(g)
  <2>1. /\ unsettled' = unsettled \ Failing(g) /\ connectPromise' = None
        /\ state' = "disconnected" /\ closing' = closing /\ url' = url
    BY <1>4 DEF ConnectTimeout, ForgetPromise
  <2>2. \A h \in Sockets :
            \/ sock'[h] = sock[h] /\ hello'[h] = hello[h]
               /\ (h = ws => sock[h] = "closed")
            \/ h = ws /\ sock[h] = "connecting" /\ sock'[h] = "closed" /\ hello'[h] = "none"
            \/ h = ws /\ sock[h] # "closed" /\ sock'[h] = "closing"
    BY <1>4, NoneIsNoSocket DEF ConnectTimeout, Terminate, Put
  <2>3. AnySockets'
    <3>1. \A h \in unsettled' : sock'[h] # "closed"
      BY <1>0, <2>1, <2>2, NoneIsNoSocket DEF AnySockets, Failing
    <3>2. \A h \in Sockets : hello'[h] # "none" => sock'[h] \notin {"closed", "connecting"}
      BY <1>0, <2>2 DEF AnySockets
    <3>3. url' # "valid" => \A h \in Sockets : sock'[h] = "closed"
      BY <1>0, <2>1, <2>2 DEF AnySockets
    <3> QED
      BY <2>1, <3>1, <3>2, <3>3 DEF AnySockets
  <2>4. ASSUME OneSocket PROVE OneSocket'
    <3>1. \A h \in Sockets : sock'[h] \notin {"connecting", "open"}
      BY <2>2, <2>4 DEF OneSocket
    <3>2. \A h \in Sockets : /\ sock'[h] # "closed" => sock[h] # "closed"
                             /\ sock'[h] = "leaving" => sock[h] = "leaving"
      BY <2>2
    <3> QED
      BY <2>1, <2>4, <3>1, <3>2 DEF OneSocket
  <2> QED
    BY <1>0, <2>3, <2>4 DEF SocketInv
<1>5. ASSUME CloseEvent(g), sock[g] # "closed"
      PROVE  SocketInv'
  <2>1. /\ unsettled' = unsettled \ {g} /\ ws' = None /\ connectPromise' = None
        /\ state' = "disconnected" /\ closing' = closing /\ url' = url
        /\ \A h \in Sockets : sock'[h] = IF h = g THEN "closed" ELSE sock[h]
        /\ \A h \in Sockets : hello'[h] = IF h = g THEN "none" ELSE hello[h]
    BY <1>5 DEF CloseEvent, Disconnect
  <2>2. AnySockets'
    BY <1>0, <2>1 DEF AnySockets
  <2>3. ASSUME OneSocket PROVE OneSocket'
    <3>1. \A h \in Sockets : sock'[h] = "closed"
      BY <1>5, <2>1, <2>3 DEF OneSocket
    <3> QED
      BY <2>1, <3>1 DEF OneSocket
  <2> QED
    BY <1>0, <2>2, <2>3 DEF SocketInv
<1>6. CASE Closed(g) \/ Lost(g)
  BY <1>5, <1>6 DEF Closed, Lost
<1>7. CASE GatewayCloses(g)
  <2>1. /\ UNCHANGED client /\ hello' = hello /\ sock[g] = "open"
        /\ \A h \in Sockets : sock'[h] = IF h = g THEN "closing" ELSE sock[h]
    BY <1>7 DEF GatewayCloses
  <2>2. AnySockets'
    BY <1>0, <2>1 DEF AnySockets, client
  <2>3. OneSocket => OneSocket'
    BY <2>1 DEF OneSocket, client
  <2> QED
    BY <1>0, <2>2, <2>3 DEF SocketInv
<1> QED
  BY <1>1, <1>2, <1>3, <1>4, <1>6, <1>7 DEF OfSocket

\* A client that stops being connected rejects what is in flight.
LEMMA FlightOfSocket ==
    ASSUME ClientType, CallsType, SocketInv, FlightInv, NEW g \in Sockets, OfSocket(g)
    PROVE  FlightInv'
<1>0. AnySockets /\ overtaken' = overtaken
  BY DEF SocketInv, OfSocket, Open, HelloAck, HelloError, ConnectTimeout, Closed, Lost, CloseEvent,
         GatewayCloses, past
<1>1. ASSUME NEW C, Reject(C), state = "connected" => InFlight \subseteq C
      PROVE  InFlight' \ overtaken' = {}
  <2>1. SUFFICES ASSUME NEW c \in Calls, c \in InFlight', c \notin overtaken PROVE FALSE
    BY <1>0 DEF InFlight
  <2>2. at'[c] = IF c \in C THEN "rejected" ELSE at[c]
    BY <1>1, RejectKeeps
  <2>3. c \in InFlight /\ c \notin C
    BY <2>1, <2>2 DEF InFlight, Pending
  <2> QED
    BY <1>1, <2>1, <2>3 DEF FlightInv
<1>2. CASE at' = at /\ state' = state
  BY <1>0, <1>2 DEF FlightInv, InFlight
<1>3. CASE Open(g) \/ GatewayCloses(g)
  BY <1>2, <1>3 DEF Open, GatewayCloses, client, calls
<1>4. CASE HelloAck(g)
  <2>1. CASE unsettled = {}
    BY <1>2, <1>4, <2>1 DEF HelloAck, client, calls
  <2>2. CASE unsettled # {}
    BY <1>4, <2>2 DEF HelloAck, FlightInv
  <2> QED
    BY <2>1, <2>2
<1>5. CASE HelloError(g)
  <2>1. CASE unsettled = {}
    BY <1>2, <1>5, <2>1 DEF HelloError, client, calls
  <2>2. CASE unsettled # {}
    <3>1. Reject(Awaiting(unsettled)) /\ state # "connected"
      BY <1>0, <1>5, <2>2 DEF HelloError, AnySockets
    <3> QED
      BY <1>1, <3>1 DEF FlightInv
  <2> QED
    BY <2>1, <2>2
<1>6. CASE ConnectTimeout(g)
  <2>1. Reject(Awaiting(Failing(g))) /\ state # "connected"
    BY <1>0, <1>6 DEF ConnectTimeout, AnySockets
  <2> QED
    BY <1>1, <2>1 DEF FlightInv
<1>7. CASE CloseEvent(g)
  <2> DEFINE C == Awaiting({g}) \cup IF WasConnected THEN InFlight ELSE {}
  <2>1. Reject(C)
    BY <1>7 DEF CloseEvent
  <2>2. state = "connected" => InFlight \subseteq C
    BY DEF WasConnected
  <2> HIDE DEF C
  <2> QED
    BY <1>1, <2>1, <2>2 DEF FlightInv
<1> QED
  BY <1>3, <1>4, <1>5, <1>6, <1>7 DEF OfSocket, Closed, Lost

\* A call enters flight only over an open connection.
LEMMA FlightOfCall ==
    ASSUME ClientType, NetworkType, CallsType, SocketInv, FlightInv, NEW c \in Calls, OfCall(c)
    PROVE  SocketInv' /\ FlightInv'
<1>a. CASE UNCHANGED <<client, network, past>> /\ (InFlight' \subseteq InFlight \/ state = "connected")
  BY <1>a DEF SocketInv, AnySockets, OneSocket, FlightInv, client, past, network
<1>b. ASSUME NEW C, Reject(C) PROVE InFlight' \subseteq InFlight
  <2>1. \A d \in Calls : at'[d] \in {"rejected", at[d]}
    BY <1>b, RejectKeeps
  <2> QED
    BY <2>1 DEF InFlight, Pending
<1>1. CASE Call(c)
  <2>1. CASE Reject({c}) /\ UNCHANGED <<client, network, past>>
    BY <1>a, <1>b, <2>1
  <2>2. CASE Connected /\ UNCHANGED <<client, network, past>>
    BY <1>a, <2>2 DEF Connected
  <2>3. ASSUME NEW g, Await(c, g) PROVE InFlight' \subseteq InFlight
    BY <2>3 DEF Await, InFlight, CallsType, Pending
  <2>4. CASE Await(c, connectPromise) /\ UNCHANGED <<client, network, past>>
    BY <1>a, <2>3, <2>4
  <2>5. CASE \E g \in Sockets : NewAttempt(g) /\ Await(c, g)
    <3>1. PICK g \in Sockets : NewAttempt(g) /\ Await(c, g)
      BY <2>5
    <3>2. SocketInv' /\ InFlight \ overtaken' = {}
      BY <3>1, AttemptKeeps
    <3> QED
      BY <2>3, <3>1, <3>2 DEF FlightInv
  <2>6. CASE ~closing /\ ~Connected /\ connectPromise = None /\ FailedAttempt /\ Reject({c})
    <3>1. SocketInv'
      <4>1. /\ UNCHANGED <<url, ws, unsettled, closing, sock, hello, overlap>>
            /\ state' = "disconnected" /\ connectPromise' = Dead
        BY <2>6 DEF FailedAttempt, network, past
      <4>2. AnySockets'
        BY <4>1 DEF SocketInv, AnySockets
      <4>3. ASSUME OneSocket PROVE OneSocket'
        <5>1. \A h \in Sockets : sock[h] = "closed"
          BY <2>6 DEF SocketInv, AnySockets, FailedAttempt
        <5> QED
          BY <4>1, <4>3, <5>1 DEF OneSocket
      <4> QED
        BY <4>1, <4>2, <4>3 DEF SocketInv
    <3>2. FlightInv'
      <4>1. state # "connected"
        BY <2>6 DEF SocketInv, AnySockets, FailedAttempt
      <4>2. InFlight' \subseteq InFlight /\ overtaken' = overtaken
        BY <2>6, <1>b DEF FailedAttempt, past
      <4> QED
        BY <4>1, <4>2 DEF FlightInv
    <3> QED
      BY <3>1, <3>2
  <2> QED
    BY <1>1, <2>1, <2>2, <2>4, <2>5, <2>6 DEF Call
<1>2. CASE Claimed(c)
  BY <1>a, <1>2 DEF Claimed, InFlight
<1>3. CASE Accepted(c)
  <2>1. InFlight' \subseteq InFlight
    BY <1>3 DEF Accepted, InFlight, CallsType, Pending
  <2> QED
    BY <1>a, <1>3, <2>1 DEF Accepted
<1>4. CASE Result(c)
  <2>1. PICK how \in Settled : Answer(c, how)
    BY <1>4 DEF Result, Settled
  <2>2. InFlight' \subseteq InFlight
    BY <2>1 DEF Answer, Put, InFlight, CallsType, Pending, Settled
  <2> QED
    BY <1>a, <2>1, <2>2 DEF Answer
<1>5. CASE AcceptTimeout(c)
  <2>1. InFlight' \subseteq InFlight
    BY <1>5, <1>b DEF AcceptTimeout, InFlight
  <2> QED
    BY <1>a, <1>5, <2>1 DEF AcceptTimeout
<1>6. CASE Timeout(c)
  <2>1. InFlight' \subseteq InFlight
    BY <1>6 DEF Timeout, InFlight, CallsType, Pending
  <2> QED
    BY <1>a, <1>6, <2>1 DEF Timeout
<1> QED
  BY <1>1, <1>2, <1>3, <1>4, <1>5, <1>6 DEF OfCall

LEMMA SocketStep ==
    ASSUME TypeOK, SocketInv, FlightInv, [Next]_vars
    PROVE  SocketInv' /\ FlightInv'
<1>0. ClientType /\ NetworkType /\ CallsType
  BY TypeParts
<1>1. CASE ReconnectFires
  <2>1. CASE UNCHANGED <<url, state, ws, connectPromise, unsettled, heartbeat, closing,
                         authFailed, network, past>>
    BY <1>1, <2>1 DEF ReconnectFires, calls, network, past, SocketInv, AnySockets, OneSocket,
                      FlightInv, InFlight
  <2>2. CASE \E g \in Sockets : NewAttempt(g)
    <3>1. PICK g \in Sockets : NewAttempt(g)
      BY <2>2
    <3>2. SocketInv' /\ InFlight \ overtaken' = {}
      BY <1>0, <3>1, AttemptKeeps
    <3> QED
      BY <1>1, <3>2 DEF ReconnectFires, calls, FlightInv, InFlight
  <2> QED
    BY <1>1, <2>1, <2>2 DEF ReconnectFires
<1>2. CASE Close
  <2>1. /\ closing' /\ ws' = None /\ state' = "closed" /\ unsettled' = unsettled /\ hello' = hello
        /\ Leave(ws) /\ overlap' = overlap /\ url' = url
    BY <1>2 DEF Close, past
  <2>2. \A h \in Sockets : /\ sock'[h] \in {"closed", "connecting"} => sock'[h] = sock[h]
                           /\ sock'[h] # "closed" <=> sock[h] # "closed"
    <3>1. SUFFICES ASSUME NEW h \in Sockets
                   PROVE  /\ sock'[h] \in {"closed", "connecting"} => sock'[h] = sock[h]
                          /\ sock'[h] # "closed" <=> sock[h] # "closed"
      OBVIOUS
    <3>2. CASE h = ws
      BY <1>0, <2>1, <3>2, LeaveKeeps, NoneIsNoSocket
    <3>3. CASE h # ws
      BY <1>0, <2>1, <3>3, LeaveKeeps
    <3> QED
      BY <3>2, <3>3
  <2>3. AnySockets'
    BY <1>0, <2>1, <2>2 DEF SocketInv, AnySockets, ClientType
  <2>4. ASSUME OneSocket PROVE OneSocket'
    <3>1. \A h \in Sockets : sock'[h] \notin {"connecting", "open"}
      BY <1>0, <2>1, <2>4, LeaveKeeps, NoneIsNoSocket DEF OneSocket
    <3> QED
      BY <1>0, <2>1, <2>2, <2>4, <3>1 DEF OneSocket
  <2>5. SocketInv'
    BY <2>1, <2>3, <2>4 DEF SocketInv
  <2>6. \A c \in Calls : at'[c] = IF c \in InFlight THEN "rejected" ELSE at[c]
    BY <1>0, <1>2, RejectKeeps DEF Close
  <2>7. InFlight' = {}
    BY <2>6 DEF InFlight, Pending
  <2> QED
    BY <2>5, <2>7 DEF FlightInv
<1>3. CASE \E g \in Sockets : OfSocket(g)
  BY <1>0, <1>3, SocketsOfSocket, FlightOfSocket
<1>4. CASE \E c \in Calls : OfCall(c)
  BY <1>0, <1>4, FlightOfCall
<1>5. CASE UNCHANGED vars
  BY <1>5 DEF vars, client, past, calls, network, SocketInv, AnySockets, OneSocket, FlightInv, InFlight
<1> QED
  BY <1>1, <1>2, <1>3, <1>4, <1>5 DEF Next

LEMMA SocketInvariant == Spec => [](TypeOK /\ SocketInv /\ FlightInv)
<1>1. Init => TypeOK /\ SocketInv /\ FlightInv
  <2> HAVE Init
  <2>1. TypeOK
    BY InitType
  <2>2. SocketInv
    BY DEF Init, SocketInv, AnySockets, OneSocket
  <2>3. \A c \in Calls : at[c] = "new"
    BY DEF Init
  <2>4. InFlight = {}
    BY <2>3 DEF InFlight, Pending
  <2> QED
    BY <2>1, <2>2, <2>4 DEF FlightInv
<1>2. TypeOK /\ SocketInv /\ FlightInv /\ [Next]_vars => (TypeOK /\ SocketInv /\ FlightInv)'
  BY TypeStep, SocketStep
<1> QED
  BY <1>1, <1>2, PTL DEF Spec

\* Whenever the last connect() found no socket left, the client knows every socket that
\* connects or is open and calls itself connected only on one that was greeted; and
\* calls are in flight only while it is connected, so that a lost connection rejects
\* all of them, except those a connect() has overtaken.  Nothing is assumed of how
\* long a socket takes to close.
THEOREM NoSocketIsLost == Spec => []SocketsKnown
<1>1. TypeOK /\ SocketInv /\ FlightInv => SocketsKnown
  BY DEF SocketInv, OneSocket, FlightInv, SocketsKnown
<1> QED
  BY <1>1, SocketInvariant, PTL

-----------------------------------------------------------------------------
(* Which event handlers throw.                                             *)

\* The record of a send() is gone before the gateway can answer with a result: it
\* waits for 'accepted' only, which a repetition of an answered key would not get.
SendInv ==
    \A c \in Sends : /\ at[c] \notin {"accepted", "alias"}
                     /\ at[c] = "pending" => wire[c] \in {"sent", "duplicate"}

\* What a step does to the calls it rejects or lets proceed.
LEMMA SendMoved ==
    ASSUME CallsType, SendInv, NEW C, Reject(C) \/ Proceed(C, TRUE)
    PROVE  SendInv'
<1>1. SUFFICES ASSUME NEW c \in Sends
               PROVE  /\ at'[c] \notin {"accepted", "alias"}
                      /\ at'[c] = "pending" => wire'[c] \in {"sent", "duplicate"}
  BY DEF SendInv
<1>2. c \in Calls
  BY DEF Calls
<1>3. CASE Reject(C)
  BY <1>2, <1>3, RejectKeeps DEF SendInv
<1>4. CASE Proceed(C, TRUE)
  BY <1>2, <1>4, ProceedKeeps DEF SendInv
<1> QED
  BY <1>3, <1>4

\* A result that meets the record of a send() answers a repetition.
LostRepeat == \E c \in Sends \cap Repeats : at[c] = "lost"

LEMMA SendsOfCall ==
    ASSUME CallsType, SendInv, NEW c \in Calls, OfCall(c)
    PROVE  SendInv' /\ (crashed' = crashed \/ LostRepeat')
<1>0. Sends \subseteq Calls
  BY DEF Calls
<1>1. CASE Call(c)
  <2>1. ASSUME NEW g, Await(c, g) PROVE SendInv'
    BY <1>0, <2>1 DEF Await, CallsType, SendInv
  <2> QED
    BY <1>1, <2>1, SendMoved DEF Call
<1>2. CASE Claimed(c)
  BY <1>0, <1>2 DEF Claimed, Says, CallsType, SendInv
<1>3. CASE Accepted(c)
  <2>1. SUFFICES ASSUME NEW d \in Sends
                 PROVE  /\ at'[d] \notin {"accepted", "alias"}
                        /\ at'[d] = "pending" => wire'[d] \in {"sent", "duplicate"}
    BY <1>3 DEF SendInv, Accepted
  <2>2. CASE d # c
    BY <1>0, <1>3, <2>2 DEF Accepted, Says, CallsType, SendInv
  <2>3. CASE d = c
    BY <1>0, <1>3, <2>3, ClientAssumption DEF Accepted, Says, CallsType, SendInv
  <2> QED
    BY <2>2, <2>3
<1>4. CASE Result(c)
  <2>1. PICK how \in Settled :
            /\ Answer(c, how)
            /\ how = "rejected" \/ wire[c] = "accepted" \/ c \in Repeats
    BY <1>4 DEF Result, Settled
  <2>2. \E word : wire' = [wire EXCEPT ![c] = word]
    BY <1>4 DEF Result, Says
  <2>3. CASE at[c] \notin Pending
    BY <1>0, <2>1, <2>2, <2>3 DEF Answer, SendInv, CallsType, Pending
  <2>4. CASE at[c] \in Pending /\ how = "resolved" /\ c \in Sends
    <3>1. c \in Repeats
      BY <2>1, <2>4 DEF SendInv, Pending
    <3>2. at' = [at EXCEPT ![c] = "lost"]
      BY <2>1, <2>4 DEF Answer
    <3>3. LostRepeat'
      BY <2>4, <3>1, <3>2 DEF LostRepeat, CallsType
    <3>4. SendInv'
      BY <1>0, <2>2, <3>2 DEF SendInv, CallsType
    <3> QED
      BY <3>3, <3>4
  <2>5. CASE at[c] \in Pending /\ ~(how = "resolved" /\ c \in Sends)
    <3>2. /\ at' = Put(at, {c} \cup Aliases(c), how) /\ crashed' = crashed
      BY <2>1, <2>5 DEF Answer
    <3>3. \A d \in Calls : at'[d] = how \/ (d # c /\ at'[d] = at[d])
      BY <3>2 DEF Put, CallsType
    <3>4. \A d \in Calls : d # c => wire'[d] = wire[d]
      BY <2>2 DEF CallsType
    <3> QED
      BY <1>0, <3>2, <3>3, <3>4 DEF SendInv, Settled
  <2> QED
    BY <2>3, <2>4, <2>5
<1>5. CASE AcceptTimeout(c)
  <2>1. CASE Reject({c})
    BY <1>5, <2>1, SendMoved DEF AcceptTimeout
  <2>2. CASE UNCHANGED <<at, wire>>
    BY <1>5, <2>2 DEF AcceptTimeout, SendInv
  <2> QED
    BY <1>5, <2>1, <2>2 DEF AcceptTimeout
<1>6. CASE Timeout(c)
  BY <1>0, <1>6 DEF Timeout, CallsType, SendInv
<1> QED
  BY <1>1, <1>2, <1>3, <1>4, <1>5, <1>6 DEF OfCall

LEMMA SendsOfSocket ==
    ASSUME ClientType, NetworkType, CallsType, SocketInv, SendInv, NEW g \in Sockets, OfSocket(g)
    PROVE  SendInv' /\ (crashed' = crashed \/ overlap')
<1>a. UNCHANGED calls => SendInv'
  BY DEF calls, SendInv
<1>1. CASE Open(g)
  <2>1. sock[g] = "connecting" /\ sock'[g] = "open" /\ overlap' = overlap
    BY <1>1 DEF Open, NetworkType, past
  <2>2. ~overlap => ws = g /\ ws # None
    BY <2>1, NoneIsNoSocket DEF SocketInv, OneSocket
  <2> QED
    BY <1>1, <1>a, <2>1, <2>2 DEF Open, Usable, NetworkType
<1>2. CASE HelloAck(g)
  BY <1>2, <1>a, SendMoved DEF HelloAck, Proceed
<1>3. CASE HelloError(g)
  BY <1>3, <1>a, SendMoved DEF HelloError
<1>4. CASE ConnectTimeout(g)
  BY <1>4, SendMoved DEF ConnectTimeout
<1>5. CASE CloseEvent(g)
  BY <1>5, SendMoved DEF CloseEvent
<1>6. CASE GatewayCloses(g)
  BY <1>6, <1>a DEF GatewayCloses
<1> QED
  BY <1>1, <1>2, <1>3, <1>4, <1>5, <1>6 DEF OfSocket, Closed, Lost

\* Handlers throw for two reasons only.  Unless a connect() found a socket that was
\* not closed yet, 'open' finds the socket it writes hello to; and unless a send()
\* repeats a key that was answered, a result never finds the record of a send(),
\* which has no resolve.
THEOREM HandlersThrowForAReason == Spec => []ThrowsExplained
<1>1. Init => SendInv /\ ThrowsExplained
  BY DEF Init, SendInv, Calls, ThrowsExplained
<1>2. TypeOK /\ SocketInv /\ FlightInv /\ SendInv /\ ThrowsExplained /\ [Next]_vars
      => SendInv' /\ ThrowsExplained'
  <2> HAVE TypeOK /\ SocketInv /\ FlightInv /\ SendInv /\ ThrowsExplained /\ [Next]_vars
  <2>0. ClientType /\ NetworkType /\ CallsType
    BY TypeParts
  <2>1. CASE UNCHANGED vars
    BY <2>1 DEF vars, calls, past, SendInv, ThrowsExplained
  <2>2. CASE Next
    <3>1. ~crashed
      BY <2>2 DEF Next, Alive, ReconnectFires, Close, OfSocket, Open, HelloAck, HelloError,
                  ConnectTimeout, Closed, Lost, CloseEvent, GatewayCloses, OfCall, Call,
                  Claimed, Accepted, Result, AcceptTimeout, Timeout
    <3>2. CASE ReconnectFires
      BY <3>1, <3>2 DEF ReconnectFires, calls, SendInv, ThrowsExplained
    <3>3. CASE Close
      BY <2>0, <3>1, <3>3, SendMoved DEF Close, ThrowsExplained
    <3>4. CASE \E g \in Sockets : OfSocket(g)
      BY <2>0, <3>1, <3>4, SendsOfSocket DEF ThrowsExplained
    <3>5. CASE \E c \in Calls : OfCall(c)
      BY <2>0, <3>1, <3>5, SendsOfCall DEF ThrowsExplained, LostRepeat
    <3> QED
      BY <2>2, <3>2, <3>3, <3>4, <3>5 DEF Next
  <2> QED
    BY <2>1, <2>2
<1> QED
  BY <1>1, <1>2, SocketInvariant, PTL DEF Spec

-----------------------------------------------------------------------------
(* What close() leaves behind.                                             *)

\* Nothing is left: no socket, no timer that would open one, no call that waits.
Gone ==
    /\ closing
    /\ \A g \in Sockets : sock[g] = "closed"
    /\ ~reconnectTimer /\ ~heartbeat
    /\ \A c \in Calls : at[c] \in Settled \cup {"new"}
StaysGone == Gone => Gone'

LEMMA GoneOfCall ==
    ASSUME CallsType, Gone, NEW c \in Calls, OfCall(c)
    PROVE  Gone'
<1>1. UNCHANGED <<client, network, past>> => closing' /\ sock' = sock /\ ~reconnectTimer' /\ ~heartbeat'
  BY DEF Gone, client, network
<1>2. CASE Call(c)
  <2>1. Reject({c}) /\ UNCHANGED <<client, network, past>>
    BY <1>2 DEF Call, Refuses, Gone
  <2> QED
    BY <1>1, <2>1, RejectKeeps DEF Gone, Settled
<1>3. CASE Claimed(c)
  BY <1>1, <1>3 DEF Claimed, Gone
<1>4. CASE Accepted(c) \/ Result(c)
  \* No socket is left to hear an answer on.
  BY <1>4 DEF Accepted, Result, Heard, Receives, Gone
<1>5. CASE AcceptTimeout(c)
  <2>1. at[c] # "pending"
    BY DEF Gone, Settled
  <2> QED
    BY <1>1, <1>5, <2>1 DEF AcceptTimeout, Gone
<1>6. CASE Timeout(c)
  <2>1. \A d \in Calls : at'[d] = at[d] \/ at'[d] = "rejected"
    BY <1>6 DEF Timeout, CallsType
  <2> QED
    BY <1>1, <1>6, <2>1 DEF Timeout, Gone, Settled
<1> QED
  BY <1>2, <1>3, <1>4, <1>5, <1>6 DEF OfCall

LEMMA GoneOfSocket ==
    ASSUME ClientType, NetworkType, CallsType, Gone, NEW g \in Sockets, OfSocket(g)
    PROVE  Gone'
<1>1. ConnectTimeout(g)
  BY DEF OfSocket, Open, HelloAck, HelloError, Closed, Lost, GatewayCloses, Receives, Gone
<1>2. sock' = sock /\ heartbeat' = heartbeat
  BY <1>1, NoneIsNoSocket DEF ConnectTimeout, Terminate, ClientType, Gone
<1>3. closing' /\ ~reconnectTimer' /\ ~heartbeat'
  BY <1>1, <1>2 DEF ConnectTimeout, ScheduleReconnect, MaySchedule, Gone
<1>4. \A c \in Calls : at'[c] = at[c] \/ at'[c] = "rejected"
  BY <1>1, RejectKeeps DEF ConnectTimeout
<1> QED
  BY <1>2, <1>3, <1>4 DEF Gone, Settled

\* Once close() has nothing left behind, nothing comes back: no call, no connect timer
\* of an abandoned attempt and no late timer opens a socket, starts an interval or
\* leaves a call waiting.  With this the liveness in ClosedIsQuiet is only that
\* everything goes.
THEOREM ClosedStaysClosed == Spec => [][StaysGone]_vars
<1>1. TypeOK /\ [Next]_vars => [StaysGone]_vars
  <2> SUFFICES ASSUME TypeOK, Gone, Next PROVE Gone'
    BY DEF StaysGone
  <2>0. ClientType /\ NetworkType /\ CallsType
    BY TypeParts
  <2>1. ~ReconnectFires /\ ~Close
    BY DEF Gone, ReconnectFires, Close
  <2> QED
    BY <2>0, <2>1, GoneOfSocket, GoneOfCall DEF Next
<1> QED
  BY <1>1, TypeCorrect, PTL DEF Spec
=============================================================================
