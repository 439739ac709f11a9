----------------------- MODULE GatewayClientProperties -----------------------
(* What GatewayClient promises to the nodes that call it. *)
EXTENDS GatewayClient

\* Every variable stays in its range; in particular connectPromise is the promise of
\* an attempt that is not settled, or, when the URL is invalid, the rejected one
\* that every later connect() returns.
TypeOK ==
    /\ url \in {"valid", "invalid", "missing"}
    /\ state \in {"disconnected", "connecting", "connected", "closed"}
    /\ ws \in Sockets \cup {None}
    /\ unsettled \subseteq Sockets
    /\ connectPromise \in unsettled \cup {None, Dead}
    /\ connectPromise = Dead => url = "invalid"
    /\ <<reconnectTimer, heartbeat, closing, authFailed, crashed, overlap>> \in
           BOOLEAN \X BOOLEAN \X BOOLEAN \X BOOLEAN \X BOOLEAN \X BOOLEAN
    /\ overtaken \subseteq Calls
    /\ sock \in [Sockets -> {"closed", "connecting", "open", "leaving", "closing"}]
    /\ hello \in [Sockets -> {"none", "sent", "answered"}]
    /\ at \in [Calls -> {"new", "connecting", "alias", "lost"} \cup Pending \cup Settled]
    /\ awaits \in [Calls -> Sockets \cup {None}]
    /\ armed \in [Calls -> SUBSET {"timer", "acceptedTimer"}]
    /\ wire \in [Calls -> {"none", "sent", "duplicate", "told", "accepted", "answered",
                      "refused"}]
    /\ drops \in 0 .. MaxDrops
    /\ refusals \in 0 .. MaxRefusals

\* While a client with a URL is disconnected, and neither closed nor refused, something
\* is under way that will connect it: a timer, an attempt, or a socket whose
\* close event is to come.
ReconnectPlanned ==
    /\ url = "valid"
    /\ state = "disconnected" /\ ~closing /\ ~authFailed
    /\ \E c \in Calls : at[c] # "new"
    => reconnectTimer \/ unsettled # {} \/ \E g \in Sockets : sock[g] # "closed"

\* Nothing is stranded: a call that is not settled awaits an attempt that has its
\* timer, or has a timer of its own, and both of them until it is accepted; and a
\* lost connection is going to be made again.
Watched ==
    /\ \A c \in Calls :
          /\ at[c] = "connecting" => awaits[c] \in unsettled
          /\ at[c] = "pending" => armed[c] = Timers(c)
          /\ at[c] \in {"accepted", "alias"} => armed[c] = {"timer"}
    /\ ReconnectPlanned

\* Every call is settled, whatever becomes of the sockets.
CallsSettle ==
    \A c \in Calls : at[c] \in {"connecting", "pending"} ~> at[c] \in Settled \/ crashed

\* As long as connect() finds no socket that is not closed yet, the client knows every
\* socket that connects or is open, and one that calls itself connected has completed
\* its handshake on a socket it still has; this is so again after sockets have
\* overlapped, with the first connect() that finds them all closed.  And a lost
\* connection is reported to the calls in flight at once, not by their timers,
\* but to those that a connect() has overtaken: line 119 no longer sees them.
SocketsKnown ==
    /\ ~overlap => /\ \A g \in Sockets : sock[g] \in {"connecting", "open"} => ws = g
                   /\ state = "connected" /\ ~closing => ws # None /\ hello[ws] = "answered"
    /\ InFlight \ overtaken # {} => state = "connected"

\* An event handler throws for two reasons only: the close event of an old socket has
\* taken this.ws from its successor, or a result was sent to a repeated send().
ThrowsExplained == crashed => overlap \/ \E c \in Sends \cap Repeats : at[c] = "lost"

\* A client survives the restart of its gateway and hears the pending results that
\* README.md:35 has replayed: no handler throws while a call waits for one.
RestartSurvived == crashed => InFlight = {}

\* A gateway that can be reached again and again is connected to,
Reconnects ==
    Reachable => (url = "valid" /\ reconnectTimer
                    ~> state = "connected" \/ authFailed \/ closing \/ crashed)

\* and after close() nothing stays behind: no socket, no timer, no call.  Only a socket
\* that was overtaken is out of its reach.
ClosedIsQuiet ==
    closing /\ ~overlap ~> [](/\ \A g \in Sockets : sock[g] = "closed"
                             /\ ~reconnectTimer /\ ~heartbeat
                             /\ \A c \in Calls : at[c] \in Settled \cup {"new"})

\* Gateway Out reports every message as accepted or as failed (README.md:301):
\* a send() that was answered is settled.
SendReported == \A c \in Sends : at[c] # "lost"
=============================================================================
