----------------------------- MODULE Deployment -----------------------------
(***************************************************************************)
(* A Gateway Server Config and its Gateway Adapters in Node-RED, deployed, *)
(* redeployed and closed while Redis comes and goes, and a POD that calls  *)
(* through what it knows of them.                                          *)
(*                                                                         *)
(* A step is one macrotask: a promise that settles runs what awaits it.    *)
(***************************************************************************)
EXTENDS RequestContract, Sequences, FiniteSets

CONSTANTS
    Operations, Adapters, Requests,
    Questions,           \* what a call may ask: operation, payload, _request
    None,                \* no adapter
    MaxInitialRetries,   \* maxInitialRetries
    MaxServers,          \* server nodes that are constructed, one after another
    MaxStarts,           \* adapter nodes that are constructed
    MaxOutages           \* how often Redis becomes unreachable

ASSUME DeploymentAssumption ==
    /\ Adapters \subseteq AdapterConfigs(Operations)
    /\ None \notin Adapters
    /\ Questions \subseteq [op : Operations, payload : SUBSET Variables, value : Options]
    /\ {MaxInitialRetries, MaxServers, MaxStarts, MaxOutages} \subseteq Nat

VARIABLES
    redis, outages,      \* Redis answers; how often it stopped
    stage,               \* where start() of each server node is
    retries,             \* failed attempts of the client that is connecting
    held,                \* its Redis connections
    port,                \* its HTTP server listens
    closing,             \* where its close handler is
    waiting,             \* calls that await node.ready, in order
    adapters,            \* node.server.adapters
    deployed, starts,    \* the adapter nodes of the editor
    link,                \* the server node the POD is connected to
    view, wire,          \* client.capabilities, and those on their way
    at, asked,           \* where each request is, and what it asks
    seen, accepted,      \* the adapters it was checked against, by POD and server
    ran,                 \* the adapter that ran it
    unhandled            \* a promise was rejected that nobody handles

redisVars == <<redis, outages>>
serverVars == <<stage, retries, held, port, closing>>
editorVars == <<deployed, starts>>
podVars == <<link, view, wire>>
requestVars == <<at, asked, seen, accepted, ran>>
vars == <<redisVars, serverVars, waiting, adapters, editorVars, podVars, requestVars, unhandled>>

Servers == 1 .. MaxServers
Connecting == {"limiter", "queue", "command"}
Stages == {"none", "listen", "groups", "up", "failed"} \cup Connecting
NoAdapters == [op \in Operations |-> None]
Tables == [Operations -> Adapters \cup {None}]
Calls == [op : Operations, adapter : Adapters \cup {None}]

\* The server node the editor shows; 0 before the first one.
Constructed == {n \in Servers : stage[n] # "none"}
Current == Cardinality(Constructed)

-----------------------------------------------------------------------------
(* registerOperation and unregisterOperation.                              *)

\* Of the calls for one operation the last one counts; without an adapter it is
\* an unregisterOperation.
Apply(table, calls) ==
    [op \in Operations |->
        LET last == {i \in DOMAIN calls :
                        /\ calls[i].op = op
                        /\ \A j \in DOMAIN calls : calls[j].op = op => j <= i}
        IN  IF last = {} THEN table[op] ELSE calls[CHOOSE i \in last : TRUE].adapter]

\* All changes of one macrotask make one broadcast; one that repeats what the POD
\* knows is left out.
Broadcast(n, table) ==
    IF link = n /\ table # adapters[n]
    THEN wire' = Append(wire, table)
    ELSE UNCHANGED wire

Run(n, calls) ==
    LET table == Apply(adapters[n], calls)
    IN  /\ adapters' = [adapters EXCEPT ![n] = table]
        /\ Broadcast(n, table)

\* The node's asynchronous wrappers.  No adapter node awaits or catches them.
AwaitOpen(n, call) ==                                   \* slip: what is closed early stays
    waiting' = [waiting EXCEPT ![n] = IF call.adapter # None THEN Append(@, call) ELSE @]
Await(n, call) == waiting' = [waiting EXCEPT ![n] = Append(@, call)]
Wrapped(n, call) ==
    CASE stage[n] = "up" ->
            Run(n, <<call>>) /\ UNCHANGED <<waiting, unhandled>>
      [] stage[n] = "failed" ->
            unhandled' = TRUE /\ UNCHANGED <<waiting, adapters, wire>>
      [] OTHER ->
            Await(n, call) /\ UNCHANGED <<adapters, wire, unhandled>>

\* node.ready settles.
Resolve(n) ==
    /\ stage' = [stage EXCEPT ![n] = "up"]
    /\ Run(n, waiting[n])
    /\ waiting' = [waiting EXCEPT ![n] = <<>>]
    /\ UNCHANGED unhandled
Fail(n) ==
    /\ stage' = [stage EXCEPT ![n] = "failed"]
    /\ waiting' = [waiting EXCEPT ![n] = <<>>]
    /\ unhandled' = (waiting[n] # <<>>)
    /\ UNCHANGED <<adapters, wire>>

-----------------------------------------------------------------------------
(* The server node: start().                                               *)

\* Node-RED constructs a node after it has closed its predecessor, or has given
\* up waiting for that.
ConstructServer(n) ==
    /\ n = Current + 1
    /\ n > 1 => closing[n - 1] # "no"
    /\ stage' = [stage EXCEPT ![n] = "limiter"]
    /\ UNCHANGED <<redisVars, retries, held, port, closing, waiting, adapters,
                   editorVars, podVars, requestVars, unhandled>>

After(client) == CASE client = "limiter" -> "queue"
                   [] client = "queue" -> "command"
                   [] client = "command" -> "listen"
Connected(n) ==
    /\ stage[n] \in Connecting /\ redis
    /\ held' = [held EXCEPT ![n] = @ \cup {stage[n]}]
    /\ stage' = [stage EXCEPT ![n] = After(stage[n])]
    /\ retries' = [retries EXCEPT ![n] = 0]
    /\ UNCHANGED <<redisVars, port, closing, waiting, adapters, editorVars,
                   podVars, requestVars, unhandled>>

\* createReconnectStrategy.  The command client has the strategy of the queue's,
\* which has been ready: it is never given up.
EverReady(client) == client = "command"
GivesUp(n) == retries[n] > MaxInitialRetries
Retry(n) ==
    /\ stage[n] \in Connecting /\ ~redis /\ ~EverReady(stage[n])
    /\ IF GivesUp(n)
       THEN Fail(n) /\ UNCHANGED retries
       ELSE /\ retries' = [retries EXCEPT ![n] = @ + 1]
            /\ UNCHANGED <<stage, waiting, adapters, wire, unhandled>>
    /\ UNCHANGED <<redisVars, held, port, closing, editorVars, link, view, requestVars>>

\* GatewayServer.start(): listen, and then the consumer groups.
Listen(n) ==
    /\ stage[n] = "listen"
    /\ IF \E m \in Servers : port[m]
       THEN Fail(n) /\ UNCHANGED port
       ELSE /\ port' = [port EXCEPT ![n] = TRUE]
            /\ stage' = [stage EXCEPT ![n] = "groups"]
            /\ UNCHANGED <<waiting, adapters, wire, unhandled>>
    /\ UNCHANGED <<redisVars, retries, held, closing, editorVars, link, view, requestVars>>
StartQueue(n) ==
    /\ stage[n] = "groups"
    /\ IF redis THEN Resolve(n) ELSE Fail(n)
    /\ UNCHANGED <<redisVars, retries, held, port, closing, editorVars, link, view,
                   requestVars>>

-----------------------------------------------------------------------------
(* The server node: its close handler and GatewayServer.stop().            *)

CloseServer(n) ==
    /\ n = Current /\ closing[n] = "no"
    /\ deployed = NoAdapters
    /\ closing' = [closing EXCEPT ![n] = "asked"]
    /\ UNCHANGED <<redisVars, stage, retries, held, port, waiting, adapters, editorVars,
                   podVars, requestVars, unhandled>>

\* The sockets of a server end, with what is on its way on them.
Unplug(n) ==
    IF link = n
    THEN /\ link' = 0
         /\ wire' = <<>>
         /\ at' = [r \in Requests |-> IF at[r] = "sent" THEN "lost" ELSE at[r]]
    ELSE UNCHANGED <<link, wire, at>>

AwaitsSuccess(n) == stage[n] = "up"                     \* slip: a rejection is not caught
Settled(n) == stage[n] \in {"up", "failed"}
StopSockets(n) ==
    /\ closing[n] = "asked" /\ Settled(n)
    /\ closing' = [closing EXCEPT ![n] = "sockets"]
    /\ Unplug(n)
    /\ UNCHANGED <<redisVars, stage, retries, held, port, waiting, adapters, editorVars,
                   view, asked, seen, accepted, ran, unhandled>>
StopListening(n) ==
    /\ closing[n] = "sockets"
    /\ closing' = [closing EXCEPT ![n] = "stopping"]
    /\ port' = [port EXCEPT ![n] = FALSE]
    /\ UNCHANGED <<redisVars, stage, retries, held, waiting, adapters, editorVars,
                   podVars, requestVars, unhandled>>

\* queue.stop() and limiter.close().  A QUIT that meets no Redis is rejected or
\* never answered; without a server object the handler catches the rejection.
HasServer(n) == "command" \in held[n]
KeepsLimiter(n) == held' = [held EXCEPT ![n] = @ \cap {"limiter"}]
                                                        \* slip: the limiter stays connected
Disconnect(n) == held' = [held EXCEPT ![n] = {}]
StopQueue(n) ==
    /\ closing[n] = "stopping"
    /\ \/ /\ redis \/ ~HasServer(n)
          /\ Disconnect(n)
          /\ closing' = [closing EXCEPT ![n] = "closed"]
          /\ UNCHANGED unhandled
       \/ /\ ~redis /\ HasServer(n)
          /\ unhandled' = TRUE
          /\ UNCHANGED <<held, closing>>
       \/ /\ ~redis /\ held[n] # {}
          /\ closing' = [closing EXCEPT ![n] = "stuck"]
          /\ UNCHANGED <<held, unhandled>>
    /\ UNCHANGED <<redisVars, stage, retries, port, waiting, adapters, editorVars,
                   podVars, requestVars>>

-----------------------------------------------------------------------------
(* Adapter nodes.  Node-RED closes them before the node they use.          *)

StartAdapter(a) ==
    /\ Current # 0 /\ closing[Current] = "no"
    /\ deployed[a.op] = None /\ starts < MaxStarts
    /\ deployed' = [deployed EXCEPT ![a.op] = a]
    /\ starts' = starts + 1
    /\ Wrapped(Current, [op |-> a.op, adapter |-> a])
    /\ UNCHANGED <<redisVars, serverVars, link, view, requestVars>>
CloseAdapter(op) ==
    /\ deployed[op] # None
    /\ deployed' = [deployed EXCEPT ![op] = None]
    /\ Wrapped(Current, [op |-> op, adapter |-> None])
    /\ UNCHANGED <<redisVars, serverVars, starts, link, view, requestVars>>

-----------------------------------------------------------------------------
(* The POD.                                                                *)

Hello(n) ==
    /\ link = 0 /\ port[n] /\ closing[n] \in {"no", "asked"}
    /\ link' = n
    /\ view' = adapters[n]
    /\ UNCHANGED <<redisVars, serverVars, waiting, adapters, editorVars, wire,
                   requestVars, unhandled>>
Hear ==
    /\ wire # <<>>
    /\ view' = Head(wire)
    /\ wire' = Tail(wire)
    /\ UNCHANGED <<redisVars, serverVars, waiting, adapters, editorVars, link,
                   requestVars, unhandled>>
SchemaOf(adapter) == IF adapter = None THEN NoSchema ELSE RequestSchema(adapter)

\* A Gateway Call node: it checks what it was given and sends it normalised.
Submit(r, q) ==
    /\ at[r] = "new" /\ link # 0
    /\ asked' = [asked EXCEPT ![r] = q]
    /\ seen' = [seen EXCEPT ![r] = view[q.op]]
    /\ at' = [at EXCEPT ![r] =
                IF Accepts(q.payload, q.value, SchemaOf(view[q.op])) THEN "sent" ELSE "refused"]
    /\ UNCHANGED <<redisVars, serverVars, waiting, adapters, editorVars, podVars,
                   accepted, ran, unhandled>>

\* _enqueue.
Judgement(adapter, payload, v) ==
    IF adapter = None THEN "unknown"
    ELSE IF ~Accepts(payload, v, RequestSchema(adapter)) THEN "rejected"
    ELSE IF ~redis THEN "unavailable"
    ELSE "queued"
Receive(r) ==
    /\ at[r] = "sent"
    /\ LET q == asked[r]
       IN  /\ at' = [at EXCEPT ![r] =
                        Judgement(adapters[link][q.op], q.payload, Normalize(q.value))]
           /\ accepted' = [accepted EXCEPT ![r] = adapters[link][q.op]]
    /\ UNCHANGED <<redisVars, serverVars, waiting, adapters, editorVars, podVars,
                   asked, seen, ran, unhandled>>

\* _execute, on any server that reads the streams.
Consuming(n) == stage[n] = "up" /\ closing[n] \notin {"closed", "stuck"}
Execute(r, n) ==
    /\ at[r] = "queued" /\ redis /\ Consuming(n)
    /\ LET q == asked[r]
           adapter == adapters[n][q.op]
       IN  /\ at' = [at EXCEPT ![r] =
                        CASE adapter = None -> "invalid"
                          [] OTHER -> IF Resolvable(adapter, q.payload, Normalize(q.value))
                                      THEN "called" ELSE "failed"]
           /\ ran' = [ran EXCEPT ![r] = adapter]
    /\ UNCHANGED <<redisVars, serverVars, waiting, adapters, editorVars, podVars,
                   asked, seen, accepted, unhandled>>

-----------------------------------------------------------------------------
RedisDown ==
    /\ redis /\ outages < MaxOutages
    /\ redis' = FALSE
    /\ outages' = outages + 1
    /\ UNCHANGED <<serverVars, waiting, adapters, editorVars, podVars, requestVars, unhandled>>
RedisUp ==
    /\ ~redis
    /\ redis' = TRUE
    /\ UNCHANGED <<outages, serverVars, waiting, adapters, editorVars, podVars, requestVars,
                   unhandled>>

NotAsked == [op |-> None, payload |-> {}, value |-> NoOptions]
Init ==
    /\ redis = TRUE /\ outages = 0
    /\ stage = [n \in Servers |-> "none"]
    /\ retries = [n \in Servers |-> 0]
    /\ held = [n \in Servers |-> {}]
    /\ port = [n \in Servers |-> FALSE]
    /\ closing = [n \in Servers |-> "no"]
    /\ waiting = [n \in Servers |-> <<>>]
    /\ adapters = [n \in Servers |-> NoAdapters]
    /\ deployed = NoAdapters /\ starts = 0
    /\ link = 0
    /\ view = NoAdapters /\ wire = <<>>
    /\ at = [r \in Requests |-> "new"]
    /\ asked = [r \in Requests |-> NotAsked]
    /\ seen = [r \in Requests |-> None]
    /\ accepted = [r \in Requests |-> None]
    /\ ran = [r \in Requests |-> None]
    /\ unhandled = FALSE

Startup(n) == Connected(n) \/ Retry(n) \/ Listen(n) \/ StartQueue(n)
Shutdown(n) == StopSockets(n) \/ StopListening(n) \/ StopQueue(n)
Editor == \/ \E n \in Servers : ConstructServer(n) \/ CloseServer(n)
          \/ \E a \in Adapters : StartAdapter(a)
          \/ \E op \in Operations : CloseAdapter(op)
Pod == \/ \E n \in Servers : Hello(n)
       \/ Hear
       \/ \E r \in Requests, q \in Questions : Submit(r, q)
Traffic == \E r \in Requests : Receive(r) \/ \E n \in Servers : Execute(r, n)

\* An unhandled rejection ends the process, and the model.
Next == /\ ~unhandled
        /\ \/ RedisDown \/ RedisUp
           \/ Editor \/ Pod \/ Traffic
           \/ \E n \in Servers : Startup(n) \/ Shutdown(n)

\* Timers fire and promises settle; nobody promises that Redis comes back.
Fairness == \A n \in Servers : WF_vars(~unhandled /\ Startup(n)) /\ WF_vars(~unhandled /\ Shutdown(n))
Spec == Init /\ [][Next]_vars /\ Fairness

-----------------------------------------------------------------------------
Places == {"new", "refused", "sent", "lost", "unknown", "rejected", "unavailable",
           "queued", "invalid", "failed", "called"}

\* Every variable stays in its range, the retries of a first connection included.
TypeOK ==
    /\ redis \in BOOLEAN /\ outages \in 0 .. MaxOutages
    /\ stage \in [Servers -> Stages]
    /\ retries \in [Servers -> 0 .. MaxInitialRetries + 1]
    /\ held \in [Servers -> SUBSET Connecting]
    /\ port \in [Servers -> BOOLEAN]
    /\ closing \in [Servers -> {"no", "asked", "sockets", "stopping", "closed", "stuck"}]
    /\ waiting \in [Servers -> Seq(Calls)]
    /\ adapters \in [Servers -> Tables]
    /\ deployed \in Tables /\ starts \in 0 .. MaxStarts
    /\ link \in Servers \cup {0}
    /\ view \in Tables
    /\ wire \in Seq(Tables)
    /\ at \in [Requests -> Places]
    /\ asked \in [Requests -> Questions \cup {NotAsked}]
    /\ {seen, accepted, ran} \subseteq [Requests -> Adapters \cup {None}]
    /\ unhandled \in BOOLEAN

Payload(r) == asked[r].payload
Value(r) == asked[r].value

\* A header that holds a credential reaches the API with the operator's value
\* alone, however the POD spells it, and also when the call was accepted before
\* the adapter was redeployed with another credential.
CredentialHolds ==
    \A r \in Requests : at[r] = "called" =>
        \A name \in ran[r].credential \cup {n \in DOMAIN ran[r].headers : Lower[n] \in Static} :
            "pod" \notin Origins(ran[r], Normalize(Value(r)), Lower[name])

\* A call that is accepted and run by the same adapter is made as the POD asked: no
\* template of the POD's or of the URL fails late, its body is not dropped and each of
\* its headers is there, unless the adapter sets the header itself.  What it sets
\* itself, no POD replaces.
AcceptedAsAsked ==
    \A r \in Requests : at[r] \in {"called", "failed"} /\ ran[r] = accepted[r] =>
        LET v == Normalize(Value(r))
        IN  /\ Resolves(ran[r].template, Payload(r), v)
            /\ v.body => BodyOf(ran[r], v) = "request"
            /\ \A name \in DOMAIN v.headers :
                  /\ Resolves(v.headers[name], Payload(r), v)
                  /\ name \notin ran[r].own => "pod" \in Origins(ran[r], v, Lower[name])
            /\ \A name \in ran[r].own : "adapter" \in Origins(ran[r], v, Lower[name])

\* What the Gateway Call node has accepted, the server rejects only if the adapter
\* has changed since the POD heard of it.
SameVerdict ==
    \A r \in Requests : at[r] = "rejected" => seen[r] # accepted[r]

\* The message of a result, or of an error, may be routed into any Gateway Call: with
\* whatever payload came back, it is judged like a new request with the same options.
\* The envelope around them is never refused for itself; it demands the method of the
\* call it came from.  So it passes its own operation again, unless a template names a
\* variable that the payload of the result lacks.
RouteBack ==
    \A r \in Requests, b \in Adapters, payload \in SUBSET Variables :
        at[r] # "new" =>
            LET method == SchemaOf(seen[r]).method
            IN  Accepts(payload, Envelope(Value(r), method), RequestSchema(b))
                <=> /\ method \in {"none", b.method}
                    /\ Accepts(payload, Normalize(Value(r)), RequestSchema(b))

\* A server that is up offers the operations of the adapters in the editor, those
\* included that were started or closed while it connected; one that was closed
\* offers none.
RegistryFollows ==
    \A n \in Servers : stage[n] = "up" /\ ~unhandled =>
        adapters[n] = IF n = Current THEN deployed ELSE NoAdapters

\* What a connected POD knows, or is about to hear, is what its server offers.
PodsInformed ==
    link # 0 => adapters[link] = IF wire = <<>> THEN view ELSE wire[Len(wire)]

\* A server node that is closed has left no socket, no port and no connection to
\* Redis behind, wherever its start was when it was closed.
Released ==
    \A n \in Servers : closing[n] = "closed" => held[n] = {} /\ ~port[n] /\ link # n

\* Closing a server node ends, unless Redis is gone: it waits for a start that never
\* gives up, or for a QUIT that is not answered.
CloseEnds ==
    \A n \in Servers :
        closing[n] = "asked" ~> \/ closing[n] \in {"closed", "stuck"}
                               \/ (~redis /\ stage[n] = "command")
                               \/ unhandled

\* A failing start of the server node does not take the process down.
StartupFailureContained == ~unhandled
=============================================================================
