# A TLA+ model of pod-gateway

`node-red-contrib-pod-gateway` lets many Node-RED PODs share one rate-limited
gateway process. A POD sends a call over a WebSocket; the gateway queues it in
Redis, runs it against an HTTP API when the rate limiter allows, and sends the
result back, or keeps it until the POD reconnects. This directory holds the
TLA+ specifications of that path, the TLC configurations that check them and
the proofs that TLAPS checks.

```
tlc -workers 2 -config MCCalm.cfg MCStreamQueue.tla     # one run
tlapm StreamQueueProofs.tla                             # the proofs of one module
```

## 1. The system

| part | source | state it keeps | operations |
|---|---|---|---|
| Durable queue | `lib/redis-stream-queue.js` | two streams with a consumer group each (entries, pending list, idle times), the counter `depthKey`, two sorted sets of delayed retries with their payloads, idempotency keys, pending results per POD; in the process: `started`, `closed`, two loops | `enqueue`, `scheduleRetry`, `claimIdempotency`, `releaseIdempotency`, `storeIdempotencyResult`, `getIdempotencyResult`, `storePendingResult`, `takePendingResults`, `start`, `stop`, `_consumeLoop`, `_dispatch`, `_retryLoop` |
| Queued execution | `lib/gateway-server.js` 426-664 | `item` (attempts, timestamps), `active` | `_handleQueuedItem`, `_execute`, `_requeue`, `_finish` |
| Result routing | `lib/gateway-server.js` 144-222, 666-675, 751-820 | `connections`, `connectionsByPod`, `pendingResults` | `_connection`, `_hello`, `_deliverResponse`, `_storePending`, `_replayPending`, `_disconnect` |
| Idempotency | both of the above | the claim in Redis, `inflightIdempotency`, `idempotencyResults` | claim, release, store, answer a duplicate |
| In-memory queue and results | `lib/gateway-server.js` 274-286, 346-424, 630-675, 737-820 | `memoryQueue`, `active`, `pumping`, `pumpTimer`, `inflightIdempotency`, `idempotencyResults`, `pendingResults` | `_enqueue`, `_pump`, `_schedulePump`, `_requeue`, `_claimIdempotencySync`, `_finish`, `_deliverResponse`, `_replayPending` |
| Client | `lib/gateway-client.js` | `state`, `ws`, `connectPromise`, `pending`, `aliases`, `reconnectTimer`, `closing`, `authFailed` | `connect`, `send`, `request`, `close`, `_handleMessage`, the socket's events, three timers per call |
| Rate limiters | `lib/redis-rate-limiter.js`, `lib/in-memory-rate-limiter.js` | one theoretical arrival time per bucket | `allow` |
| Redis reconnection | `lib/redis-reconnect.js` | `everReady`, the failed attempts of a start-up | the back-off function |
| Server node | `nodes/gateway-server-config.js`, `lib/gateway-server.js` 61-142 | `node.ready`, the limiter, the queue and the server it has made; `server.adapters`, a scheduled broadcast | construction, `start`, `registerOperation`, `unregisterOperation`, its close handler with `stop` |
| Adapter and call nodes | `nodes/gateway-adapter.js`, `nodes/gateway-call.js` | the operation, its schema, headers and credentials; the capabilities the client has heard | register, unregister, run a call; check an input and send it |
| Request contract | `lib/request-contract.js`, `lib/url-template.js`, `lib/http-adapter.js` | none | `validateRequest`, `normalizeRequest`, `requestEnvelope`, `resolveTemplate`, the merge of headers |
| Everything else | `lib/protocol.js`, `lib/runtime-config.js`, the other nodes, `bin/` | none that matters here | field checks, settings, glue, start-up, a load tool |

How they interact: the client sends `hello` and then calls over its socket;
the server claims the idempotency key, enqueues, and replies `accepted`. The
consumer loop hands batches of entries to `_handleQueuedItem`, which asks the
limiter, calls the adapter, and then either parks the item as a delayed retry
or delivers the result to a socket or to the POD's pending hash; only then does
`_dispatch` acknowledge, delete and uncount the entry. The retry loop turns due
tokens back into entries. All shared state between gateway processes, and
between the lives of one process, is in Redis.

In Node-RED the gateway is a config node. Its constructor starts to connect,
adapter nodes register their operations once it is up, and each change of the
registry is broadcast to the PODs, which check their calls against what they have
heard before they send them; the server checks them again. A deployment closes the
adapters, then the server node, and constructs their successors.

What is hard about it: each of these steps is one Redis command, and a crash, a
broken connection or a lost reply can come between any two; entries are
redelivered after `claimIdleMs`; the same slot of `depthKey` is carried by an
entry, a token and an entry again; the process stops while jobs are running; a
socket closes, or is replaced, while a result is on its way to it; the client
keeps handlers on sockets it has replaced; a node is closed while it still starts,
and an adapter is replaced while calls checked against its predecessor are queued.
`PROJECT.json` lists each hazard at
its line.

What makes each part correct:

| part | correct means |
|---|---|
| Durable queue, queued execution | an accepted request is never lost and is answered in the end; the counter is exact and bounds the live work; calls are counted and their number is bounded; no entry runs twice at a time; a stop ends |
| Result routing | a response reaches the POD or waits in Redis; nothing waits for a POD that is connected |
| Idempotency | of all requests with a key one runs; its answer stays; a claim does not outlive what would answer it |
| In-memory queue and results | no request is lost or counted wrongly; no wake-up is lost; order of arrival within a priority, normal before bulk; one run per key; every response reaches the POD |
| Client | every call settles; a lost connection is reported and made again; nothing is left behind after `close()` |
| Rate limiters | no window sees more than rate and burst; what a refused caller is told is exact to the millisecond |
| Server, adapter and call nodes | the registry is what the editor shows; PODs know it; a close ends and leaves no port, socket or connection; a failed start stays contained |
| Request contract | POD and server judge alike; an accepted call is made as it was asked; no POD reaches a header with a credential or one that the adapter sets itself; the `_request` of a result can be routed on |

## 2. The modules

| module | what it is |
|---|---|
| `WorkQueue` | the abstract queue: requests are owed, answered, and let go only after an answer |
| `StreamQueue` | the Redis Streams queue and the execution of queued items, one action per Redis command or await |
| `StreamQueueProperties`, `MCStreamQueue` | its properties and the refinement mapping; sets and bounds for TLC |
| `StreamQueueRuns`, `MCStreamQueueRuns` | `StreamQueue` with a record of the calls it makes to the API; for TLC |
| `StreamQueueProofs`, `StreamQueueDeliveryProofs` | theorems: types, losses, counters; jobs, refinement, answers, calls, slots |
| `ResultRouting` | where responses go: sockets, delivery, the pending hash and its replay |
| `MCResultRouting`, `ResultRoutingProofs` | sets and bounds; theorems |
| `Idempotency` | one idempotency key: claim, release, stored response, replay |
| `MCIdempotency`, `IdempotencyProofs` | sets and bounds; theorems |
| `GatewayClient` | the client: connection attempts, sockets, calls, timers |
| `GatewayClientProperties`, `MCGatewayClient`, `GatewayClientProofs` | its properties; sets and bounds; theorems |
| `MemoryPump` | the in-memory queue and its pump |
| `MemoryResults`, `MCMemoryPump`, `MemoryProofs` | `MemoryPump` with the keys and responses kept in memory, and the specification of both; sets and bounds; theorems |
| `TokenBucket` | the abstract rate limiter |
| `Gcra`, `MCGcra`, `GcraProofs` | the limiter's script; two buckets for TLC; theorems |
| `RequestContract` | `_request`: its checks, its normal form, the envelope of a result, the call that is made of it |
| `Deployment` | a server node, its adapters and a POD's calls over deployments and outages of Redis |
| `MCDeployment`, `DeploymentProofs` | adapters and questions for TLC; theorems |

The modules meet where one component relies on what another promises:
`Idempotency` and `ResultRouting` take from `StreamQueue` that an entry stays until it
is acknowledged and has one job at a time (`NoAcceptedLoss`, `NoDoubleDispatch`);
`StreamQueue` and `MemoryPump` take a limiter's answer as a choice, and `Gcra`
says which answers it gives; `GatewayClient` takes the gateway's answers as
choices, in an order that the gateway keeps. `MemoryResults` composes with
`MemoryPump`: each of its actions is one of the pump's with what the same code does
to the maps. `Deployment` extends `RequestContract`, and leaves the queue between
acceptance and execution to `StreamQueue`.

A definition marked `slip` is not part of a specification. It is a plausible
mistake in the definition that follows it, kept to see that a property notices.

### StreamQueue and the code

Redis: `fresh` holds the entries the group has not delivered, `pel` the pending
list, `stale` those of `pel` idle for longer than `claimIdleMs`, `kept` the
entries that are acknowledged (or skipped by a new group) and still in the
stream. An entry is `[id, req, attempts]`; the ids grow. `group`, `depth`,
`retry` (one token per request: `_retryToken` is made of the priority, the POD
and the request id) and `cached` are the keys of those names.

Process: `prod` is where `enqueue` stands for a request, `loop` where
`_consumeLoop` stands (`boot`: connected and listening, `start()` not done;
`top`: at the `while`; `claimNormal`, `claimBulk`, `normal`, `bulk`: at that
command; `exited`; `down`), `closing` is `closed`, `link` is `commandClient.isReady`, `jobs` are the
promises of `_dispatch`, each at one await (`pc`).

| code | action |
|---|---|
| `enqueue`: INCR and the comparison; DECR; XADD | `Reserve`; `GiveBack`; `XAdd` |
| `_consumeLoop`: `while`, the two XAUTOCLAIM of `_claimPending`, the two `_read` | `Turn`, `ClaimPending`, `Read`/`ReadNone` |
| its `catch` for NOGROUP, unless `closed` | `RecoverGroups` |
| `_handleQueuedItem`: GET of the cached response, deadline and limiter | `CheckCache`, `CheckLimit` |
| `_execute`, its retry decision, `_requeue` | `Execute`, `Defer` |
| `_finish`, `_deliverResponse`, `_storePending` | `Finish`, `Replay` |
| `_dispatch` after the handler: XACK, XDEL, DECR | `Ack`, `Del`, `Decr` |
| `_retryLoop` | `Promote` |
| `start`, `stop` and their loops' ends | `Start`, `BeginStop`, `Turn`, `Quit` |

Environment: `IdleElapses` (an entry's idle time passes `claimIdleMs`),
`Reconnect`, `Restart`, `Crash`, `Wipe` (a stream is deleted). A command on
`commandClient` is `Answered`, `Refused` (not executed: link down, error reply,
or the link breaks first) or `ReplyLost` (executed, and the link breaks). A
blocking read whose reply is lost is part of `Take`: the entries are pending
and no job knows them. What the XAUTOCLAIM of the normal stream returned is in hand
until the one of the bulk stream has answered; an error of that one, NOGROUP among
them, loses it (`LosesHand`), and it goes stale again later.

Abstractions: payloads, timestamps, wording, metrics and logging are left out.
The deadline and the limiter are choices in `CheckLimit`, the adapter's outcome
is a choice in `Execute`. A retry is due as soon as it is parked, and a BLOCK
timeout may happen whenever the stream is empty. TTLs (an hour by default) do
not expire. A response that is sent or persisted counts as reported; what a
socket does with it afterwards belongs to `ResultRouting`. The WebSocket of a
request is either open or not at each delivery, which is why `Delivered` needs
no link: a response sent on a socket uses no Redis command.

The README (94-106) supports one gateway only. Two gateways occur in the `calm`
and `reclaim` runs because the streams are "multi-consumer-ready", and because a
replacement process that overlaps with its predecessor is a second consumer.

`ClaimMargin` states the assumption the comments at `redis-stream-queue.js:85`
and `gateway-server.js:491` make of the settings: no job outlives
`claimIdleMs`. Where it is assumed, `IdleElapses` marks only entries that no job
is working on, and it waits for a broken link to come back, because the back-off
of `redis-reconnect.js` (5 s at most) is far below `claimIdleMs` (120 s).
The `stop` run does without the assumption: one gateway needs none, because its
loop awaits a batch before it reclaims.

`StreamQueueRuns` adds two histories: `runs`, the calls the API really got for a
request, and `drops`, how often a gateway gave up an entry it had in hand, because
it died or a command failed. The counters in token, entry and job are set against
them. As long as nothing fails, every copy of a request counts each of its calls
(`CountTravels`), so that there are `MaxAttempts + 1` of them at most. An entry that
is given up starts over with the count it was stored with, and a token may have been
parked before: each `drop` costs at most one more series of calls
(`RetriesBounded`). The number of drops is not bounded by that of the failures: a
gateway reads on its own connection while commands fail on the other, so one
broken link can cost every entry it takes meanwhile.

### ResultRouting and the code

One POD, and one gateway process at a time. `peer` is a socket as the POD sees
it, `ready` its `readyState` in the gateway; `byPod` is `connectionsByPod.get(podId)`,
`origin` the connection that `item.connectionId` still finds, `commands` what is
in flight on `commandClient`, in the order of issue, `pending` the hash of
results, `taken` what a replay has read. A connection is a slot: it stands for
one socket after another.

| code | action |
|---|---|
| `_connection`, `_hello`, `_disconnect` | `Connect`, `Hello`, `Disconnect` |
| `_enqueue` of a call | `Call` |
| `_deliverResponse`, `_findConnection`, `_send` | `Deliver` with `FindConnection`, `Sendable`, `Arrive` |
| `storePendingResult` (HSET, EXPIRE) | `Store` |
| `takePendingResults` (HGETALL, DEL) and the sends of `_replayPending` | `Read`, `Replay` |

`Hello` is one step, because both ways to authenticate a POD await nothing. A
fault is a command that is not executed or whose reply is lost. `Leaves` is the
POD closing its socket (a close frame arrives, `closing`) or losing it (the
gateway still believes it `open`): what is sent on it then is lost, and nobody
hears of it (`unheard`). What a replay has taken and cannot send is `dropped`.

Sockets may overlap: the POD opens its next one when it takes the last one for lost,
at once if a call makes it connect, and where a network dies silently the gateway may
hold the old one open for long. `overlap` remembers that it did, until the other
sockets are closed; a response that is stored during an overlap although an
authenticated socket is open is `crossed`: `_findConnection` prefers the socket the
call came from, and that one is closing. Such a response waits for the hello after
the next one, or is deleted unread by the DEL of the replay that is under way
(redis-stream-queue.js:293-294). `Kept` and `NoneStranded` hold with overlapping
sockets and name these responses as exceptions; `PersistedIsReplayed`, without them, is
violated. As for everything else, a response is stored before the hello that reads
the hash, and no DEL removes what its HGETALL has not seen.

Left out: authentication errors and the TTL of the hash. Capabilities are in
`Deployment`, the in-memory `pendingResults` in `MemoryResults`.

### Idempotency and the code

One key of one POD, carried by all `Requests`. `key` is the value in Redis: free, a
claim with its owner, or a stored response. `at` is where `_enqueue` stands, `jobs`
are the items in `_handleQueuedItem` and `_finish`, `saves` the SETs of responses
that were issued and not awaited, in the order of their connection.

| code | action |
|---|---|
| `claimIdempotency`: SET NX; GET | `Claims`; `ReadsOwner` |
| `enqueue` | `Adds` |
| `releaseIdempotency`: GET; DEL | `ReadsClaim`; `Deletes` |
| `_handleQueuedItem`: the cached response | `Delivers`, `ChecksCache`, `Replays` |
| `_execute`, `_finish`, `storeIdempotencyResult` | `Runs`, `Finishes`, `Saves` |
| `_dispatch` after the handler | `Acks` |

An outage is as many faults as the commands it hits. A crashed process starts
again at once. `Expires` comes only when nothing that the key stands for is
under way, as README.md:478-480 asks of the setting. `_claimIdempotencySync`, which
claims and queues in one step without Redis, is in `MemoryResults`.

The code's exceptions are in the model: `orphans` are claims whose claim, release
or store failed, or whose process died before the request was queued, and they
stand until the TTL. `unsure` are requests that are queued although the reply of
their XADD was lost and the claim released. A duplicate whose GET comes after
the release is told "accepted" with no original, and is never run; its caller's
own timer settles it.

### GatewayClient and the code

One client. A step is one callback with the promise continuations it sets off.
`state`, `ws`, `connectPromise`, `reconnectTimer`, `closing`, `authFailed` are the
fields of those names (`ws` and `connectPromise` are numbers of sockets),
`url` is one that `new WebSocket` takes, one on which it throws, or none,
`heartbeat` is whether the heartbeat interval runs (what it sends is left out),
`unsettled` the attempts whose timer and `hello` listeners are still there, `sock` the
`readyState` of every socket, `hello` the handshake on it; for each call, `at` says
which map or promise it is in, `armed` which of its timers run, `wire` what the gateway
has said of it.

| code | action |
|---|---|
| `send`, `request` with `connect` | `Call` with `NewAttempt`, `FailedAttempt`, `Refuses` |
| `_scheduleReconnect`'s timer | `ReconnectFires` |
| the events `open`, `close`, `error` of a socket | `Open`, `CloseEvent` in `Closed` and `Lost` |
| `onHelloAck`, `onHelloError`, the connect timer | `HelloAck`, `HelloError`, `ConnectTimeout` with `Terminate` |
| `_handleMessage` | `Accepted`, `Result` |
| the two timers of a call | `AcceptTimeout`, `Timeout` |
| `close` | `Close` |

`leaving` is a socket whose `close()` was called (messages still come), `closing`
one that got the peer's close frame, or was closed while it connected (no more
messages). `terminate()` of a socket that still connects closes it in the same turn,
and its attempt fails with it; one that is open becomes `closing` and has its close
event to come. Socket numbers are reused. `crashed` says
that an exception has left an event handler, which ends the process. The
gateway's side is a choice, in the order the server keeps: `accepted` or a refusal
first, then one result; `Claimed` and `wire` say what becomes of a repeated key.

Sockets may overlap. `overlap` says that the last `connect()` found one that was not
closed yet, `overtaken` which calls were in flight when one did. The properties hold
with overlapping sockets and say what they cost: after an overlap the client may
not know a socket of its own, or a handler may throw, and the calls in flight are
left to their timers; with the first `connect()` that finds all sockets closed this is
over. A constructor that throws is `FailedAttempt`: line 90 clears `connectPromise`
before line 42 assigns the promise that is already rejected, and every later
`connect()` returns that one (`Dead`), so that a client with an invalid URL never tries
again; its calls are rejected at once, as `CallsSettle` asks.

`MaxDrops` and `MaxRefusals` bound what the network and the gateway may do to
connections. Capabilities are in `Deployment`; the extra `connect()` of the Gateway
Call node is part of `Call`.

A late duplicate that becomes an alias after its original has timed out is not
handed the result of that original ("duplicate-result fan-out", README.md:33);
its own timer settles it, which is what `CallsSettle` covers.

### MemoryPump, MemoryResults and the code

The server without Redis. Everything between two awaits of `_pump` is one step
(`Turn`); its two awaits are the limiter's answer and `_finish`. `at` says where each
request is, the other variables have their names from the code. Arrival stamps
grow and are distinct. A server without a limiter, and `stop()`, are left out;
`MaxDenials` bounds the refusals.

`inflight` and `stored` are the keys in `inflightIdempotency` and
`idempotencyResults`; `result` says for each response whether it was sent, waits in
`pendingResults` or was lost; `socket` is the POD's connection as the server sees it.

| code | action |
|---|---|
| `_enqueue` with `_claimIdempotencySync` | `Submit` |
| `_pump`, `_execute`, `_requeue` | `Continues`, which is `Work` of the pump |
| `_finish`, `_deliverResponse`, `_storePending` | `Finish` with `Delivered` |
| the timer of a stored response (643) | `Forget`, at any time |
| `_schedulePump`'s timer | `TimerFires` |
| `_hello` with `_replayPending`, the events of a socket | `Hello`, `Leaves`, `Disconnect` |

A duplicate gets the stored response or an `accepted` at once. The POD's
connections follow one another: sockets that overlap are `ResultRouting`'s matter,
and so are those that die unnoticed.

`_sortQueue` reads `PRIORITY[...] || PRIORITY.normal`, and the rank of bulk is 0, so
that bulk counts as normal; `Rank` is written that way. `OldestFirst` says what the
sort does keep, the order of arrival within a priority. That bulk goes behind normal,
as redis-stream-queue.js:329-330 and test/protocol.test.js:47-48 have it, is
`NormalFirst`, which TLC finds violated.

### Gcra and the code

One script (`Allow`), one number per bucket, one clock. Time is counted in ticks of
which the emission intervals and the millisecond are multiples, `Millisecond` ticks to
the latter: TIME of Redis tells fractions of milliseconds, the script does not round
what it computes from them, and `math.ceil` makes whole milliseconds of a wait and of
a key's time to live (`Ceil`). `RetryAfterExact` is exact to the millisecond: a caller
that waits as long as it was told is granted, and one that waits a millisecond less is
not. `cost` is 1, as both callers pass. A burst is
positive (nodes/gateway-adapter.js:145; a configuration in JSON with burst 0 would
refuse for ever). A rate of 0, which means no limit, a negative one, which the
script refuses at once, and a call without any limit are left out. The in-memory
limiter computes the same without expiry. `Horizon` stops the clock.

`OpenWindow` is an observer who starts counting at any time; it is how `RateBound`
speaks of every window. `ImplementsTokenBucket` maps the limiter to `TokenBucket`: a
level that rises with time and from which a call takes its price.

### Deployment, RequestContract and the code

Server nodes are numbered in the order of their construction; `Current` is the last
one. For each of them `stage` says where `start()` is (connecting the limiter, the
queue's blocking client or its command client, listening, creating the groups, up,
failed), `held` which Redis connections it has, `port` whether it listens, `closing`
where its close handler is, `waiting` which calls of the adapter nodes await
`node.ready`, and `adapters` is `server.adapters`. `deployed` are the adapter nodes of
the editor. `link`, `view` and `wire` are the POD's connection,
`client.capabilities` and the broadcasts on their way. A request is checked by the
POD (`seen`), by the server (`accepted`), and run (`ran`), each time against the
adapter registered then.

| code | action |
|---|---|
| the constructor of the server node | `ConstructServer` |
| `start()` of the node: three clients, `listen`, the groups | `Connected`, `Retry`, `Listen`, `StartQueue` |
| `await node.ready` in `registerOperation`, `unregisterOperation` | `Wrapped`, `Resolve`, `Fail` |
| `registerOperation` and its deferred broadcast | `Run` with `Apply` and `Broadcast` |
| its close handler, `GatewayServer.stop`, `queue.stop` | `CloseServer`, `StopSockets`, `StopListening`, `StopQueue` |
| an adapter node and its close handler | `StartAdapter`, `CloseAdapter` |
| `_hello`, `capabilities` at the client | `Hello`, `Hear` |
| the call node's input handler | `Submit` |
| `_enqueue` with `validateRequest`; `_execute` with the adapter's handler | `Receive`; `Execute` |

`Options` are the values `_request` can have: absent, malformed, a flat object, or the
envelope of a result, with unknown keys or without. `Accepts` is `validateRequest`,
`Normalize` `normalizeRequest`, `Envelope` `requestEnvelope`. `Origins` says whose
values a header of the upstream call carries: the configuration's, the POD's over
those, and over both the adapter's `own`, the idempotency header and, without
keep-alive, `connection: close`, which are set after the merge. The same spelling
overwrites; another spelling of the same header is a second value. `BodyOf` says which
body is sent. A routed result carries its own payload (gateway-call.js:83), and the
node it is routed into may be of another adapter: `RouteBack` quantifies over both and
asks that its `_request` is judged like that of a new call with the same options, but
for the method that the envelope demands.

Abstractions: a template is the set of the variables it names, a payload the set
of those it defines; values are scalars; the query, which is treated like the
headers without their protection, and line breaks in header values are left out. A
header name stands for one spelling, and `Lower` says which spellings are the same
header; one that is null is left out. A step is one macrotask of the event loop with
the microtasks and `nextTick` callbacks it sets off: so the broadcast that
`_scheduleCapabilitiesBroadcast` defers belongs to the step of the change, all changes
of one step make one broadcast, and `Submit` checks and sends in one step, because
between the two the call node awaits only a `connect()` that is resolved already. A
broadcast that repeats what the POD knows is left out. A crash, and a POD that leaves by itself, belong to the other modules. An
invalid configuration fails like a Redis that cannot be reached. What `QUIT` does
without Redis is node-redis' matter: it is rejected or stays unanswered, and both
are in `StopQueue`. Node-RED constructs the successor of a node after `done`, or when
it has given up waiting for it; the model lets it come at any time after the close
handler was called.

## 3. The runs

Each of them ends within about two minutes.

| run | states | what it shows |
|---|---|---|
| `calm` | 3,292,448 | two gateways and `claimIdleMs` long enough; three requests on two streams for two slots, one of them keyed, a denial and a retry, no failure, so that nothing is reclaimed: `depthKey` is exact, `Max queue size` binds, one answer each, nothing left in the streams |
| `crash_fault` | 59,481 | one keyed request, a crash, a failed command and a denial in any order: no loss, the refinement of `WorkQueue`, and an answer in the end |
| `reclaim` | 3,129,367 | two gateways that take over each other's entry after a crash and a failed command or lost reply, with one retry: no entry in two hands, the calls are counted through token, entry and job, and their number is bounded |
| `stop` | 97,328 | one gateway with `claimIdleMs` too short, a graceful stop and the deletion of a stream at any moment: one job per pending entry, the stop ends, the deletion does not stall the loop |
| `routing` | 3,217,964 | three requests of a POD that loses its connection three times, sockets that overlap, a fault, a crash: `Kept`, `NoneStranded`. States up to permutation |
| `idempotency` | 293,366 | three requests with one key on two gateways, one disturbance of each kind: one runs, its answer stays, no claim is left behind but the orphans |
| `client` | 138,021 | a call and a `send()` with one key in common, URLs of all three kinds, timeouts, a refusal, a broken connection, sockets that overlap: each call is watched by a timer and settles; the client knows its sockets and reports losses at once, but for what an overlap costs; a handler throws for two reasons only; it reconnects, and is quiet after `close()` |
| `memory` | 1,835,737 | four requests, two of them of one key, two slots, a queue of two, a retry each, a denial, a failing limiter, responses that expire, a POD that leaves and returns: one place per request, no lost wake-up, order within a priority, one run per key, every response reaches the POD |
| `gcra` | 2,930,918 | two buckets of different rate and burst, two ticks to the millisecond: rate bound, advice exact to the millisecond, the token bucket although keys expire |
| `deploy` | 1,070,829 | a server node and its successor, three adapters for two operations that come and go while the first one connects, an outage of Redis, and four kinds of calls: both checks agree, credentials hold, an accepted call is made as asked, results can be routed on, the registry follows the editor, a close ends and leaves nothing behind |

Two runs end in a counterexample, each against a sentence of the repository
(`PROJECT.json` quotes it):

* `client_restart`. The gateway closes its connection and a call comes before the
  close event. `connect()` opens a second socket; the close event of the first sets
  `this.ws` to null; the open handler of the second throws.
* `deploy_down`. Redis is down when the flows start. An adapter node calls
  `registerOperation` and drops the promise; when `node.ready` is rejected, so is that
  promise, with nobody to handle it, and the process ends.

Other disagreements that the models show. The properties named here are in the
modules; TLC finds the first three violated when they are added to the configuration
named, and the others after the change described:

* `NormalFirst` of `MemoryPump` fails under `MCMemory.cfg`. test/protocol.test.js:47-48
  has `PRIORITY.normal` 1 and `PRIORITY.bulk` 0, and the comment at
  redis-stream-queue.js:329-330 says of these priorities: "Bulk traffic is read only
  when there is no immediately available normal message". Without Redis, a bulk item and
  then a normal one come while the loop is busy; `PRIORITY[...] || PRIORITY.normal`
  (gateway-server.js:805) takes the rank 0 of bulk for a missing one, and the bulk item
  stays in front.
* `PersistedIsReplayed` of `ResultRouting` fails under `MCRouting.cfg`. The comment at
  gateway-server.js:668-670 wants a result of a closing socket persisted and replayed
  "when the POD reconnects". The POD is back on a new socket whose replay has sent
  HGETALL while its old one is closing. A result finds the old one and is stored; the DEL
  of the replay deletes it unread, and its entry is acknowledged.
* `SendReported` of `GatewayClientProperties` fails under `MCClient.cfg`.
  README.md:301: Gateway Out reports every message as accepted or
  failed. `send()` of a message whose key has a stored response: the result finds a
  record without `resolve`, and the promise is never settled.
* `Kept` of `ResultRouting` fails under `MCRouting.cfg` without its exception `dropped`.
  The socket of a replay closes while DEL is awaited: the result was deleted and is sent
  nowhere, against the same comment.
* `LiveBound` fails with one crash in `Calm`. README.md:473: "so `Max queue size` still
  bounds total live work". A crash after the SCHEDULE_RETRY script and before the
  XACK leaves an entry and a token for the same request; each gives the slot back.
* `NoAcceptedLoss` fails with `FirstBoot = TRUE`. README.md:27: "a durable Redis Streams
  queue". The server listens (gateway-server.js:120) before `queue.start()` creates
  the groups at `$` (redis-stream-queue.js:479), so on an empty Redis a request
  accepted in that window is never delivered. The runs and the theorem assume
  that the groups exist at boot.
* A success can be reported as a failure. The comment at gateway-server.js:633-635 does
  not want a degraded Redis to "make a completed upstream request look like a
  Gateway timeout". `_finish` is awaited inside the `try` of `_execute`
  (gateway-server.js:461), so when `storePendingResult` fails, the `catch` block
  finishes the item again, with an error, and acknowledges it. `Undelivered` in
  `StreamQueue` and `Finishes` in `Idempotency` are that step; it is why `AnswerKept`
  exempts faults.
* A crash or a failing DECR between XACK and DECR leaks a slot of `depthKey`, which
  redis-stream-queue.js:447-449 accepts: `DepthExact` is checked without failures.
* The exceptions of `CloseEnds`. The command client gets the reconnect strategy that
  the blocking client has made ready (redis-stream-queue.js:139, 161), so it is
  never given up: if Redis goes between the two, `start()` does not settle, and a
  close handler that awaits `node.ready` does not either. A QUIT during an outage
  may stay unanswered; if it is rejected instead, `server.stop()` rejects inside the
  close handler (gateway-server-config.js:128), whose promise nobody handles:
  `unhandled`.
* A server whose `queue.start()` fails (`Fail` in `StartQueue`) listens on: it
  accepts PODs and calls until it is closed. `bin/pod-gateway.js` sets an exit code
  in that case and leaves the process to its open handles, the port among them.
* A call queued before a deployment is answered with ADAPTER_INVALID if it is taken
  before the adapters are back (`invalid` in `Execute`; gateway-server.js:458),
  although its operation exists before and after.
* The headers of POD, configuration and adapter are merged by spelling. A header that
  no credential protects goes out twice, with both values, if the POD spells it
  differently (`Origins` may hold several; http-adapter.js:51-63). So it is with
  `connection`, of which http-adapter.js:46-47 says that a POD's header "can never turn
  it back on": a POD's `Connection` stands beside it, and what becomes of the two is
  the HTTP client's matter.
* The comment at request-contract.js:124-125 has the result of one call routed into
  another. Lines 139-140 compare the method of the envelope, so a result goes only to
  operations of the same method, as `RouteBack` has it, although the two operations may
  take the same options.
* A client with an invalid URL never tries again (`FailedAttempt`): the reconnect timer
  that line 91 starts finds the rejected promise of line 42 and does nothing.
* Two adapter nodes with one operation: the later one replaces the earlier, and
  closing either unregisters it. The model has one adapter node per operation in the
  editor at a time.
* In memory, `pendingResults` of a POD that never returns stay for ever, while
  Redis lets them expire; with a queue, `idempotencyResults` is filled as well and
  its timer is set only without one (gateway-server.js:632-643).

### Bounds

`Limit`, `MaxDrops`, `MaxRefusals`, `MaxDenials` say how often each disturbance may
happen, `Horizon` how long the limiter is watched. Beside them nothing is bounded:
requests are finite and retries are bounded by the code. They are enough for the
interesting cases:

* `StreamQueue`: two requests for what one does to another (slots, batches,
  streams), a third for a slot to be contended twice; one for what happens to the
  copies of a single request. Batches of two make `Oldest` and the batch barrier
  matter. Two gateways are the fewest that reclaim from each other; a crash and a
  fault in either order leave an entry to be reclaimed twice.
* `ResultRouting`: with three breaks a result is stored after the first, its replay is
  cut off by the second, and the next replay by the third; two slots, for an old socket
  and its replay beside the next. A third result can be stored while the first two are
  being replayed. Requests and slots are interchangeable, so TLC identifies states that
  differ by a permutation of them.
* `Idempotency`: an owner, a duplicate on the same connection and one on another.
* `GatewayClient`: two sockets for one that is still closing and its successor. One drop;
  connect timers fire without bound, so that the successor can be lost too, and its
  successor. A request and a `send()` share a key, and either may come first: the
  request becomes an alias, the `send()` meets a stored response. That an alias is handed
  the result of its original takes two requests, and is left to the theorems.
* `MemoryResults`: four requests for two slots and a queue of two, so that the queue is
  full while both slots are taken; one key that two of them share, and one departure
  of the POD, so that responses wait beside a duplicate.
* `Deployment`: two servers are a deployment and its successor, and what a third one
  does to the second is what the second does to the first; two starts of adapters
  replace one while the server connects; two operations show that calls for one leave
  the other alone; one outage at any point, with `MaxInitialRetries = 0`, so that a
  start fails at its second attempt. The four questions are a body, a header in
  another spelling with a method, an envelope with a parameter, and nothing; the
  theorems speak of all of them. `Gcra`: twelve ticks, two to a millisecond, are more
  than two intervals of the slow bucket and as long as any key lives unused.

`CHECK_DEADLOCK FALSE` is in the configurations of the systems that may rest: no
call is left, every budget spent. `StreamQueue` always has a loop to turn, and
`Gcra` a window to open.

### Fairness

`StreamQueue`: weak fairness for each request's producer, each gateway's
loop, jobs and recovery, the promotion of each request's token and the
passing of idle time. The code justifies it: the loops run until `closed`, and
sleep for bounded times; a promise of `_dispatch` is scheduled by the event
loop, and every await of it ends (Redis commands fail fast with
`disableOfflineQueue`, the adapter call is aborted after its timeout); the
reconnect strategy retries forever once the client was ready; a supervisor
restarts the process, which the code leaves to its operator.

`Idempotency`: awaits end, entries are delivered, issued commands are executed, for
the same reasons. `MemoryResults`: promises settle, timers fire, a closing socket
closes, and the POD's client connects again. `Deployment`: `Startup` and `Shutdown` of
each server node, since promises settle and the strategy tries again; Redis is not
promised to come back, and the editor and the PODs promise nothing. `GatewayClient`:
timers fire, and a closing socket closes (`ws` allows it 30 seconds); only
`Reconnects` assumes more, `Reachable`: a gateway that is reached and acknowledges if
it can be reached again and again. `Gcra` and
`ResultRouting` state safety only. Disturbances get no fairness anywhere.

## 4. The proofs

Eight modules, each for every value of the constants: sets of requests, gateways,
connections, buckets, adapters and header names, sizes, rates, numbers of
disturbances. They rest on the
named assumptions of the modules they extend, which TLC evaluates, and on the
library's theorems about sequences, functions and finite sets. Every invariant that a
passing run checks is a theorem, some under a hypothesis that is named here;
`RetriesBounded` and `CountTravels` are theorems where nothing fails, and what a failure
costs is model-checked.

`StreamQueueProofs`

* `TypeCorrect`: `Spec => []TypeOK`.
* `AcceptedNeverLost`: `Spec => []NoAcceptedLoss`, if the groups exist at boot and no
  stream is deleted. `NoAcceptedLoss` is not inductive by itself. `LossInv` adds:
  ids in use are at most `lastId` and tell entries apart (`Numbered`), so that
  acknowledging one entry removes no other; a job that is about to acknowledge has
  reported, or its request is accounted for by a token or by what became of it
  (`AckedReported`); the groups stand (`GroupsStand`), so that `EnsureGroups` skips
  nothing.
* `CountersBounded`: `Spec => []CountersBound`, that no token, entry or job carries more
  attempts than it may. The strengthening `AttemptsInv` says that a job that has not yet
  been counted (`Waiting`) carries at most `MaxAttempts`. What the counters have to do
  with the calls that are made is `CallsAreCounted`, below.

`StreamQueueDeliveryProofs` goes on from there. All its theorems assume `Exclusive`: a
job is over before its entry may be reclaimed (`ClaimMargin`), or there is one gateway.
Without it two gateways can run one entry, which `claimIdleMs` is there to prevent.

* `OneJobPerEntry` (`NoDoubleDispatch`), through crashes, faults, stops and lost groups.
  `DispatchInv`: what a job holds is not fresh and nothing is both fresh and pending;
  the loop of a gateway that has jobs stands before its next read, or has the first half
  of a reclaim in hand (`Awaited`), which is the batch barrier; under `ClaimMargin` no job holds what is stale.
* `Refinement` (`ImplementsWorkQueue`), if the groups survive; crashes, faults and stops
  may happen. `HoldInv` adds to `LossInv` that the entry of a job which has not
  acknowledged is pending (`InHand`), that a request still being enqueued has left no
  trace (`NotYet`), and that what is held is live or reported (`HeldServed`). `QueueStep`
  maps each step: XADD to `Admit`, a report to `Answer`, an acknowledgement of the
  last copy to `Settle`, everything else to a stutter.
* `PendingIsWorked` (`PendingInOneJob`), without crashes and faults (`NoFailures`), but with
  stops and deleted streams: then nothing goes stale while it is pending (`NoReclaim`),
  because every pending entry has a job (`Worked`).
* `AtMostOneAnswer` (`AnsweredOnce`), under the same. `AnswerInv`: the entries that are
  fresh or in a job that will not hand its slot to a token are one per request, and
  exclude its token (`OneCopy`); none of them is answered before its job is
  (`Unanswered`).
* `CallsAreCounted` (`RetriesBounded` and `CountTravels`), under the same, for `RunsSpec`:
  each copy that may still run a request counts exactly the calls that were made
  (`RunsInv`), because there is one copy, so that no call is missed by another.
* `DepthIsExact` (`DepthExact`) and `QueueIsBounded` (`LiveBound`), if nothing but denials
  disturbs the queue (`Undisturbed`): a crash between XACK and DECR leaks a slot, see
  above, and so does a process that quits between the INCR and the XADD of a caller.
  `CountInv` counts `SlotHolders` in step with `depth`: every step leaves them alone, or
  gains or loses one request (`CountMoves`). Only what got its slot at or below the
  limit is `Admitted`, which bounds `Live`.

`ResultRoutingProofs`

* `TypeCorrect`: `Spec => []TypeOK`.
* `ResponsesKept` and `NothingStranded`: `Kept` and `NoneStranded`, with any number of
  sockets that overlap. Both follow from `RouteInv`. `SocketInv`: where there is no
  overlap, at most one socket is not closed, and once it has said hello every item
  finds it, so that a response is stored only when no authenticated socket is open;
  where there is one, such a response is `crossed` by definition. `CommandInv`: the
  commands of a replay belong to a socket that has said hello, one at a time for each;
  behind the HGETALL of an open socket no store is queued but of crossed responses
  (`StoresFirst`), so that its DEL deletes nothing else that HGETALL has not seen
  (`DelSaw`). `Quiet` strengthens `NoneStranded` to results on their way to the hash.
  The lemmas are one per action.

`IdempotencyProofs`

* `TypeCorrect`, `OneRequestRuns` (`OneInFlight`), `ClaimsBacked` (`ClaimBacked`),
  `AnswersKept` (the action property `AnswerKept`). The invariants say that a
  request has one job (`JobInv`), that whoever is queued or about to be owns the key
  (`OwnerInv`), that a claim of a request that has run is followed by its store on
  the connection of the acknowledgement (`BackedInv`), and, without faults, that a
  response is stored once (`SavesOnce`), that what runs has no stored answer
  (`RunsUnanswered`), and that what claims or releases owns the key
  (`ClaimingOwns`): `KeptInv`.

`GcraProofs`

* `RateBounded` (`RateBound`), `ExpiryForgivesNothing` (`ExpiryHarmless`),
  `Refinement` (`ImplementsTokenBucket`) and `AdviceExact` (`RetryAfterExact`).
  `GcraInv` measures what was granted in a window against the budget spent so far
  (`Base`) instead of the clock, which makes it inductive, and says that a key lives
  at least as long as the debt it records. `AdviceInv` ties the time that was told
  to the bucket as it is now, whichever calls and expiries of other buckets came
  between. What `math.ceil` adds to a wait or to a time to live is `CeilFacts`: at least
  nothing and less than a millisecond.

`DeploymentProofs`

* `TypeCorrect`; `ClosedHoldsNothing` (`Released`), from `ServersInv`: a close
  handler that has got past `node.ready` finds a start that has ended, so that
  nothing it releases is taken again.
* `RegistryIsTheEditors` (`RegistryFollows`). A registry is compared with the editor
  only once the node is up, so the invariant counts the calls that still wait:
  applied to the registry they make what the editor shows (`RegistryInv`).
  `ApplyAppend`, that one more call changes one entry, is what keeps it. A
  predecessor's adapters are closed before it (`CurrentInv`, first line of
  `RegistryInv`).
* `PodKnowsOffer` (`PodsInformed`), from `KnowledgeInv`.
* `VerdictsAgree` (`SameVerdict`), `ResultsMayReturn` (`RouteBack`), `CallMadeAsAsked`
  (`AcceptedAsAsked`), from `CallInv`, which keeps what each check has established
  while adapters change, and the lemmas that the checks hold again after
  normalisation (`NormalizedPasses`), that the envelope of a result passes with any
  payload and any adapter of its method where the options do (`EnvelopePasses`), and
  that the merge leaves the POD its headers but for the adapter's own (`MadeAsAsked`).
* `CredentialsHold` (`CredentialHolds`), from the merge of the headers alone.

`MemoryProofs`, about `MemoryPump` and `MemoryResults` together, for any finite set of
requests

* `TypeCorrect`, `EachInOnePlace` (`OnePlace`), `WakeUpsKept` (`NoLostWakeUp`) and
  `ArrivalOrder` (`OldestFirst`; since bulk has the rank of normal, `SameRank`, the
  invariant orders both together, which is why `NormalFirst` fails), from `PumpInv`: the array holds the queued requests and
  no others, the loop has at most one, `active` is the number that execute and is below
  the limit while the loop runs; the array is in order but for its head, and entirely
  while the loop runs, so that a refused item is the only one out of turn. `SortSorts`,
  by the cardinalities of initial segments, is what `_sortQueue` promises: the same
  items, in order. The lemmas are one per kind of step: `Leg` is the move of one
  request from one place to another.
* `KeysRunOnce` (`OneRunPerKey`) from `KeyInv`: a key is marked exactly while one request
  with it is under way, and has no stored response then.
* `ResponsesKept` (`ResponseKept`), inductive with the range of `result`.

`GatewayClientProofs`

* All of them hold with any number of overlapping sockets, and assume nothing of how
  long a socket takes to close.
* `TypeCorrect` (`TypeOK`), with what `connectPromise` can be; `CallsAreWatched`
  (`Watched`) and `SettledOnce` (no call changes its outcome), from `WatchInv`: the timers
  of a call are exactly those its place calls for, and a settled call has no `timer` any
  more, though it may have an `acceptedTimer`.
* `NoSocketIsLost` (`SocketsKnown`). `SocketInv`: no attempt outlives its socket, and
  unless the last `connect()` found another socket there is one at a time, which is the
  one the client waits for or the one it is connected on. A `connect()` that finds all
  sockets closed starts this afresh (`AttemptKeeps`). `FlightInv`: calls are in flight
  only while it is connected, but for those a `connect()` has overtaken.
* `HandlersThrowForAReason` (`ThrowsExplained`). `SendInv` says that the record of a
  `send()` waits for `accepted` only, so that a result meets it only as the answer to a
  repeated key; that `open` finds the socket it writes to is `OneSocket`, where nothing
  overlaps. The run `client_restart` is the other case.
* `ClosedStaysClosed`: what `close()` has left empty stays empty. `ClosedIsQuiet`, which
  is liveness, has only to get there.

The hypotheses are conditions on constants, and name the disturbances that break the
property: a crash between `Finish` and `Ack` answers a request twice, as README.md:463
accepts, and `AnsweredOnce` has `NoFailures`.

Model-checked only: liveness (`EventuallyAnswered`, `StopEnds`, `ServedAfterRecovery`,
`EventuallyServed`, `CallsSettle`, `Reconnects`, `ClosedIsQuiet`, `ClaimEnds`, `CloseEnds`),
which rests on fairness and ENABLED and is out of the prover's reach. `WorkQueue`
states safety only, so that its refinement needs no fairness. The violated properties,
`RestartSurvived`, `PersistedIsReplayed`, `NormalFirst` and `StartupFailureContained`,
are false of the code; what holds in place of the first three is `ThrowsExplained`, `Kept`
and `OldestFirst`, which are proved.

The type invariants, `CountersBound`, `PodsInformed` and `ExpiryHarmless` are theorems
and not repeated in the runs.

## 5. The plan

Done: `StreamQueue` with `WorkQueue`, `ResultRouting`, `Idempotency`, `GatewayClient`,
`MemoryPump` with `MemoryResults`, `Gcra` with `TokenBucket`, `Deployment` with
`RequestContract`, and the theorems above.

To be modelled, in this order:

1. The composition of `GatewayClient` with `ResultRouting`: one POD's client against one
   gateway, so that replayed results meet the client's records, and when sockets overlap
   follows from what the client does.
2. `Deployment` between `StreamQueue`'s steps: the redeployment of a gateway whose
   jobs are running, with the graceful stop of `StreamQueue` in place of its own.
3. Routing with two gateways, which the README rules out, to say what is lost.

To be proved: that `MemoryResults` implements `WorkQueue` as `StreamQueue` does; that
a deleted stream costs at most the requests that stood in it, in place of
`GroupsSurvive`; and the safety of the compositions, from the invariants of their parts.

## 6. Not modelled

* `lib/protocol.js`: checks of the fields of one message, without state.
* Of the request contract: the query string, line breaks in headers, the text
  of templates and of error messages.
* The HTTP call itself: its outcome is a choice where it is made.
* `lib/runtime-config.js`, `lib/redis-url.js` and the parsers of settings: their
  effect is in the constants.
* `gateway-in`, `gateway-out`, `gateway-metrics`, `gateway-api-config` and the
  editor's routes and HTML: glue around the modelled client and server. The metrics
  and the logging of all parts.
* `bin/pod-gateway.js`, which starts one server without Node-RED, and
  `bin/pod-gateway-load.js`, a load tool.
* Redis Cluster and the test doubles' fallbacks without EVAL, which the source
  says are not meant for production.
