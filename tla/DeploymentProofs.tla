-------------------------- MODULE DeploymentProofs --------------------------
(* Theorems about Deployment, for every number of servers, adapters and     *)
(* requests, and for every contract.                                       *)
EXTENDS Deployment, FiniteSetTheorems, TLAPS

-----------------------------------------------------------------------------
(* The request contract.                                                   *)

LEMMA NoOptionsType == NoOptions \in Options
<1>1. [h \in {} |-> {}] \in [{} -> SUBSET Variables]
  OBVIOUS
<1>2. {} \in SUBSET HeaderNames
  OBVIOUS
<1>3. [h \in {} |-> {}] \in Headers
  BY <1>1, <1>2 DEF Headers
<1>4. QED BY <1>3 DEF NoOptions, Options

\* What the gateway keeps of a _request, and that it keeps all of it.
LEMMA NormalizeFacts ==
    ASSUME NEW v \in Options
    PROVE  /\ Normalize(v) \in Options
           /\ Normalize(v).form = "flat" /\ Normalize(v).keys = {}
           /\ Normalize(v).method = "none"
           /\ Normalize(Normalize(v)) = Normalize(v)
<1>1. CASE v.form \in {"absent", "malformed"}
  <2>1. Normalize(v) = NoOptions
    BY <1>1 DEF Normalize
  <2>2. Normalize(NoOptions) = NoOptions
    BY DEF Normalize, NoOptions
  <2>3. QED BY <2>1, <2>2, NoOptionsType DEF NoOptions
<1>2. CASE v.form \notin {"absent", "malformed"}
  <2>1. Normalize(v) = [v EXCEPT !.form = "flat", !.keys = {}, !.method = "none"]
    BY <1>2 DEF Normalize
  <2>2. /\ Normalize(v) \in Options
        /\ Normalize(v).form = "flat" /\ Normalize(v).keys = {}
        /\ Normalize(v).method = "none"
    BY <2>1 DEF Options
  <2>3. \A w \in Options :
            w.form = "flat" /\ w.keys = {} /\ w.method = "none" => Normalize(w) = w
    BY DEF Normalize, Options
  <2>4. QED BY <2>2, <2>3
<1>3. QED BY <1>1, <1>2

\* A checked value passes the same check after it was normalised,
LEMMA NormalizedPasses ==
    ASSUME NEW v \in Options, NEW p, NEW s, Accepts(p, v, s)
    PROVE  Accepts(p, Normalize(v), s)
BY NormalizeFacts DEF Accepts

\* and the envelope of a result adds to it the method of its call.
LEMMA EnvelopePasses ==
    ASSUME NEW v \in Options, NEW m, NEW p, NEW s, s.method # "none"
    PROVE  Accepts(p, Envelope(v, m), s)
           <=> m \in {"none", s.method} /\ Accepts(p, Normalize(v), s)
<1>1. DEFINE e == Envelope(v, m)
             w == Normalize(v)
<1>2. /\ w \in Options /\ Normalize(w) = w
      /\ w.form = "flat" /\ w.keys = {} /\ w.method = "none"
  BY NormalizeFacts
<1>3. e = [w EXCEPT !.form = "envelope", !.keys = {"payload"}, !.method = m]
  BY DEF Envelope
<1>4. /\ e.form = "envelope" /\ e.keys = {"payload"} /\ e.method = m
      /\ Normalize(e) = [w EXCEPT !.form = "flat", !.keys = {}, !.method = "none"]
  BY <1>2, <1>3 DEF Normalize, Options
<1>5. Normalize(e) = w
  <2>1. \A u \in Options :
            u.form = "flat" /\ u.keys = {} /\ u.method = "none"
            => [u EXCEPT !.form = "flat", !.keys = {}, !.method = "none"] = u
    BY DEF Options
  <2>2. QED BY <1>2, <1>4, <2>1
<1> HIDE DEF e, w
<1>6. Accepts(p, e, s) <=> m \in {"none", s.method} /\ Accepts(p, w, s)
  BY <1>2, <1>4, <1>5 DEF Accepts
<1>7. QED BY <1>6 DEF e, w

LEMMA SchemaFacts ==
    ASSUME NEW a \in Adapters
    PROVE  /\ RequestSchema(a).method \in HTTP_METHODS
           /\ RequestSchema(a).template = a.template
           /\ RequestSchema(a).body = UsesBody(a.method)
           /\ SchemaOf(a) = RequestSchema(a)
BY DeploymentAssumption DEF RequestSchema, AdapterConfigs, SchemaOf

\* A call that its adapter's check has passed is made as it was asked.
LEMMA MadeAsAsked ==
    ASSUME NEW a \in Adapters, NEW v \in Options, NEW p,
           Accepts(p, v, RequestSchema(a)), Normalize(v) = v
    PROVE  /\ Resolves(a.template, p, v)
           /\ v.body => BodyOf(a, v) = "request"
           /\ \A name \in DOMAIN v.headers :
                 /\ Resolves(v.headers[name], p, v)
                 /\ name \notin a.own => "pod" \in Origins(a, v, Lower[name])
           /\ \A name \in a.own : "adapter" \in Origins(a, v, Lower[name])
<1>1. /\ Resolves(a.template, p, v)
      /\ v.body => UsesBody(a.method)
      /\ \A name \in DOMAIN v.headers :
            Lower[name] \notin Protected(RequestSchema(a)) /\ Resolves(v.headers[name], p, v)
  BY SchemaFacts DEF Accepts
<1>2. ASSUME NEW name \in DOMAIN v.headers \ a.own
      PROVE  "pod" \in Origins(a, v, Lower[name])
  <2>1. name \in {n \in PodHeaders(a, v) \ a.own : Lower[n] = Lower[name]}
    BY <1>1 DEF PodHeaders
  <2>2. QED BY <2>1 DEF Origins, Spelt
<1>3. ASSUME NEW name \in a.own
      PROVE  "adapter" \in Origins(a, v, Lower[name])
  <2>1. name \in {n \in a.own : Lower[n] = Lower[name]}
    OBVIOUS
  <2>2. QED BY <2>1 DEF Origins, Spelt
<1>4. QED BY <1>1, <1>2, <1>3 DEF BodyOf

-----------------------------------------------------------------------------
(* The calls that await a server node.                                     *)

LEMMA ApplyNothing ==
    ASSUME NEW t \in Tables
    PROVE  Apply(t, <<>>) = t
BY DEF Apply, Tables

LEMMA ApplyType ==
    ASSUME NEW t \in Tables, NEW w \in Seq(Calls)
    PROVE  Apply(t, w) \in Tables
<1>1. DEFINE Last(op) == {i \in DOMAIN w :
                 /\ w[i].op = op
                 /\ \A j \in DOMAIN w : w[j].op = op => j <= i}
<1>2. ASSUME NEW op \in Operations
      PROVE  Apply(t, w)[op] \in Adapters \cup {None}
  <2>1. CASE Last(op) = {}
    BY <2>1 DEF Apply, Tables
  <2>2. CASE Last(op) # {}
    <3>1. (CHOOSE i \in Last(op) : TRUE) \in DOMAIN w
      BY <2>2
    <3>2. \A i \in DOMAIN w : w[i] \in Calls
      OBVIOUS
    <3>3. Apply(t, w)[op] = w[CHOOSE i \in Last(op) : TRUE].adapter
      BY <2>2 DEF Apply
    <3>4. \A c \in Calls : c.adapter \in Adapters \cup {None}
      BY DEF Calls
    <3>5. QED BY <3>1, <3>2, <3>3, <3>4
  <2>3. QED BY <2>1, <2>2
<1>3. Apply(t, w) = [op \in Operations |-> Apply(t, w)[op]]
  BY DEF Apply
<1>4. QED BY <1>2, <1>3 DEF Tables

\* One more call changes the entry of its operation, whatever came before it.
LEMMA ApplyAppend ==
    ASSUME NEW t \in Tables, NEW w \in Seq(Calls), NEW c \in Calls
    PROVE  Apply(t, Append(w, c)) = [Apply(t, w) EXCEPT ![c.op] = c.adapter]
<1>1. DEFINE Last(calls, op) == {i \in DOMAIN calls :
                 /\ calls[i].op = op
                 /\ \A j \in DOMAIN calls : calls[j].op = op => j <= i}
             w2 == Append(w, c)
<1>2. /\ Len(w) \in Nat /\ DOMAIN w = 1 .. Len(w) /\ DOMAIN w2 = 1 .. Len(w) + 1
      /\ w2[Len(w) + 1] = c
      /\ \A i \in DOMAIN w : w2[i] = w[i]
  OBVIOUS
<1>3. Last(w2, c.op) = {Len(w) + 1}
  BY <1>2
<1>4. ASSUME NEW op \in Operations, op # c.op
      PROVE  /\ Last(w2, op) = Last(w, op)
             /\ \A i \in Last(w, op) : w2[i] = w[i]
  BY <1>2, <1>4
<1>5. ASSUME NEW op \in Operations
      PROVE  Apply(t, w2)[op] = IF op = c.op THEN c.adapter ELSE Apply(t, w)[op]
  <2>1. CASE op = c.op
    <3>1. (CHOOSE i \in Last(w2, c.op) : TRUE) = Len(w) + 1
      BY <1>3
    <3>2. QED BY <2>1, <3>1, <1>2, <1>3 DEF Apply
  <2>2. CASE op # c.op
    <3>1. Last(w2, op) = Last(w, op) /\ \A i \in Last(w, op) : w2[i] = w[i]
      BY <1>4, <2>2
    <3>2. Last(w, op) # {} => (CHOOSE i \in Last(w, op) : TRUE) \in Last(w, op)
      OBVIOUS
    <3>3. Apply(t, w2)[op] = IF Last(w2, op) = {} THEN t[op]
                             ELSE w2[CHOOSE i \in Last(w2, op) : TRUE].adapter
      BY DEF Apply
    <3>4. Apply(t, w)[op] = IF Last(w, op) = {} THEN t[op]
                            ELSE w[CHOOSE i \in Last(w, op) : TRUE].adapter
      BY DEF Apply
    <3>5. QED BY <2>2, <3>1, <3>2, <3>3, <3>4
  <2>3. QED BY <2>1, <2>2
<1>6. QED BY <1>5 DEF Apply

LEMMA ApplyOne ==
    ASSUME NEW t \in Tables, NEW c \in Calls
    PROVE  Apply(t, <<c>>) = [t EXCEPT ![c.op] = c.adapter]
<1>1. ASSUME NEW w \in Seq(Calls)
      PROVE  Apply(t, Append(w, c)) = [Apply(t, w) EXCEPT ![c.op] = c.adapter]
  BY <1>1, ApplyAppend
<1>2. <<>> \in Seq(Calls)
  OBVIOUS
<1>3. Apply(t, Append(<<>>, c)) = [Apply(t, <<>>) EXCEPT ![c.op] = c.adapter]
  BY <1>1, <1>2, Zenon
<1>4. Append(<<>>, c) = <<c>>
  OBVIOUS
<1>5. Apply(t, <<>>) = t
  BY ApplyNothing
<1>6. QED BY <1>3, <1>4, <1>5, Zenon

-----------------------------------------------------------------------------
(* Types.                                                                  *)

USE DEF redisVars, serverVars, editorVars, podVars, requestVars

LEMMA SequenceType ==
    ASSUME NEW T, NEW s \in Seq(T), NEW e \in T
    PROVE  Append(s, e) \in Seq(T) /\ <<>> \in Seq(T)
OBVIOUS

LEMMA NoAdaptersType == NoAdapters \in Tables
BY DEF NoAdapters, Tables

LEMMA AskedType ==
    ASSUME TypeOK, NEW r \in Requests
    PROVE  asked[r] \in Questions \cup {NotAsked} /\ asked[r].value \in Options
BY NoOptionsType, DeploymentAssumption DEF TypeOK, NotAsked

LEMMA InitType == Init => TypeOK
<1>1. SUFFICES ASSUME Init PROVE TypeOK
  OBVIOUS
<1>2. /\ redis \in BOOLEAN /\ outages \in 0 .. MaxOutages
      /\ stage \in [Servers -> Stages]
      /\ retries \in [Servers -> 0 .. MaxInitialRetries + 1]
      /\ held \in [Servers -> SUBSET Connecting]
      /\ port \in [Servers -> BOOLEAN]
      /\ closing \in [Servers -> {"no", "asked", "sockets", "stopping", "closed", "stuck"}]
  BY <1>1, DeploymentAssumption DEF Init, Stages
<1>3. /\ waiting \in [Servers -> Seq(Calls)]
      /\ adapters \in [Servers -> Tables]
      /\ deployed \in Tables /\ starts \in 0 .. MaxStarts
      /\ link \in Servers \cup {0}
      /\ view \in Tables
      /\ wire \in Seq(Tables)
  BY <1>1, NoAdaptersType, DeploymentAssumption DEF Init
<1>4. /\ at \in [Requests -> Places]
      /\ asked \in [Requests -> Questions \cup {NotAsked}]
      /\ {seen, accepted, ran} \subseteq [Requests -> Adapters \cup {None}]
      /\ unhandled \in BOOLEAN
  BY <1>1 DEF Init, Places
<1>5. QED BY <1>2, <1>3, <1>4 DEF TypeOK

\* A change of the registry, and what becomes of the calls that change it.
LEMMA RunType ==
    ASSUME TypeOK, NEW n \in Servers, NEW w \in Seq(Calls), Run(n, w)
    PROVE  adapters' \in [Servers -> Tables] /\ wire' \in Seq(Tables)
<1>1. Apply(adapters[n], w) \in Tables
  BY ApplyType DEF TypeOK
<1>2. adapters' \in [Servers -> Tables]
  BY <1>1 DEF Run, TypeOK
<1>3. wire' \in Seq(Tables)
  <2>1. wire' = wire \/ wire' = Append(wire, Apply(adapters[n], w))
    BY DEF Run, Broadcast
  <2>2. wire \in Seq(Tables)
    BY DEF TypeOK
  <2>3. QED BY <1>1, <2>1, <2>2, SequenceType
<1>4. QED BY <1>2, <1>3

LEMMA WrappedType ==
    ASSUME TypeOK, NEW n \in Servers, NEW c \in Calls, Wrapped(n, c)
    PROVE  /\ adapters' \in [Servers -> Tables] /\ wire' \in Seq(Tables)
           /\ waiting' \in [Servers -> Seq(Calls)] /\ unhandled' \in BOOLEAN
<1>1. CASE stage[n] = "up"
  <2>1. Run(n, <<c>>) /\ UNCHANGED <<waiting, unhandled>>
    BY <1>1 DEF Wrapped
  <2>2. <<c>> \in Seq(Calls)
    OBVIOUS
  <2>3. QED BY <2>1, <2>2, RunType DEF TypeOK
<1>2. CASE stage[n] = "failed"
  BY <1>2 DEF Wrapped, TypeOK
<1>3. CASE stage[n] \notin {"up", "failed"}
  <2>1. Await(n, c) /\ UNCHANGED <<adapters, wire, unhandled>>
    BY <1>3 DEF Wrapped
  <2>2. QED BY <2>1 DEF Await, TypeOK
<1>4. QED BY <1>1, <1>2, <1>3

LEMMA FailType ==
    ASSUME TypeOK, NEW n \in Servers, Fail(n)
    PROVE  /\ stage' \in [Servers -> Stages] /\ adapters' = adapters /\ wire' = wire
           /\ waiting' \in [Servers -> Seq(Calls)] /\ unhandled' \in BOOLEAN
BY DEF Fail, TypeOK, Stages

LEMMA ResolveType ==
    ASSUME TypeOK, NEW n \in Servers, Resolve(n)
    PROVE  /\ stage' \in [Servers -> Stages]
           /\ adapters' \in [Servers -> Tables] /\ wire' \in Seq(Tables)
           /\ waiting' \in [Servers -> Seq(Calls)] /\ unhandled' \in BOOLEAN
<1>1. Run(n, waiting[n]) /\ waiting[n] \in Seq(Calls)
  BY DEF Resolve, TypeOK
<1>2. QED BY <1>1, RunType DEF Resolve, TypeOK, Stages

\* There is a current server while adapters are deployed.
CurrentInv ==
    /\ Current \in 0 .. MaxServers
    /\ Constructed = 1 .. Current
    /\ Current = 0 => deployed = NoAdapters

LEMMA StartupType ==
    ASSUME TypeOK, NEW n \in Servers, Startup(n)
    PROVE  TypeOK'
<1>1. CASE Connected(n)
  <2>1. stage[n] \in Connecting
    BY <1>1 DEF Connected
  <2>2. After(stage[n]) \in Stages
    BY <2>1 DEF After, Connecting, Stages
  <2>3. /\ held' \in [Servers -> SUBSET Connecting] /\ stage' \in [Servers -> Stages]
        /\ retries' \in [Servers -> 0 .. MaxInitialRetries + 1]
    BY <1>1, <2>1, <2>2, DeploymentAssumption DEF Connected, TypeOK
  <2>4. QED BY <1>1, <2>3 DEF Connected, TypeOK
<1>2. CASE Retry(n)
  <2>1. CASE GivesUp(n)
    BY <1>2, <2>1, FailType DEF Retry, TypeOK
  <2>2. CASE ~GivesUp(n)
    <3>1. retries[n] + 1 \in 0 .. MaxInitialRetries + 1
      BY <2>2, DeploymentAssumption DEF GivesUp, TypeOK
    <3>2. QED BY <1>2, <2>2, <3>1 DEF Retry, TypeOK
  <2>3. QED BY <2>1, <2>2
<1>3. CASE Listen(n)
  <2>1. CASE \E m \in Servers : port[m]
    BY <1>3, <2>1, FailType DEF Listen, TypeOK
  <2>2. CASE ~\E m \in Servers : port[m]
    BY <1>3, <2>2 DEF Listen, TypeOK, Stages
  <2>3. QED BY <2>1, <2>2
<1>4. CASE StartQueue(n)
  BY <1>4, FailType, ResolveType DEF StartQueue, TypeOK
<1>5. QED BY <1>1, <1>2, <1>3, <1>4 DEF Startup

LEMMA ShutdownType ==
    ASSUME TypeOK, NEW n \in Servers, Shutdown(n)
    PROVE  TypeOK'
<1>1. CASE StopSockets(n)
  <2>1. link' \in Servers \cup {0} /\ wire' \in Seq(Tables)
    <3>1. \/ link' = 0 /\ wire' = <<>>
          \/ UNCHANGED <<link, wire>>
      BY <1>1 DEF StopSockets, Unplug
    <3>2. link \in Servers \cup {0} /\ wire \in Seq(Tables)
      BY DEF TypeOK
    <3>3. <<>> \in Seq(Tables)
      OBVIOUS
    <3>4. CASE link' = 0 /\ wire' = <<>>
      BY <3>3, <3>4
    <3>5. CASE UNCHANGED <<link, wire>>
      BY <3>2, <3>5
    <3>6. QED BY <3>1, <3>4, <3>5
  <2>2. at' \in [Requests -> Places]
    BY <1>1 DEF StopSockets, Unplug, TypeOK, Places
  <2>3. closing' \in [Servers -> {"no", "asked", "sockets", "stopping", "closed", "stuck"}]
    BY <1>1 DEF StopSockets, TypeOK
  <2>4. QED BY <1>1, <2>1, <2>2, <2>3 DEF StopSockets, TypeOK
<1>2. CASE StopListening(n)
  BY <1>2 DEF StopListening, TypeOK
<1>3. CASE StopQueue(n)
  <2>1. /\ held' \in [Servers -> SUBSET Connecting] /\ unhandled' \in BOOLEAN
        /\ closing' \in [Servers -> {"no", "asked", "sockets", "stopping", "closed", "stuck"}]
    BY <1>3 DEF StopQueue, Disconnect, TypeOK
  <2>2. QED BY <1>3, <2>1 DEF StopQueue, TypeOK
<1>4. QED BY <1>1, <1>2, <1>3 DEF Shutdown

LEMMA EditorType ==
    ASSUME TypeOK, CurrentInv, Editor
    PROVE  TypeOK'
<1>1. ASSUME NEW n \in Servers, ConstructServer(n) PROVE TypeOK'
  BY <1>1 DEF ConstructServer, TypeOK, Stages, Connecting
<1>2. ASSUME NEW n \in Servers, CloseServer(n) PROVE TypeOK'
  BY <1>2 DEF CloseServer, TypeOK
<1>3. ASSUME NEW a \in Adapters, StartAdapter(a) PROVE TypeOK'
  <2>1. a.op \in Operations /\ [op |-> a.op, adapter |-> a] \in Calls
    BY DeploymentAssumption DEF AdapterConfigs, Calls
  <2>2. Current \in Servers
    BY <1>3 DEF StartAdapter, CurrentInv, Servers
  <2>3. deployed' \in Tables /\ starts' \in 0 .. MaxStarts
    BY <1>3, <2>1, DeploymentAssumption DEF StartAdapter, TypeOK, Tables
  <2>4. QED BY <1>3, <2>1, <2>2, <2>3, WrappedType DEF StartAdapter, TypeOK, serverVars, redisVars, requestVars
<1>4. ASSUME NEW op \in Operations, CloseAdapter(op) PROVE TypeOK'
  <2>1. [op |-> op, adapter |-> None] \in Calls
    BY DEF Calls
  <2>2. Current \in Servers
    BY <1>4 DEF CloseAdapter, CurrentInv, Servers, NoAdapters
  <2>3. deployed' \in Tables
    BY <1>4 DEF CloseAdapter, TypeOK, Tables
  <2>4. QED BY <1>4, <2>1, <2>2, <2>3, WrappedType DEF CloseAdapter, TypeOK, serverVars, redisVars, requestVars
<1>5. QED BY <1>1, <1>2, <1>3, <1>4 DEF Editor

\* What is on its way to a server is lost with the sockets; only a question is asked.
Linked ==
    \A r \in Requests :
        /\ at[r] = "sent" => link # 0
        /\ at[r] # "new" => asked[r] \in Questions

LEMMA TrafficType ==
    ASSUME TypeOK, Linked, Pod \/ Traffic \/ RedisDown \/ RedisUp
    PROVE  TypeOK'
<1>1. ASSUME NEW n \in Servers, Hello(n) PROVE TypeOK'
  BY <1>1 DEF Hello, TypeOK
<1>2. CASE Hear
  BY <1>2 DEF Hear, TypeOK
<1>3. ASSUME NEW r \in Requests, NEW q \in Questions, Submit(r, q) PROVE TypeOK'
  <2>1. q.op \in Operations /\ view[q.op] \in Adapters \cup {None}
    BY DeploymentAssumption DEF TypeOK, Tables
  <2>2. QED BY <1>3, <2>1 DEF Submit, TypeOK, Places
<1>4. ASSUME NEW r \in Requests, Receive(r) PROVE TypeOK'
  <2>1. asked[r].op \in Operations /\ link \in Servers
    BY <1>4, DeploymentAssumption DEF Receive, Linked, TypeOK
  <2>2. adapters[link][asked[r].op] \in Adapters \cup {None}
    BY <2>1 DEF TypeOK, Tables
  <2>3. \A p, v : Judgement(adapters[link][asked[r].op], p, v) \in Places
    BY DEF Judgement, Places
  <2>4. QED BY <1>4, <2>2, <2>3 DEF Receive, TypeOK
<1>5. ASSUME NEW r \in Requests, NEW n \in Servers, Execute(r, n) PROVE TypeOK'
  <2>1. asked[r].op \in Operations
    BY <1>5, DeploymentAssumption DEF Execute, Linked
  <2>2. adapters[n][asked[r].op] \in Adapters \cup {None}
    BY <2>1 DEF TypeOK, Tables
  <2>3. ran' \in [Requests -> Adapters \cup {None}]
    BY <1>5, <2>2 DEF Execute, TypeOK
  <2>4. at'[r] \in {"invalid", "called", "failed"} /\ at' = [at EXCEPT ![r] = at'[r]]
    <3>1. r \in DOMAIN at
      BY DEF TypeOK
    <3>2. QED BY <1>5, <3>1 DEF Execute
  <2>5. at' \in [Requests -> Places]
    BY <2>4 DEF TypeOK, Places
  <2>6. /\ UNCHANGED <<redisVars, serverVars, waiting, adapters>>
        /\ UNCHANGED <<editorVars, podVars, asked, seen, accepted, unhandled>>
    BY <1>5 DEF Execute
  <2>7. QED BY <2>3, <2>5, <2>6 DEF TypeOK
<1>6. CASE RedisDown
  <2>1. outages < MaxOutages /\ outages' = outages + 1 /\ redis' = FALSE
    BY <1>6 DEF RedisDown
  <2>2. outages \in 0 .. MaxOutages /\ MaxOutages \in Nat
    BY DeploymentAssumption DEF TypeOK
  <2>3. outages' \in 0 .. MaxOutages
    BY <2>1, <2>2
  <2>4. QED BY <1>6, <2>1, <2>3 DEF RedisDown, TypeOK
<1>7. CASE RedisUp
  BY <1>7 DEF RedisUp, TypeOK
<1>8. QED BY <1>1, <1>2, <1>3, <1>4, <1>5, <1>6, <1>7 DEF Pod, Traffic
-----------------------------------------------------------------------------
(* Which server node is the current one.                                   *)

LEMMA ConstructedStays ==
    ASSUME \A n \in Servers : stage'[n] = "none" <=> stage[n] = "none"
    PROVE  Constructed' = Constructed /\ Current' = Current
<1>1. Constructed' = Constructed
  BY DEF Constructed
<1>2. QED BY <1>1 DEF Current

\* What the steps of a start have in common.
LEMMA StartupFacts ==
    ASSUME TypeOK, NEW n \in Servers, Startup(n)
    PROVE  /\ ~Settled(n) /\ stage[n] # "none" /\ stage'[n] # "none"
           /\ \A m \in Servers \ {n} : stage'[m] = stage[m] /\ port'[m] = port[m]
                                       /\ held'[m] = held[m]
           /\ UNCHANGED <<closing, editorVars, link, view, requestVars>>
<1>1. CASE Connected(n)
  <2>1. After(stage[n]) # "none"
    BY <1>1 DEF Connected, After, Connecting
  <2>2. QED BY <1>1, <2>1 DEF Connected, Settled, Connecting, TypeOK
<1>2. CASE Retry(n)
  BY <1>2 DEF Retry, Fail, Settled, Connecting, TypeOK
<1>3. CASE Listen(n)
  BY <1>3 DEF Listen, Fail, Settled, TypeOK
<1>4. CASE StartQueue(n)
  BY <1>4 DEF StartQueue, Resolve, Fail, Settled, TypeOK
<1>5. QED BY <1>1, <1>2, <1>3, <1>4 DEF Startup

LEMMA CurrentInit == Init => CurrentInv
<1>1. SUFFICES ASSUME Init PROVE CurrentInv
  OBVIOUS
<1>2. Constructed = {} /\ deployed = NoAdapters
  BY <1>1 DEF Init, Constructed
<1>3. Current = 0
  BY <1>2, FS_EmptySet DEF Current
<1>4. QED BY <1>2, <1>3, DeploymentAssumption DEF CurrentInv

LEMMA ConstructFacts ==
    ASSUME TypeOK, CurrentInv, NEW n \in Servers, ConstructServer(n)
    PROVE  /\ n = Current + 1 /\ Current' = n /\ Constructed' = 1 .. n
           /\ stage[n] = "none" /\ stage' = [stage EXCEPT ![n] = "limiter"]
           /\ Current # 0 => Current \in Servers /\ closing[Current] # "no"
<1>1. /\ n = Current + 1
      /\ stage' = [stage EXCEPT ![n] = "limiter"]
      /\ n > 1 => closing[n - 1] # "no"
  BY DEF ConstructServer
<1>2. stage[n] = "none"
  <2>1. Current \in Nat /\ n \notin 1 .. Current
    BY <1>1 DEF CurrentInv
  <2>2. QED BY <2>1 DEF CurrentInv, Constructed
<1>3. Constructed' = Constructed \cup {n}
  BY <1>1 DEF Constructed, TypeOK
<1>4. Constructed' = 1 .. n
  BY <1>1, <1>3 DEF CurrentInv, Servers
<1>5. Current' = n
  <2>1. n \in Nat /\ Cardinality(1 .. n) = n
    BY FS_Interval DEF Servers
  <2>2. QED BY <1>4, <2>1 DEF Current
<1>6. Current # 0 => Current \in Servers /\ closing[Current] # "no"
  BY <1>1 DEF CurrentInv, Servers
<1>7. QED BY <1>1, <1>2, <1>4, <1>5, <1>6

LEMMA CurrentStep ==
    ASSUME TypeOK, CurrentInv, Next
    PROVE  CurrentInv'
<1>1. ASSUME \A n \in Servers : stage'[n] = "none" <=> stage[n] = "none",
             deployed' = deployed \/ Current # 0
      PROVE  CurrentInv'
  BY <1>1, ConstructedStays DEF CurrentInv, NoAdapters
<1>2. ASSUME NEW n \in Servers, ConstructServer(n) PROVE CurrentInv'
  BY <1>2, ConstructFacts, DeploymentAssumption DEF CurrentInv, Servers
<1>3. ASSUME NEW n \in Servers, Startup(n) PROVE CurrentInv'
  BY <1>1, <1>3, StartupFacts
<1>4. ASSUME NEW op \in Operations, CloseAdapter(op) PROVE CurrentInv'
  BY <1>1, <1>4 DEF CloseAdapter, CurrentInv, NoAdapters
<1>5. ASSUME NEW a \in Adapters, StartAdapter(a) PROVE CurrentInv'
  BY <1>1, <1>5 DEF StartAdapter
<1>6. ASSUME UNCHANGED <<stage, deployed>> PROVE CurrentInv'
  BY <1>1, <1>6
<1>7. ASSUME NEW n \in Servers, CloseServer(n) \/ Shutdown(n) \/ Hello(n) PROVE CurrentInv'
  BY <1>6, <1>7 DEF CloseServer, Shutdown, StopSockets, StopListening, StopQueue, Hello
<1>8. CASE RedisDown \/ RedisUp \/ Hear
  BY <1>6, <1>8 DEF RedisDown, RedisUp, Hear
<1>9. ASSUME NEW r \in Requests, NEW q \in Questions, Submit(r, q) PROVE CurrentInv'
  BY <1>6, <1>9 DEF Submit
<1>10. CASE Traffic
  BY <1>6, <1>10 DEF Traffic, Receive, Execute
<1>11. QED BY <1>2, <1>3, <1>4, <1>5, <1>7, <1>8, <1>9, <1>10 DEF Next, Editor, Pod
-----------------------------------------------------------------------------
(* What a server node that is closed has released.                         *)

Late == {"sockets", "stopping", "closed", "stuck"}
ServersInv ==
    \A n \in Servers :
        /\ stage[n] = "none" => closing[n] = "no"
        /\ closing[n] \in Late => link # n /\ Settled(n)
        /\ closing[n] \in Late \ {"sockets"} => ~port[n]
        /\ closing[n] = "closed" => held[n] = {}

LEMMA ServersInit == Init => ServersInv
BY DEF Init, ServersInv, Late

LEMMA ServersStep ==
    ASSUME TypeOK, CurrentInv, ServersInv, Next
    PROVE  ServersInv'
<1>1. ASSUME UNCHANGED <<closing, link, stage, port, held>> PROVE ServersInv'
  BY <1>1 DEF ServersInv, Settled
<1>2. ASSUME NEW n \in Servers, ConstructServer(n) PROVE ServersInv'
  <2>1. /\ stage[n] = "none" /\ stage' = [stage EXCEPT ![n] = "limiter"]
        /\ UNCHANGED <<closing, link, port, held>>
    BY <1>2, ConstructFacts DEF ConstructServer
  <2>2. closing[n] = "no"
    BY <2>1 DEF ServersInv
  <2>3. QED BY <2>1, <2>2 DEF ServersInv, Settled, Late, TypeOK
<1>3. ASSUME NEW n \in Servers, CloseServer(n) PROVE ServersInv'
  <2>1. stage[n] # "none"
    BY <1>3 DEF CloseServer, CurrentInv, Constructed, Servers
  <2>2. QED BY <1>3, <2>1 DEF CloseServer, ServersInv, Settled, Late, TypeOK
<1>4. ASSUME NEW n \in Servers, Startup(n) PROVE ServersInv'
  <2>1. /\ ~Settled(n) /\ stage'[n] # "none" /\ UNCHANGED <<closing, link>>
        /\ \A m \in Servers \ {n} : stage'[m] = stage[m] /\ port'[m] = port[m]
                                    /\ held'[m] = held[m]
    BY <1>4, StartupFacts
  <2>2. closing[n] \notin Late
    BY <2>1 DEF ServersInv
  <2>3. QED BY <2>1, <2>2 DEF ServersInv, Settled, Late
<1>5. ASSUME NEW n \in Servers, StopSockets(n) PROVE ServersInv'
  <2>1. link' # n /\ (link' = link \/ link' = 0)
    BY <1>5 DEF StopSockets, Unplug, Servers
  <2>2. /\ Settled(n) /\ closing' = [closing EXCEPT ![n] = "sockets"]
        /\ UNCHANGED <<stage, port, held>>
    BY <1>5 DEF StopSockets
  <2>3. stage[n] # "none"
    BY <2>2 DEF Settled
  <2>4. QED BY <2>1, <2>2, <2>3 DEF ServersInv, Settled, Late, Servers, TypeOK
<1>6. ASSUME NEW n \in Servers, StopListening(n) PROVE ServersInv'
  BY <1>6 DEF StopListening, ServersInv, Settled, Late, TypeOK
<1>7. ASSUME NEW n \in Servers, StopQueue(n) PROVE ServersInv'
  <2>1. /\ closing[n] = "stopping" /\ UNCHANGED <<stage, port, link>>
        /\ \/ held' = [held EXCEPT ![n] = {}] /\ closing' = [closing EXCEPT ![n] = "closed"]
           \/ UNCHANGED <<held, closing>>
           \/ closing' = [closing EXCEPT ![n] = "stuck"] /\ UNCHANGED held
    BY <1>7 DEF StopQueue, Disconnect
  <2>2. QED BY <2>1 DEF ServersInv, Settled, Late, TypeOK
<1>8. ASSUME NEW n \in Servers, Hello(n) PROVE ServersInv'
  BY <1>8 DEF Hello, ServersInv, Settled, Late
<1>9. CASE (\E a \in Adapters : StartAdapter(a)) \/ (\E op \in Operations : CloseAdapter(op))
  BY <1>1, <1>9 DEF StartAdapter, CloseAdapter
<1>10. CASE RedisDown \/ RedisUp \/ Hear
  BY <1>1, <1>10 DEF RedisDown, RedisUp, Hear
<1>11. ASSUME NEW r \in Requests, NEW q \in Questions, Submit(r, q) PROVE ServersInv'
  BY <1>1, <1>11 DEF Submit
<1>12. CASE Traffic
  BY <1>1, <1>12 DEF Traffic, Receive, Execute
<1>13. QED BY <1>2, <1>3, <1>4, <1>5, <1>6, <1>7, <1>8, <1>9, <1>10, <1>11, <1>12
           DEF Next, Editor, Pod, Shutdown

-----------------------------------------------------------------------------
(* The calls: what was checked, by whom, and what became of it.            *)

CallInv ==
    \A r \in Requests :
        /\ at[r] = "new" => seen[r] = None
        /\ at[r] \notin {"new", "refused"} => Accepts(Payload(r), Value(r), SchemaOf(seen[r]))
        /\ at[r] = "rejected" => seen[r] # accepted[r]
        /\ at[r] \in {"queued", "called", "failed"} =>
              /\ accepted[r] \in Adapters
              /\ Accepts(Payload(r), Normalize(Value(r)), RequestSchema(accepted[r]))
        /\ at[r] \in {"called", "failed"} => ran[r] \in Adapters

LEMMA CallInit == Init => CallInv /\ Linked
BY DEF Init, CallInv, Linked

LEMMA CallStep ==
    ASSUME TypeOK, Linked, CallInv, Next
    PROVE  CallInv' /\ Linked'
<1>1. ASSUME UNCHANGED <<requestVars, link>> PROVE CallInv' /\ Linked'
  BY <1>1 DEF CallInv, Linked, Payload, Value
<1>2. ASSUME NEW n \in Servers, StopSockets(n) PROVE CallInv' /\ Linked'
  <2>1. /\ UNCHANGED <<asked, seen, accepted, ran>>
        /\ \/ UNCHANGED <<link, at>>
           \/ \A r \in Requests : at'[r] = IF at[r] = "sent" THEN "lost" ELSE at[r]
    BY <1>2 DEF StopSockets, Unplug
  <2>2. QED BY <2>1 DEF CallInv, Linked, Payload, Value
<1>3. ASSUME NEW n \in Servers, Hello(n) PROVE CallInv' /\ Linked'
  <2>1. UNCHANGED requestVars /\ link' # 0
    BY <1>3 DEF Hello, Servers
  <2>2. QED BY <2>1 DEF CallInv, Linked, Payload, Value
<1>4. ASSUME NEW r \in Requests, NEW q \in Questions, Submit(r, q) PROVE CallInv' /\ Linked'
  <2>1. /\ asked'[r] = q /\ seen'[r] = view[q.op] /\ link' = link /\ link # 0
        /\ at'[r] = IF Accepts(q.payload, q.value, SchemaOf(seen'[r]))
                    THEN "sent" ELSE "refused"
    BY <1>4 DEF Submit, TypeOK
  <2>2. /\ UNCHANGED <<accepted, ran>>
        /\ \A s \in Requests \ {r} : at'[s] = at[s] /\ asked'[s] = asked[s] /\ seen'[s] = seen[s]
    BY <1>4 DEF Submit, TypeOK
  <2>3. QED BY <2>1, <2>2 DEF CallInv, Linked, Payload, Value
<1>5. ASSUME NEW r \in Requests, Receive(r) PROVE CallInv' /\ Linked'
  <2>1. DEFINE a == adapters[link][asked[r].op]
               v == Normalize(Value(r))
  <2>2. /\ at[r] = "sent" /\ at'[r] = Judgement(a, Payload(r), v) /\ accepted'[r] = a
        /\ UNCHANGED <<asked, seen, ran, link>>
        /\ \A s \in Requests \ {r} : at'[s] = at[s] /\ accepted'[s] = accepted[s]
    BY <1>5 DEF Receive, Payload, Value, TypeOK
  <2>3. asked[r].op \in Operations /\ link \in Servers
    BY <2>2, DeploymentAssumption DEF Linked, TypeOK
  <2>4. a \in Adapters \cup {None}
    BY <2>3 DEF TypeOK, Tables
  <2>5. Accepts(Payload(r), Value(r), SchemaOf(seen[r])) /\ Value(r) \in Options
    BY <2>2, AskedType DEF CallInv, Value
  <2>6. /\ at'[r] \in {"unknown", "rejected", "unavailable", "queued"}
        /\ at'[r] = "rejected" => a \in Adapters /\ ~Accepts(Payload(r), v, RequestSchema(a))
        /\ at'[r] = "queued" => a \in Adapters /\ Accepts(Payload(r), v, RequestSchema(a))
    BY <2>2, <2>4 DEF Judgement
  <2>7. at'[r] = "rejected" => seen[r] # a
    BY <2>5, <2>6, NormalizedPasses, SchemaFacts
  <2>8. asked[r] \in Questions
    BY <2>2 DEF Linked
  <2>9. Payload(r)' = Payload(r) /\ Value(r)' = Value(r)
    BY <2>2 DEF Payload, Value
  <2>10. QED BY <2>2, <2>5, <2>6, <2>7, <2>8, <2>9 DEF CallInv, Linked, Payload, Value
<1>6. ASSUME NEW r \in Requests, NEW n \in Servers, Execute(r, n) PROVE CallInv' /\ Linked'
  <2>1. asked[r].op \in Operations
    BY <1>6, DeploymentAssumption DEF Execute, Linked
  <2>2. adapters[n][asked[r].op] \in Adapters \cup {None}
    BY <2>1 DEF TypeOK, Tables
  <2>3. /\ at[r] = "queued" /\ ran'[r] = adapters[n][asked[r].op]
        /\ at'[r] \in {"invalid", "called", "failed"}
        /\ at'[r] \in {"called", "failed"} => ran'[r] # None
        /\ UNCHANGED <<asked, seen, accepted, link>>
        /\ \A s \in Requests \ {r} : at'[s] = at[s] /\ ran'[s] = ran[s]
    BY <1>6 DEF Execute, TypeOK
  <2>4. QED BY <2>2, <2>3 DEF CallInv, Linked, Payload, Value
<1>7. CASE Editor
  BY <1>1, <1>7 DEF Editor, ConstructServer, CloseServer, StartAdapter, CloseAdapter
<1>8. ASSUME NEW n \in Servers, Startup(n) PROVE CallInv' /\ Linked'
  BY <1>1, <1>8, StartupFacts
<1>9. ASSUME NEW n \in Servers, StopListening(n) \/ StopQueue(n) PROVE CallInv' /\ Linked'
  BY <1>1, <1>9 DEF StopListening, StopQueue
<1>10. CASE RedisDown \/ RedisUp \/ Hear
  BY <1>1, <1>10 DEF RedisDown, RedisUp, Hear
<1>11. QED BY <1>2, <1>3, <1>4, <1>5, <1>6, <1>7, <1>8, <1>9, <1>10
           DEF Next, Pod, Traffic, Shutdown
-----------------------------------------------------------------------------
(* What a server node offers, counting the calls that still await it.      *)

Offer(n) == IF n = Current THEN deployed ELSE NoAdapters
RegistryInv ==
    /\ Current # 0 /\ closing[Current] # "no" => deployed = NoAdapters
    /\ \A n \in Servers :
          /\ stage[n] # "failed" => Apply(adapters[n], waiting[n]) = Offer(n)
          /\ stage[n] = "up" => waiting[n] = <<>>

LEMMA RegistryInit == Init => RegistryInv
<1>1. SUFFICES ASSUME Init PROVE RegistryInv
  OBVIOUS
<1>2. \A n \in Servers : adapters[n] = NoAdapters /\ waiting[n] = <<>>
  BY <1>1 DEF Init
<1>3. deployed = NoAdapters
  BY <1>1 DEF Init
<1>4. Apply(NoAdapters, <<>>) = NoAdapters
  BY NoAdaptersType, ApplyNothing
<1>5. QED BY <1>2, <1>3, <1>4 DEF RegistryInv, Offer

\* An adapter that comes or goes.
LEMMA WrappedRegistry ==
    ASSUME TypeOK, CurrentInv, RegistryInv, Current \in Servers,
           NEW c \in Calls, c.op \in Operations, Wrapped(Current, c),
           stage' = stage, closing' = closing,
           deployed' = [deployed EXCEPT ![c.op] = c.adapter],
           closing[Current] # "no" => deployed' = NoAdapters
    PROVE  RegistryInv'
<1>1. DEFINE n == Current
<1>2. Current' = Current
  BY ConstructedStays
<1>3. \A m \in Servers \ {n} : adapters'[m] = adapters[m] /\ waiting'[m] = waiting[m]
  BY DEF Wrapped, Run, Await, TypeOK
<1>4. adapters[n] \in Tables /\ waiting[n] \in Seq(Calls)
  BY DEF TypeOK
<1>5. stage[n] # "failed" => Apply(adapters[n], waiting[n]) = deployed
  BY DEF RegistryInv, Offer
<1>6. stage[n] # "failed" => Apply(adapters'[n], waiting'[n]) = deployed'
  <2>1. CASE stage[n] = "up"
    <3>1. waiting[n] = <<>> /\ waiting' = waiting
      BY <2>1 DEF RegistryInv, Wrapped
    <3>2. adapters'[n] = Apply(adapters[n], <<c>>)
      BY <2>1 DEF Wrapped, Run, TypeOK
    <3>3. adapters[n] = deployed
      BY <1>4, <1>5, <2>1, <3>1, ApplyNothing
    <3>4. Apply(adapters[n], <<c>>) = deployed'
      BY <1>4, <3>3, ApplyOne
    <3>5. deployed' \in Tables
      BY DEF TypeOK, Tables, Calls
    <3>6. Apply(deployed', <<>>) = deployed'
      BY <3>5, ApplyNothing
    <3>7. QED BY <3>1, <3>2, <3>4, <3>6
  <2>2. CASE stage[n] \notin {"up", "failed"}
    <3>1. adapters' = adapters /\ waiting'[n] = Append(waiting[n], c)
      BY <2>2 DEF Wrapped, Await, TypeOK
    <3>2. Apply(adapters[n], Append(waiting[n], c))
          = [Apply(adapters[n], waiting[n]) EXCEPT ![c.op] = c.adapter]
      BY <1>4, ApplyAppend
    <3>3. QED BY <1>5, <2>2, <3>1, <3>2
  <2>3. QED BY <2>1, <2>2
<1>7. stage[n] = "up" => waiting'[n] = <<>>
  BY DEF RegistryInv, Wrapped
<1>8. QED BY <1>2, <1>3, <1>6, <1>7 DEF RegistryInv, Offer

LEMMA RegistryStep ==
    ASSUME TypeOK, CurrentInv, ServersInv, RegistryInv, Next
    PROVE  RegistryInv'
<1>1. ASSUME UNCHANGED <<stage, closing, deployed, adapters, waiting>> PROVE RegistryInv'
  <2>1. Current' = Current
    BY <1>1, ConstructedStays
  <2>2. QED BY <1>1, <2>1 DEF RegistryInv, Offer
<1>2. ASSUME NEW n \in Servers, ConstructServer(n) PROVE RegistryInv'
  <2>1. /\ n = Current + 1 /\ Current' = n
        /\ stage[n] = "none" /\ stage' = [stage EXCEPT ![n] = "limiter"]
        /\ Current # 0 => Current \in Servers /\ closing[Current] # "no"
        /\ UNCHANGED <<closing, deployed, adapters, waiting>>
    BY <1>2, ConstructFacts DEF ConstructServer
  <2>2. deployed = NoAdapters
    BY <2>1 DEF RegistryInv, CurrentInv
  <2>3. \A m \in Servers : stage[m] # "failed" => Apply(adapters[m], waiting[m]) = NoAdapters
    BY <2>2 DEF RegistryInv, Offer
  <2>4. \A m \in Servers : stage'[m] # "failed" => stage[m] # "failed"
    BY <2>1 DEF TypeOK
  <2>5. \A m \in Servers : stage'[m] = "up" => stage[m] = "up"
    BY <2>1 DEF TypeOK
  <2>6. QED BY <2>1, <2>2, <2>3, <2>4, <2>5 DEF RegistryInv, Offer
<1>3. ASSUME NEW n \in Servers, CloseServer(n) PROVE RegistryInv'
  <2>1. deployed = NoAdapters /\ UNCHANGED <<stage, deployed, adapters, waiting>>
    BY <1>3 DEF CloseServer
  <2>2. Current' = Current
    BY <2>1, ConstructedStays
  <2>3. QED BY <2>1, <2>2 DEF RegistryInv, Offer
<1>4. ASSUME NEW n \in Servers, Shutdown(n) PROVE RegistryInv'
  <2>1. /\ closing[n] # "no" /\ UNCHANGED <<stage, deployed, adapters, waiting>>
        /\ \A m \in Servers \ {n} : closing'[m] = closing[m]
    BY <1>4 DEF Shutdown, StopSockets, StopListening, StopQueue, TypeOK
  <2>2. Current' = Current
    BY <2>1, ConstructedStays
  <2>3. Current # 0 => Current \in Servers
    BY DEF CurrentInv, Servers
  <2>4. QED BY <2>1, <2>2, <2>3 DEF RegistryInv, Offer
<1>5. ASSUME NEW n \in Servers, Startup(n) PROVE RegistryInv'
  <2>1. /\ stage[n] \notin {"none", "up", "failed"} /\ stage'[n] # "none"
        /\ \A m \in Servers \ {n} : stage'[m] = stage[m]
        /\ UNCHANGED <<closing, deployed>>
    BY <1>5, StartupFacts DEF Settled
  <2>2. Current' = Current
    BY <2>1, ConstructedStays
  <2>3. adapters[n] \in Tables /\ waiting[n] \in Seq(Calls)
    BY DEF TypeOK
  <2>4. \/ stage'[n] # "up" /\ UNCHANGED <<adapters, waiting>>
        \/ Fail(n)
        \/ Resolve(n)
    BY <1>5 DEF Startup, Connected, After, Connecting, Retry, Listen, StartQueue, TypeOK
  <2>5. CASE stage'[n] # "up" /\ UNCHANGED <<adapters, waiting>>
    BY <2>1, <2>2, <2>5 DEF RegistryInv, Offer
  <2>6. CASE Fail(n)
    <3>1. /\ stage'[n] = "failed" /\ adapters' = adapters
          /\ \A m \in Servers \ {n} : waiting'[m] = waiting[m]
      BY <2>6 DEF Fail, TypeOK
    <3>2. QED BY <2>1, <2>2, <3>1 DEF RegistryInv, Offer
  <2>7. CASE Resolve(n)
    <3>1. /\ adapters'[n] = Apply(adapters[n], waiting[n]) /\ waiting'[n] = <<>>
          /\ \A m \in Servers \ {n} : waiting'[m] = waiting[m] /\ adapters'[m] = adapters[m]
      BY <2>7 DEF Resolve, Run, TypeOK
    <3>2. Apply(adapters'[n], <<>>) = adapters'[n]
      BY <2>3, <3>1, ApplyType, ApplyNothing
    <3>3. QED BY <2>1, <2>2, <3>1, <3>2 DEF RegistryInv, Offer
  <2>8. QED BY <2>4, <2>5, <2>6, <2>7
<1>6. ASSUME NEW a \in Adapters, StartAdapter(a) PROVE RegistryInv'
  <2>1. DEFINE c == [op |-> a.op, adapter |-> a]
  <2>2. c \in Calls /\ c.op = a.op /\ c.adapter = a /\ a.op \in Operations
    BY DeploymentAssumption DEF AdapterConfigs, Calls
  <2>3. /\ Current \in Servers /\ closing[Current] = "no"
    BY <1>6 DEF StartAdapter, CurrentInv, Servers
  <2>4. /\ Wrapped(Current, c) /\ stage' = stage /\ closing' = closing
        /\ deployed' = [deployed EXCEPT ![c.op] = c.adapter]
    BY <1>6 DEF StartAdapter
  <2>5. QED BY <2>2, <2>3, <2>4, WrappedRegistry
<1>7. ASSUME NEW op \in Operations, CloseAdapter(op) PROVE RegistryInv'
  <2>1. DEFINE c == [op |-> op, adapter |-> None]
  <2>2. c \in Calls /\ c.op = op /\ c.adapter = None
    BY DEF Calls
  <2>3. Current \in Servers
    BY <1>7 DEF CloseAdapter, CurrentInv, Servers, NoAdapters
  <2>4. closing[Current] = "no"
    BY <1>7, <2>3 DEF CloseAdapter, RegistryInv, NoAdapters, Servers
  <2>5. /\ Wrapped(Current, c) /\ stage' = stage /\ closing' = closing
        /\ deployed' = [deployed EXCEPT ![c.op] = c.adapter]
    BY <1>7 DEF CloseAdapter
  <2>6. QED BY <2>2, <2>3, <2>4, <2>5, WrappedRegistry
<1>8. CASE RedisDown \/ RedisUp \/ Pod \/ Traffic
  BY <1>1, <1>8 DEF RedisDown, RedisUp, Pod, Hello, Hear, Submit, Traffic, Receive, Execute
<1>9. QED BY <1>2, <1>3, <1>4, <1>5, <1>6, <1>7, <1>8 DEF Next, Editor

-----------------------------------------------------------------------------
(* What the POD knows, counting the broadcasts on their way.               *)

KnowledgeInv == (link = 0 => wire = <<>>) /\ PodsInformed

LEMMA KnowledgeInit == Init => KnowledgeInv
BY DEF Init, KnowledgeInv, PodsInformed

LEMMA RunKnowledge ==
    ASSUME TypeOK, KnowledgeInv, NEW n \in Servers, NEW calls, Run(n, calls),
           UNCHANGED <<link, view>>
    PROVE  KnowledgeInv'
<1>1. DEFINE t == Apply(adapters[n], calls)
<1>2. /\ adapters' = [adapters EXCEPT ![n] = t]
      /\ IF link = n /\ t # adapters[n] THEN wire' = Append(wire, t) ELSE wire' = wire
  BY DEF Run, Broadcast
<1>3. wire \in Seq(Tables) /\ link \in Servers \cup {0} /\ 0 \notin Servers
  BY DEF TypeOK, Servers
<1>4. CASE link = n /\ t # adapters[n]
  <2>1. wire' # <<>> /\ wire'[Len(wire')] = t
    BY <1>2, <1>3, <1>4
  <2>2. adapters'[link] = t
    BY <1>2, <1>4 DEF TypeOK
  <2>3. QED BY <1>3, <1>4, <2>1, <2>2 DEF KnowledgeInv, PodsInformed
<1>5. CASE ~(link = n /\ t # adapters[n])
  <2>1. wire' = wire /\ (link # 0 => adapters'[link] = adapters[link])
    BY <1>2, <1>3, <1>5 DEF TypeOK
  <2>2. QED BY <2>1 DEF KnowledgeInv, PodsInformed
<1>6. QED BY <1>4, <1>5

LEMMA KnowledgeStep ==
    ASSUME TypeOK, CurrentInv, KnowledgeInv, Next
    PROVE  KnowledgeInv'
<1>1. ASSUME UNCHANGED <<link, wire, view, adapters>> PROVE KnowledgeInv'
  BY <1>1 DEF KnowledgeInv, PodsInformed
<1>2. ASSUME NEW n \in Servers, NEW c, Wrapped(n, c), UNCHANGED <<link, view>>
      PROVE  KnowledgeInv'
  BY <1>1, <1>2, RunKnowledge DEF Wrapped
<1>3. ASSUME NEW a \in Adapters, StartAdapter(a) PROVE KnowledgeInv'
  <2>1. Current \in Servers
    BY <1>3 DEF StartAdapter, CurrentInv, Servers
  <2>2. QED BY <1>2, <1>3, <2>1 DEF StartAdapter
<1>4. ASSUME NEW op \in Operations, CloseAdapter(op) PROVE KnowledgeInv'
  <2>1. Current \in Servers
    BY <1>4 DEF CloseAdapter, CurrentInv, Servers, NoAdapters
  <2>2. QED BY <1>2, <1>4, <2>1 DEF CloseAdapter
<1>5. ASSUME NEW n \in Servers, Startup(n) PROVE KnowledgeInv'
  <2>1. UNCHANGED <<link, view>>
    BY <1>5, StartupFacts
  <2>2. UNCHANGED <<wire, adapters>> \/ Resolve(n)
    BY <1>5 DEF Startup, Connected, Retry, Listen, StartQueue, Fail
  <2>3. QED BY <1>1, <2>1, <2>2, RunKnowledge DEF Resolve
<1>6. ASSUME NEW n \in Servers, Shutdown(n) PROVE KnowledgeInv'
  <2>1. CASE StopSockets(n)
    BY <1>1, <2>1 DEF StopSockets, Unplug, KnowledgeInv, PodsInformed
  <2>2. CASE StopListening(n) \/ StopQueue(n)
    BY <1>1, <2>2 DEF StopListening, StopQueue
  <2>3. QED BY <1>6, <2>1, <2>2 DEF Shutdown
<1>7. ASSUME NEW n \in Servers, Hello(n) PROVE KnowledgeInv'
  <2>1. wire' = <<>> /\ link' = n /\ n # 0 /\ view' = adapters'[n]
    BY <1>7 DEF Hello, KnowledgeInv, Servers
  <2>2. QED BY <2>1 DEF KnowledgeInv, PodsInformed
<1>8. CASE Hear
  <2>1. /\ wire # <<>> /\ wire \in Seq(Tables) /\ view' = Head(wire) /\ wire' = Tail(wire)
        /\ UNCHANGED <<link, adapters>>
    BY <1>8 DEF Hear, TypeOK
  <2>2. CASE wire' = <<>>
    <3>1. Len(wire) = 1 /\ Head(wire) = wire[1]
      <4>1. Len(wire) \in Nat /\ Len(wire) # 0
        BY <2>1
      <4>2. Len(Tail(wire)) = Len(wire) - 1
        BY <2>1, <4>1
      <4>3. Len(Tail(wire)) = 0
        <5>1. Tail(wire) = <<>>
          BY <2>1, <2>2
        <5>2. Len(<<>>) = 0
          OBVIOUS
        <5>3. QED BY <5>1, <5>2
      <4>4. QED BY <2>1, <4>1, <4>2, <4>3
    <3>2. QED BY <2>1, <2>2, <3>1 DEF KnowledgeInv, PodsInformed
  <2>3. CASE wire' # <<>>
    <3>1. wire'[Len(wire')] = wire[Len(wire)]
      BY <2>1, <2>3
    <3>2. QED BY <2>1, <2>3, <3>1 DEF KnowledgeInv, PodsInformed
  <2>4. QED BY <2>2, <2>3
<1>9. ASSUME NEW r \in Requests, NEW q \in Questions, Submit(r, q) PROVE KnowledgeInv'
  BY <1>1, <1>9 DEF Submit
<1>10. ASSUME NEW n \in Servers, ConstructServer(n) \/ CloseServer(n) PROVE KnowledgeInv'
  BY <1>1, <1>10 DEF ConstructServer, CloseServer
<1>11. CASE RedisDown \/ RedisUp \/ Traffic
  BY <1>1, <1>11 DEF RedisDown, RedisUp, Traffic, Receive, Execute
<1>12. QED BY <1>3, <1>4, <1>5, <1>6, <1>7, <1>8, <1>9, <1>10, <1>11 DEF Next, Editor, Pod
-----------------------------------------------------------------------------
(* The theorems.                                                           *)

IInv == TypeOK /\ CurrentInv /\ Linked /\ ServersInv /\ CallInv /\ RegistryInv /\ KnowledgeInv

LEMMA IInvInit == Init => IInv
BY InitType, CurrentInit, CallInit, ServersInit, RegistryInit, KnowledgeInit DEF IInv

LEMMA IInvStep == IInv /\ [Next]_vars => IInv'
<1>1. CASE IInv /\ Next
  <2>1. TypeOK'
    BY <1>1, StartupType, ShutdownType, EditorType, TrafficType DEF IInv, Next
  <2>2. QED BY <1>1, <2>1, CurrentStep, CallStep, ServersStep, RegistryStep, KnowledgeStep DEF IInv
<1>2. CASE IInv /\ UNCHANGED vars
  <2>1. TypeOK' /\ Linked'
    BY <1>2 DEF IInv, vars, TypeOK, Linked
  <2>2. CurrentInv' /\ ServersInv'
    BY <1>2 DEF IInv, vars, CurrentInv, Current, Constructed, ServersInv, Settled
  <2>3. CallInv' /\ KnowledgeInv'
    BY <1>2 DEF IInv, vars, CallInv, Payload, Value, KnowledgeInv, PodsInformed
  <2>4. RegistryInv'
    BY <1>2 DEF IInv, vars, RegistryInv, Offer, Current, Constructed
  <2>5. QED BY <2>1, <2>2, <2>3, <2>4 DEF IInv
<1>3. QED BY <1>1, <1>2

LEMMA Invariance == Spec => []IInv
<1>1. QED BY IInvInit, IInvStep, PTL DEF Spec

\* Every variable stays in its range.
THEOREM TypeCorrect == Spec => []TypeOK
<1>1. IInv => TypeOK
  BY DEF IInv
<1>2. QED BY <1>1, Invariance, PTL

\* However many server nodes come and go: one that is closed holds no socket, no
\* port and no connection to Redis.
THEOREM ClosedHoldsNothing == Spec => []Released
<1>1. IInv => Released
  BY DEF IInv, ServersInv, Late, Released
<1>2. QED BY <1>1, Invariance, PTL

\* A server node that is up offers what the editor shows, in whatever order the
\* adapters were started and closed while it connected.
THEOREM RegistryIsTheEditors == Spec => []RegistryFollows
<1>1. ASSUME IInv PROVE RegistryFollows
  <2>1. SUFFICES ASSUME NEW n \in Servers, stage[n] = "up"
                 PROVE  adapters[n] = Offer(n)
    BY DEF RegistryFollows, Offer
  <2>2. waiting[n] = <<>> /\ Apply(adapters[n], waiting[n]) = Offer(n)
    BY <1>1, <2>1 DEF IInv, RegistryInv
  <2>3. adapters[n] \in Tables
    BY <1>1 DEF IInv, TypeOK
  <2>4. QED BY <2>2, <2>3, ApplyNothing
<1>2. QED BY <1>1, Invariance, PTL

\* A connected POD knows, or is about to hear, what its server offers.
THEOREM PodKnowsOffer == Spec => []PodsInformed
<1>1. IInv => PodsInformed
  BY DEF IInv, KnowledgeInv
<1>2. QED BY <1>1, Invariance, PTL

\* POD and server differ over a call only if they differ over its adapter.
THEOREM VerdictsAgree == Spec => []SameVerdict
<1>1. IInv => SameVerdict
  BY DEF IInv, CallInv, SameVerdict
<1>2. QED BY <1>1, Invariance, PTL

\* Whatever payload a result brings and whatever Gateway Call it is routed into, its
\* _request is judged like that of a new request, but for the method it demands.
THEOREM ResultsMayReturn == Spec => []RouteBack
<1>1. ASSUME IInv PROVE RouteBack
  <2>1. SUFFICES ASSUME NEW r \in Requests, NEW b \in Adapters, NEW payload, NEW m
                 PROVE  Accepts(payload, Envelope(Value(r), m), RequestSchema(b))
                        <=> /\ m \in {"none", b.method}
                            /\ Accepts(payload, Normalize(Value(r)), RequestSchema(b))
    BY DEF RouteBack
  <2>2. Value(r) \in Options
    BY <1>1, AskedType DEF IInv, Value
  <2>3. RequestSchema(b).method = b.method /\ b.method # "none"
    BY SchemaFacts DEF RequestSchema, HTTP_METHODS, BODY_METHODS
  <2>4. QED BY <2>2, <2>3, EnvelopePasses
<1>2. QED BY <1>1, Invariance, PTL

\* What was accepted and is run by the same adapter is made as it was asked, and no
\* POD replaces a header that the adapter sets itself.
THEOREM CallMadeAsAsked == Spec => []AcceptedAsAsked
<1>1. ASSUME IInv PROVE AcceptedAsAsked
  <2>1. SUFFICES ASSUME NEW r \in Requests, at[r] \in {"called", "failed"}, ran[r] = accepted[r]
                 PROVE  LET v == Normalize(Value(r))
                        IN  /\ Resolves(ran[r].template, Payload(r), v)
                            /\ v.body => BodyOf(ran[r], v) = "request"
                            /\ \A name \in DOMAIN v.headers :
                                  /\ Resolves(v.headers[name], Payload(r), v)
                                  /\ name \notin ran[r].own
                                     => "pod" \in Origins(ran[r], v, Lower[name])
                            /\ \A name \in ran[r].own :
                                  "adapter" \in Origins(ran[r], v, Lower[name])
    BY DEF AcceptedAsAsked
  <2>2. /\ ran[r] \in Adapters
        /\ Accepts(Payload(r), Normalize(Value(r)), RequestSchema(ran[r]))
    BY <1>1, <2>1 DEF IInv, CallInv
  <2>3. Value(r) \in Options
    BY <1>1, AskedType DEF IInv, Value
  <2>4. QED BY <2>2, <2>3, NormalizeFacts, MadeAsAsked
<1>2. QED BY <1>1, Invariance, PTL

\* No POD's value reaches a header that holds a credential, for every set of
\* header names and every way to spell them.
THEOREM CredentialsHold == Spec => []CredentialHolds
<1>1. CredentialHolds
  <2>1. SUFFICES ASSUME NEW r \in Requests,
                        NEW name \in ran[r].credential
                                     \cup {n \in DOMAIN ran[r].headers : Lower[n] \in Static}
                 PROVE  "pod" \notin Origins(ran[r], Normalize(Value(r)), Lower[name])
    BY DEF CredentialHolds
  <2>2. Lower[name] \in Protected(RequestSchema(ran[r]))
    BY <2>1 DEF Protected, RequestSchema
  <2>3. \A n \in PodHeaders(ran[r], Normalize(Value(r))) : Lower[n] # Lower[name]
    BY <2>2 DEF PodHeaders
  <2>4. QED BY <2>3 DEF Origins, Spelt
<1>2. QED BY <1>1, PTL
=============================================================================
