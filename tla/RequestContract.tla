-------------------------- MODULE RequestContract --------------------------
(***************************************************************************)
(* What a POD may put in msg._request, who checks it, and what becomes of  *)
(* it upstream: validation, normalisation and the result envelope, and the *)
(* merge of its headers with those of the adapter.                         *)
(*                                                                         *)
(* A template is the set of the variables it names, a payload the set of   *)
(* those it defines.  Values inside params, query and headers are scalars; *)
(* a header that is null is left out.                                      *)
(***************************************************************************)
EXTENDS Integers

CONSTANTS
    Variables,      \* what templates name, besides what the gateway provides
    HeaderNames,    \* header names as they are spelled
    Lower,          \* toLowerCase of each of them
    Static          \* PROTECTED_HEADERS

ASSUME ContractAssumption ==
    /\ Lower \in [HeaderNames -> HeaderNames]
    /\ \A name \in HeaderNames : Lower[Lower[name]] = Lower[name]
    /\ Static \subseteq {Lower[name] : name \in HeaderNames}

BODY_METHODS == {"POST", "PUT", "PATCH", "DELETE"}
HTTP_METHODS == BODY_METHODS \cup {"GET", "HEAD"}
UsesBody(method) == method \in BODY_METHODS

\* Partial functions from header names to the templates of their values.
Headers == UNION {[names -> SUBSET Variables] : names \in SUBSET HeaderNames}

\* A value of _request.  form: not there, not an object, an object, or the
\* envelope of a result; keys: the top-level keys besides the options.
Options == [form : {"absent", "malformed", "flat", "envelope"},
            keys : SUBSET {"payload", "other"},
            method : HTTP_METHODS \cup {"none"},
            params : SUBSET Variables,
            headers : Headers,
            body : BOOLEAN]

\* A Gateway Adapter with its Gateway API Config.  own: the headers it sets itself,
\* idempotencyHeader and, without keepAlive, connection.
AdapterConfigs(operations) ==
    [op : operations, method : HTTP_METHODS, template : SUBSET Variables,
     headers : Headers, credential : SUBSET HeaderNames, own : SUBSET HeaderNames]

-----------------------------------------------------------------------------
NoOptions == [form |-> "flat", keys |-> {}, method |-> "none",
              params |-> {}, headers |-> [h \in {} |-> {}], body |-> FALSE]
KeepsKeys(v) ==                                         \* slip: the whole object is copied
    IF v.form \in {"absent", "malformed"}
    THEN NoOptions
    ELSE [v EXCEPT !.form = "flat", !.method = "none"]
Normalize(v) ==
    IF v.form \in {"absent", "malformed"}
    THEN NoOptions
    ELSE [v EXCEPT !.form = "flat", !.keys = {}, !.method = "none"]

\* The _request of a result.
FlatResult(v, method) ==                                \* slip: no `input' around it
    [Normalize(v) EXCEPT !.keys = {"payload"}, !.method = method]
Envelope(v, method) ==
    [Normalize(v) EXCEPT !.form = "envelope", !.keys = {"payload"}, !.method = method]

\* An unknown operation has no schema: everything it could forbid is allowed.
NoSchema == [method |-> "none", template |-> {}, body |-> TRUE, protected |-> {}]
RequestSchema(adapter) ==
    [method |-> adapter.method, template |-> adapter.template,
     body |-> UsesBody(adapter.method), protected |-> adapter.credential]

Protected(schema) == Static \cup {Lower[name] : name \in schema.protected}

Resolves(template, payload, v) == template \subseteq payload \cup v.params

\* validateRequest.
AnyTemplate(payload, v, schema) ==                       \* slip: the URL is not resolved
    /\ v.form # "malformed"
    /\ v.keys \subseteq IF v.form = "envelope" THEN {"payload"} ELSE {}
    /\ v.method \in {"none", schema.method} \/ schema.method = "none"
    /\ \A name \in DOMAIN v.headers : Lower[name] \notin Protected(schema)
    /\ v.body => schema.body
Accepts(payload, v, schema) ==
    LET w == Normalize(v)
    IN  /\ v.form # "malformed"
        /\ v.keys \subseteq IF v.form = "envelope" THEN {"payload"} ELSE {}
        /\ v.method \in {"none", schema.method} \/ schema.method = "none"
        /\ \A name \in DOMAIN w.headers :
              /\ Lower[name] \notin Protected(schema)
              /\ Resolves(w.headers[name], payload, w)
        /\ w.body => schema.body
        /\ Resolves(schema.template, payload, w)

-----------------------------------------------------------------------------
(* The call that an adapter makes.                                         *)

EveryHeader(adapter, v) == DOMAIN v.headers             \* slip: nothing is filtered
PodHeaders(adapter, v) ==
    {name \in DOMAIN v.headers : Lower[name] \notin Protected(RequestSchema(adapter))}

\* One object takes the configured headers, then those of the POD and last the
\* adapter's own: the same spelling overwrites, another one is a second value of the
\* same header.
Spelt(names, h, who) == {who : name \in {n \in names : Lower[n] = h}}
OwnFirst(adapter, v, h) ==                              \* slip: set before the merge
    LET pod == PodHeaders(adapter, v)
    IN  Spelt(pod, h, "pod")
        \cup Spelt(DOMAIN adapter.headers \ pod, h, "config")
        \cup Spelt(adapter.own \ (pod \cup DOMAIN adapter.headers), h, "adapter")
Origins(adapter, v, h) ==
    LET pod == PodHeaders(adapter, v)
    IN  Spelt(adapter.own, h, "adapter")
        \cup Spelt(pod \ adapter.own, h, "pod")
        \cup Spelt(DOMAIN adapter.headers \ (pod \cup adapter.own), h, "config")

BodyOf(adapter, v) ==
    IF UsesBody(adapter.method) THEN IF v.body THEN "request" ELSE "payload" ELSE "none"

\* What must resolve at the time of the call.
Resolvable(adapter, payload, v) ==
    /\ Resolves(adapter.template, payload, v)
    /\ \A name \in DOMAIN adapter.headers : Resolves(adapter.headers[name], payload, v)
    /\ \A name \in PodHeaders(adapter, v) : Resolves(v.headers[name], payload, v)
=============================================================================
