---------------------------- MODULE MCDeployment ----------------------------
(* Deployment for TLC: two operations, header names in two spellings. *)
EXTENDS Deployment, TLC

CONSTANTS r1

OneRequest == {r1}
TwoOperations == {"a", "b"}
OneVariable == {"id"}
Names == {"x-key", "X-Key", "trace", "authorization"}
LowerCase == [name \in Names |-> IF name = "X-Key" THEN "x-key" ELSE name]
StaticNames == {"authorization"}
Plain == [h \in {} |-> {}]

\* The first adapter of `a' takes a body, knows no credential and sets `trace' itself;
\* the second has a template in its URL and a credential of its own.
First == [op |-> "a", method |-> "POST", template |-> {}, headers |-> Plain,
          credential |-> {}, own |-> {"trace"}]
Second == [op |-> "a", method |-> "GET", template |-> {"id"},
           headers |-> ("X-Key" :> {} @@ "authorization" :> {}), credential |-> {"X-Key"},
           own |-> {}]
Other == [op |-> "b", method |-> "POST", template |-> {"id"}, headers |-> Plain,
          credential |-> {}, own |-> {}]
ThreeAdapters == {First, Second, Other}
OneAdapter == {First}

Flat == NoOptions
Ask(op, payload, value) == [op |-> op, payload |-> payload, value |-> value]
SomeQuestions ==
    {Ask("a", {}, [Flat EXCEPT !.body = TRUE]),
     Ask("a", {"id"}, [Flat EXCEPT !.headers = ("x-key" :> {} @@ "trace" :> {"id"}),
                                   !.method = "POST"]),
     Ask("a", {}, [Flat EXCEPT !.form = "envelope", !.keys = {"payload"}, !.method = "GET",
                               !.params = {"id"}]),
     Ask("b", {}, [Flat EXCEPT !.form = "absent"])}
OneQuestion == {Ask("a", {}, Flat)}
=============================================================================
