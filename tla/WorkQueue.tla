----------------------------- MODULE WorkQueue -----------------------------
(***************************************************************************)
(* What the durable queue promises, with no Redis in it: a request that is *)
(* owed an answer stays owed until an answer exists, and only then may the *)
(* queue forget it.  README.md:463 puts it as "acknowledged only after the *)
(* adapter finishes and the result has been delivered or persisted".       *)
(* Answers may repeat: delivery is at least once.                          *)
(***************************************************************************)
EXTENDS Naturals

CONSTANT Requests

VARIABLES owed,       \* requests the queue holds
          settled,    \* requests it held and has let go
          answers     \* how many answers each request has had

vars == <<owed, settled, answers>>

Init == /\ owed = {}
        /\ settled = {}
        /\ answers = [r \in Requests |-> 0]

\* The queue takes a request once.
Admit(r) == /\ r \notin owed \cup settled
            /\ owed' = owed \cup {r}
            /\ UNCHANGED <<settled, answers>>

Answer(r) == /\ r \in owed
             /\ answers' = [answers EXCEPT ![r] = @ + 1]
             /\ UNCHANGED <<owed, settled>>

\* It lets go of a request only when it has been answered.
Settle(r) == /\ r \in owed
             /\ answers[r] > 0
             /\ owed' = owed \ {r}
             /\ settled' = settled \cup {r}
             /\ UNCHANGED answers

Next == \E r \in Requests : Admit(r) \/ Answer(r) \/ Settle(r)

Spec == Init /\ [][Next]_vars
=============================================================================
