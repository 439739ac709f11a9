---------------------------- MODULE TokenBucket ----------------------------
(***************************************************************************)
(* What a rate limiter promises: a bucket that gains one unit per unit of  *)
(* time up to its capacity, and a call that is granted if and only if the  *)
(* bucket holds its price.                                                 *)
(***************************************************************************)
EXTENDS Integers

CONSTANTS Buckets,
          Price,        \* of one call
          Capacity

VARIABLES level,        \* what each bucket holds
          decision      \* what the last call was told

vars == <<level, decision>>

Init == /\ level = Capacity
        /\ decision = [b \in Buckets |-> "none"]

Decide(b, d) == decision' = [decision EXCEPT ![b] = d]

Grant(b) == /\ level[b] >= Price[b]
            /\ level' = [level EXCEPT ![b] = @ - Price[b]]
            /\ Decide(b, "granted")

Refuse(b) == /\ level[b] < Price[b]
             /\ Decide(b, "refused")
             /\ UNCHANGED level

\* One unit of time passes for every bucket.
Fill == /\ level' = [b \in Buckets |-> IF level[b] < Capacity[b]
                                       THEN level[b] + 1 ELSE level[b]]
        /\ UNCHANGED decision

Next == Fill \/ \E b \in Buckets : Grant(b) \/ Refuse(b)

Spec == Init /\ [][Next]_vars
=============================================================================
