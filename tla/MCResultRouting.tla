-------------------------- MODULE MCResultRouting --------------------------
(* Three requests, and two slots for the sockets of their POD. *)
EXTENDS ResultRouting, TLC

CONSTANTS r1, r2, r3, c1, c2

MCRequests == {r1, r2, r3}
MCConnections == {c1, c2}
MCLimit == [break |-> 3, fault |-> 1, crash |-> 1]
Symmetric == Permutations(MCRequests) \cup Permutations(MCConnections)
=============================================================================
