--------------------------- MODULE MCIdempotency ---------------------------
(* Three requests with one key, two of them on the same gateway. *)
EXTENDS Idempotency, TLC

CONSTANTS r1, r2, r3, g1, g2

MCRequests == {r1, r2, r3}
MCGateways == {g1, g2}
MCHomeOf == r1 :> g1 @@ r2 :> g1 @@ r3 :> g2
MCLimit == [crash |-> 1, fault |-> 1, full |-> 1, deferral |-> 1, expiry |-> 1]
=============================================================================
