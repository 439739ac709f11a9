---------------------------- MODULE MCMemoryPump ----------------------------
(* MemoryPump with MemoryResults for TLC. *)
EXTENDS MemoryResults

CONSTANTS r1, r2, r3, r4

FourRequests == {r1, r2, r3, r4}
OneBulk == {r2}
OneKey == {1}
SharedKey == [r \in FourRequests |-> IF r \in {r1, r2} THEN 1 ELSE 0]
=============================================================================
