------------------------------ MODULE MCGcra ------------------------------
(* Gcra with a fast bucket for one operation and a slow one for the rest; *)
(* the interval of neither is a whole number of milliseconds.             *)
EXTENDS Gcra

Fast == "user/getInfo"
Slow == "default"

MCCalls == [service: {"user"}, operation: {Fast, "user/update"}, own: {FALSE}]
MCLimits == {Fast, Slow}
MCBuckets == {Fast, Slow}
MCEmission == [b \in MCBuckets |-> IF b = Fast THEN 1 ELSE 5]
MCBurst == [b \in MCBuckets |-> IF b = Fast THEN 2 ELSE 1]
=============================================================================
