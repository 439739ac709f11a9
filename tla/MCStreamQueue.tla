--------------------------- MODULE MCStreamQueue ---------------------------
(* StreamQueue for TLC: small sets of requests, gateways and disturbances. *)
EXTENDS StreamQueueProperties, TLC

CONSTANTS r1, r2, r3, g1, g2

OneRequest == {r1}
TwoRequests == {r1, r2}
ThreeRequests == {r1, r2, r3}
OneGateway == {g1}
TwoGateways == {g1, g2}
OnlyR1 == {r1}
OnlyR2 == {r2}
NoRequests == {}

\* Requests arrive on the first gateway, r2 on the second where there is one.
AllHomeG1 == [r \in Requests |-> g1]
R2HomeG2 == [r \in Requests |-> IF r = r2 THEN g2 ELSE g1]

Disturb(crash, fault, denial, stop, wipe) ==
    [k \in Kinds |-> CASE k = "crash" -> crash [] k = "fault" -> fault
                       [] k = "denial" -> denial [] k = "stop" -> stop
                       [] k = "wipe" -> wipe]
Calm == Disturb(0, 0, 1, 0, 0)
OneCrashOneFault == Disturb(1, 1, 1, 0, 0)
CrashAndFault == Disturb(1, 1, 0, 0, 0)
StopAndWipe == Disturb(0, 0, 1, 1, 1)
=============================================================================
