-------------------------- MODULE MCGatewayClient --------------------------
(* GatewayClient for TLC: calls of request() and of send(). *)
EXTENDS GatewayClientProperties

CONSTANTS call, again, event

OneCall == {call}
TwoCalls == {call, again}
OneEvent == {event}
NoCalls == {}

\* The call and the message share one key: whichever comes first has it.
Both == {call, event}
EachOther == [c \in Repeats |-> IF c = call THEN event ELSE call]
=============================================================================
