--------------------------- MODULE MCNetworkPage ---------------------------
EXTENDS NetworkPage

CONSTANTS wlan1, eth0, internet, wired, odd, ap1, ap2

(* Each device has a kind of its own; the odd profile is of the wired kind.*)
OneKindEach == [d \in Devs |-> IF d = wlan1 THEN {internet} ELSE {wired, odd}]
=============================================================================
