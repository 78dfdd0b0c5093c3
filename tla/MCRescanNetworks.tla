-------------------------- MODULE MCRescanNetworks --------------------------
(* RescanNetworks with model values for TLC. *)
EXTENDS RescanNetworks, TLC

CONSTANTS c1, c2

TwoCalls == {c1, c2}
=============================================================================
