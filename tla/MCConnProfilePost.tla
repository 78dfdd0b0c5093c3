------------------------- MODULE MCConnProfilePost -------------------------
(* ConnProfilePost with model values for TLC. *)
EXTENDS ConnProfilePost

CONSTANTS r1, r2, p1, p2

OneRequest == {r1}
TwoRequests == {r1, r2}
OnePassword == {p1}
TwoPasswords == {p1, p2}
=============================================================================
