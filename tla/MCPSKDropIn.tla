---------------------------- MODULE MCPSKDropIn ----------------------------
(* PSKDropIn with model values for TLC; a file has one line besides psk.   *)
EXTENDS PSKDropIn, TLC

CONSTANTS c1, c2, c3, p1, p2, header

Calls2 == {c1, c2}
Calls3 == {c1, c2, c3}
Passwords2 == {p1, p2}
Header == {header}

(* Calls are interchangeable, and so are passwords: Init and Next treat    *)
(* all of them alike.                                                      *)
Symmetry == Permutations(Calls3) \cup Permutations(Passwords2)
=============================================================================
