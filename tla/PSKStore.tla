------------------------------ MODULE PSKStore ------------------------------
(***************************************************************************)
(* What a caller of UpdatePSKDropInFile is entitled to believe: the        *)
(* drop-in file is a register whose password is replaced in one step, of   *)
(* which every reader sees the old version or the new one.  A successful   *)
(* answer follows the replacement, an error means that there was none, and *)
(* a broken connection leaves both possible.                               *)
(***************************************************************************)
CONSTANTS Calls, Passwords, OtherLines

VARIABLES file,    \* the drop-in file, or the set of no file at all
          newPw,   \* the argument of each call
          status   \* what has become of each call

vars == <<file, newPw, status>>

Init ==
  /\ file = {} \/ \E old \in SUBSET Passwords : file = {[psk |-> old, rest |-> OtherLines]}
  /\ newPw \in [Calls -> Passwords]
  /\ status = [c \in Calls |-> "pending"]

Update(c) ==
  /\ status[c] = "pending"
  /\ file # {}
  /\ file' = {[psk |-> {newPw[c]}, rest |-> OtherLines]}
  /\ status' = [status EXCEPT ![c] = "applied"]
  /\ UNCHANGED newPw

Acknowledge(c) ==
  /\ status[c] = "applied"
  /\ status' = [status EXCEPT ![c] = "ok"]
  /\ UNCHANGED <<file, newPw>>

Reject(c) ==
  /\ status[c] = "pending"
  /\ status' = [status EXCEPT ![c] = "error"]
  /\ UNCHANGED <<file, newPw>>

Disconnect ==
  /\ \E cut \in SUBSET {c \in Calls : status[c] \in {"pending", "applied"}} :
       status' = [c \in Calls |-> IF c \in cut THEN "lost" ELSE status[c]]
  /\ UNCHANGED <<file, newPw>>

Next ==
  \/ \E c \in Calls : Update(c) \/ Acknowledge(c) \/ Reject(c)
  \/ Disconnect

Spec == Init /\ [][Next]_vars
=============================================================================
