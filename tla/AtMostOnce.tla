----------------------------- MODULE AtMostOnce -----------------------------
(***************************************************************************)
(* What whoever submits a form that asks for an operation of the system is *)
(* entitled to believe: the operation is carried out once or not at all.   *)
(* A redirection follows it.  A failure leaves open whether it was carried *)
(* out, but one that had not begun by then never will; that of a request   *)
(* which was abandoned may still begin.                                    *)
(***************************************************************************)
CONSTANTS
  Requests,
  Wishes,     \* what the requests ask for, together
  Operations  \* what can be asked for

VARIABLES
  kind,     \* what each request asks for
  outcome,  \* what has been made known of it
  op        \* its operation

vars == <<kind, outcome, op>>

Init ==
  /\ kind \in Wishes
  /\ outcome = [r \in Requests |-> "none"]
  /\ op = [r \in Requests |-> "none"]

Submit(r) ==
  /\ outcome[r] = "none"
  /\ outcome' = [outcome EXCEPT ![r] = "pending"]
  /\ UNCHANGED <<kind, op>>

Begin(r) ==
  /\ outcome[r] \in {"pending", "abandoned"}
  /\ kind[r] \in Operations /\ op[r] = "none"
  /\ op' = [op EXCEPT ![r] = "started"]
  /\ UNCHANGED <<kind, outcome>>

End(r) ==
  /\ op[r] = "started"
  /\ \E how \in {"done", "refused"} : op' = [op EXCEPT ![r] = how]
  /\ UNCHANGED <<kind, outcome>>

Redirect(r) ==
  /\ outcome[r] = "pending" /\ op[r] = "done"
  /\ outcome' = [outcome EXCEPT ![r] = "answered"]
  /\ UNCHANGED <<kind, op>>

Fail(r) ==
  /\ outcome[r] = "pending" /\ kind[r] \in Operations
  /\ outcome' = [outcome EXCEPT ![r] = "failed"]
  /\ UNCHANGED <<kind, op>>

Refuse(r) ==
  /\ outcome[r] = "pending" /\ kind[r] \notin Operations
  /\ outcome' = [outcome EXCEPT ![r] = "invalid"]
  /\ UNCHANGED <<kind, op>>

Abandon ==
  /\ \E gone \in SUBSET {r \in Requests : outcome[r] = "pending"} :
       outcome' = [r \in Requests |-> IF r \in gone THEN "abandoned" ELSE outcome[r]]
  /\ UNCHANGED <<kind, op>>

Next ==
  \/ \E r \in Requests :
       Submit(r) \/ Begin(r) \/ End(r) \/ Redirect(r) \/ Fail(r) \/ Refuse(r)
  \/ Abandon

Spec == Init /\ [][Next]_vars
=============================================================================
