-------------------------- MODULE SidecarIPCProofs --------------------------
(* Theorems about SidecarIPC for any number of requests, whatever they ask *)
(* for, and however often the sidecar crashes and is started again.        *)
EXTENDS SidecarIPC, TLAPS

(* The method that the handlers call for each state of a form. *)
LEMMA Methods ==
  /\ DOMAIN MethodOf = {"soft-rebooted", "rebooted", "powered-off", "reloaded", "drop-in-updated"}
  /\ MethodOf["soft-rebooted"] = "SoftReboot"
  /\ MethodOf["rebooted"] = "Reboot"
  /\ MethodOf["powered-off"] = "Poweroff"
  /\ MethodOf["reloaded"] = "ReloadConnProfiles"
  /\ MethodOf["drop-in-updated"] = "UpdatePSKDropInFile"
BY DEF MethodOf, BootMethods, ReloadMethods, DropInMethods

(* The operation that the sidecar starts for each method. *)
LEMMA Operations ==
  /\ DOMAIN Dispatch =
       {"SoftReboot", "Reboot", "Poweroff", "ReloadConnProfiles", "UpdatePSKDropInFile"}
  /\ Dispatch["SoftReboot"] = <<"systemd", "SoftReboot">>
  /\ Dispatch["Reboot"] = <<"systemd", "Reboot">>
  /\ Dispatch["Poweroff"] = <<"systemd", "PowerOff">>
  /\ Dispatch["ReloadConnProfiles"] = <<"NetworkManager", "ReloadConnections">>
  /\ Dispatch["UpdatePSKDropInFile"] = <<"none", "write">>
BY DEF Dispatch, DispatchBoot, DispatchNetworkManager, DispatchOpenUC2

(* The dispatch tables, from the state in a form to the operation, agree   *)
(* with what the state means.                                              *)
LEMMA DispatchIsMeant ==
  ASSUME NEW k \in DOMAIN MethodOf
  PROVE  /\ k \in DOMAIN Meant
         /\ Dispatch[MethodOf[k]][2] = Meant[k]
         /\ MethodOf[k] \in DOMAIN Dispatch
<1>1. /\ DOMAIN Meant = {"soft-rebooted", "rebooted", "powered-off", "reloaded", "drop-in-updated"}
      /\ Meant["soft-rebooted"] = "SoftReboot"
      /\ Meant["rebooted"] = "Reboot"
      /\ Meant["powered-off"] = "PowerOff"
      /\ Meant["reloaded"] = "ReloadConnections"
      /\ Meant["drop-in-updated"] = "write"
  BY DEF Meant
<1>2. CASE k = "soft-rebooted"
  BY <1>1, <1>2, Methods, Operations
<1>3. CASE k = "rebooted"
  BY <1>1, <1>3, Methods, Operations
<1>4. CASE k = "powered-off"
  BY <1>1, <1>4, Methods, Operations
<1>5. CASE k = "reloaded"
  BY <1>1, <1>5, Methods, Operations
<1>6. CASE k = "drop-in-updated"
  BY <1>1, <1>6, Methods, Operations
<1> QED
  BY <1>2, <1>3, <1>4, <1>5, <1>6, Methods

(* How far the handler, the call, its operation and the history of what    *)
(* was asked can be apart: nothing is asked before the call has reached    *)
(* the sidecar, one thing at most after it, nothing when the handler has   *)
(* given up, and a reply says "ok" only of an operation that is done.      *)
Orderly(r) ==
  /\ at[r] \in {"idle", "handling"} => call[r] = "none"
  /\ at[r] = "connected" => call[r] \in {"connected", "broken"}
  /\ call[r] \in {"none", "connected", "pending"} => (asked[r] = <<>> /\ op[r] = "none")
  /\ call[r] = "pending" => at[r] \in {"called", "abandoned"}
  /\ call[r] # "none" => kind[r] \in DOMAIN MethodOf
  /\ asked[r] # <<>> => asked[r] = <<OperationOf(r)>>
  /\ call[r] = "ok" => op[r] = "done"
  /\ at[r] = "answered" => call[r] = "ok"

IInv == TypeOK /\ \A r \in Requests : Orderly(r)

(* The invariant holds at the start, *)
LEMMA InitIInv == Init => IInv
<1> SUFFICES ASSUME Init PROVE IInv
  OBVIOUS
<1>1. TypeOK
  BY MaxStartsAssumption DEF Init, TypeOK, Working, SidecarBuses
<1>2. \A r \in Requests : Orderly(r)
  BY DEF Init, Orderly
<1> QED
  BY <1>1, <1>2 DEF IInv

(* What happens in the sidecar keeps the order. *)
LEMMA SidecarKeepsIInv == IInv /\ Sidecar => IInv'
<1> SUFFICES ASSUME IInv, Sidecar PROVE IInv'
  OBVIOUS
<1> USE DEF IInv, TypeOK, Orderly, sidecarVars, requestVars, OperationOf, BusOf
<1>0. kind \in [Requests -> Kinds]
  BY WishesAssumption
<1>1. CASE StartSidecar
  BY <1>1, MaxStartsAssumption DEF StartSidecar, SidecarBuses
<1>2. CASE StopSidecar
  BY <1>2 DEF StopSidecar, EndSidecar
<1>3. ASSUME NEW b \in SidecarBuses, Open(b) PROVE IInv'
  BY <1>3 DEF Open
<1>4. ASSUME NEW r \in Requests, Serve(r) PROVE IInv'
  <2>1. kind[r] \in DOMAIN MethodOf /\ asked[r] = <<>>
    BY <1>4 DEF Serve
  <2>2. OperationOf(r) \in {Dispatch[method][2] : method \in DOMAIN Dispatch}
    BY <2>1, DispatchIsMeant
  <2>3. Append(asked[r], OperationOf(r)) = <<OperationOf(r)>>
    BY <2>1, <2>2
  <2>4. Append(asked[r], OperationOf(r)) \in Seq({Dispatch[method][2] : method \in DOMAIN Dispatch})
    BY <2>1, <2>2
  <2>5. asked' \in [Requests -> Seq({Dispatch[method][2] : method \in DOMAIN Dispatch})]
    BY <1>4, <2>4 DEF Serve
  <2>6. TypeOK'
    BY <1>4, <2>5 DEF Serve
  <2>7. ASSUME NEW q \in Requests PROVE Orderly(q)'
    BY <1>4, <2>1, <2>3 DEF Serve
  <2> QED
    BY <2>6, <2>7
<1>5. ASSUME NEW r \in Requests, ServePanics(r) PROVE IInv'
  BY <1>5 DEF ServePanics, EndSidecar
<1>6. ASSUME NEW r \in Requests, Finish(r) PROVE IInv'
  BY <1>6 DEF Finish
<1>7. ASSUME NEW r \in Requests, Reply(r) PROVE IInv'
  BY <1>7 DEF Reply
<1> QED
  BY <1>1, <1>2, <1>3, <1>4, <1>5, <1>6, <1>7 DEF Sidecar

(* So does what the handlers of the web server do. *)
LEMMA HandlersKeepIInv ==
  ASSUME IInv,
         NEW r \in Requests,
         Arrive(r) \/ Leave(r) \/ Handler(r)
  PROVE  IInv'
<1> USE DEF IInv, TypeOK, Orderly, sidecarVars, OperationOf, OnlyHandler, Goto, Working
<1>1. CASE Arrive(r)
  BY <1>1 DEF Arrive
<1>2. CASE Leave(r)
  BY <1>2 DEF Leave
<1>3. CASE RejectState(r)
  BY <1>3 DEF RejectState
<1>4. CASE Connect(r)
  BY <1>4 DEF Connect
<1>5. CASE ConnectFails(r)
  BY <1>5 DEF ConnectFails
<1>6. CASE Send(r)
  BY <1>6 DEF Send
<1>7. CASE SendFails(r)
  BY <1>7 DEF SendFails
<1>8. CASE Receive(r)
  BY <1>8 DEF Receive
<1> QED
  BY <1>1, <1>2, <1>3, <1>4, <1>5, <1>6, <1>7, <1>8 DEF Handler

(* every step keeps it, *)
LEMMA NextIInv == IInv /\ [Next]_vars => IInv'
<1>1. ASSUME IInv, WebServerEnds PROVE IInv'
  BY <1>1 DEF IInv, TypeOK, Orderly, sidecarVars, OperationOf, OnlyHandler, Working, WebServerEnds
<1>2. ASSUME IInv, UNCHANGED vars PROVE IInv'
  BY <1>2 DEF IInv, TypeOK, Orderly, vars, sidecarVars, requestVars, OperationOf
<1> QED
  BY <1>1, <1>2, SidecarKeepsIInv, HandlersKeepIInv DEF Next

(* and so it holds in every state. *)
LEMMA Invariant == Spec => []IInv
BY InitIInv, NextIInv, PTL DEF Spec

(* The variables stay in the states that the code knows, and no bus of the *)
(* sidecar is closed while it runs.                                        *)
THEOREM TypeCorrect == Spec => []TypeOK
<1>1. IInv => TypeOK
  BY DEF IInv
<1> QED
  BY <1>1, Invariant, PTL

(* No number of requests, crashes and restarts makes systemd or            *)
(* NetworkManager do one request's operation twice, or another one.        *)
THEOREM NothingIsAskedTwice == Spec => []AskedOnce
<1>1. IInv => AskedOnce
  BY DispatchIsMeant DEF IInv, Orderly, AskedOnce, OperationOf
<1> QED
  BY <1>1, Invariant, PTL

(* Whoever is told that the operation was done has had it done. *)
THEOREM SuccessIsEarned == Spec => []SuccessMeansDone
<1>1. IInv => SuccessMeansDone
  BY DEF IInv, Orderly, SuccessMeansDone
<1> QED
  BY <1>1, Invariant, PTL

-----------------------------------------------------------------------------
(* What a step of one handler does to the outcomes. *)
LEMMA OutcomeMoves ==
  ASSUME IInv, NEW r \in Requests, NEW from, NEW to, Goto(r, from, to)
  PROVE  LET outcome == [q \in Requests |-> Outcome(q)]
             new == IF to = "idle" THEN "none" ELSE IF to \in Working THEN "pending" ELSE to
         IN  outcome' = [outcome EXCEPT ![r] = new]
BY DEF IInv, TypeOK, Goto, Outcome

(* The steps in the sidecar begin or end one operation, or are not seen.   *)
LEMMA SidecarIsPromised ==
  ASSUME IInv, Sidecar
  PROVE  [Promise!Next]_(Promise!vars)
<1> DEFINE outcome == [q \in Requests |-> Outcome(q)]
<1>1. at' = at /\ kind' = kind
  BY DEF Sidecar, StartSidecar, StopSidecar, Open, Serve, ServePanics, EndSidecar, Finish, Reply,
         requestVars
<1>2. outcome' = outcome
  BY <1>1 DEF Outcome
<1>3. CASE op' = op
  BY <1>1, <1>2, <1>3 DEF Promise!vars
<1>4. ASSUME NEW r \in Requests, Serve(r) PROVE Promise!Begin(r)
  <2>1. op[r] = "none" /\ kind[r] \in DOMAIN MethodOf /\ at[r] \in {"called", "abandoned"}
    BY <1>4 DEF Serve, IInv, Orderly
  <2>2. outcome[r] \in {"pending", "abandoned"}
    BY <2>1 DEF Outcome, Working
  <2> QED BY <1>1, <1>2, <1>4, <2>1, <2>2 DEF Serve, Promise!Begin
<1>5. ASSUME NEW r \in Requests, Finish(r) PROVE Promise!End(r)
  BY <1>1, <1>2, <1>5 DEF Finish, Promise!End
<1>6. op' = op \/ \E r \in Requests : Serve(r) \/ Finish(r)
  BY DEF Sidecar, StartSidecar, StopSidecar, Open, ServePanics, EndSidecar, Reply, requestVars
<1> QED BY <1>3, <1>4, <1>5, <1>6 DEF Promise!Next

(* The steps of a handler make an outcome known, or are not seen. *)
LEMMA HandlersArePromised ==
  ASSUME IInv, NEW r \in Requests, Arrive(r) \/ Handler(r)
  PROVE  [Promise!Next]_(Promise!vars)
<1> DEFINE outcome == [q \in Requests |-> Outcome(q)]
<1> USE DEF OnlyHandler, Outcome, Working
<1>1. kind' = kind /\ op' = op
  BY DEF Arrive, Handler, RejectState, Connect, ConnectFails, Send, SendFails, Receive
<1>2. ASSUME NEW from, NEW to \in Working, at[r] = from, from \in Working, Goto(r, from, to)
      PROVE  outcome' = outcome
  BY <1>2, OutcomeMoves DEF IInv, TypeOK, Goto
<1>3. CASE Arrive(r)
  <2>1. Goto(r, "idle", "handling") /\ outcome[r] = "none"
    BY <1>3 DEF Arrive, Goto
  <2>2. outcome' = [outcome EXCEPT ![r] = "pending"]
    BY <2>1, OutcomeMoves
  <2>3. Promise!Submit(r)
    BY <1>1, <2>1, <2>2 DEF Promise!Submit
  <2> QED BY <2>3 DEF Promise!Next
<1>4. CASE Connect(r)
  <2>1. outcome' = outcome
    BY <1>2, <1>4 DEF Connect, Goto
  <2> QED BY <1>1, <2>1 DEF Promise!vars
<1>5. CASE Send(r)
  <2>1. outcome' = outcome
    BY <1>2, <1>5 DEF Send, Goto
  <2> QED BY <1>1, <2>1 DEF Promise!vars
<1>6. CASE RejectState(r)
  <2>1. kind[r] \notin DOMAIN MethodOf /\ Goto(r, "handling", "invalid")
    BY <1>6, Methods DEF RejectState
  <2>2. outcome[r] = "pending" /\ outcome' = [outcome EXCEPT ![r] = "invalid"]
    BY <2>1, OutcomeMoves DEF Goto
  <2>3. Promise!Refuse(r)
    BY <1>1, <2>1, <2>2 DEF Promise!Refuse
  <2> QED BY <2>3 DEF Promise!Next
<1>7. CASE ConnectFails(r) \/ SendFails(r) \/ (Receive(r) /\ call[r] # "ok")
  <2>1. PICK from \in Working : Goto(r, from, "failed")
    BY <1>7 DEF ConnectFails, SendFails, Receive
  <2>2. kind[r] \in DOMAIN MethodOf
    BY <1>7 DEF ConnectFails, SendFails, Receive, IInv, Orderly
  <2>3. outcome[r] = "pending" /\ outcome' = [outcome EXCEPT ![r] = "failed"]
    BY <2>1, OutcomeMoves DEF Goto
  <2>4. Promise!Fail(r)
    BY <1>1, <2>2, <2>3 DEF Promise!Fail
  <2> QED BY <2>4 DEF Promise!Next
<1>8. CASE Receive(r) /\ call[r] = "ok"
  <2>1. Goto(r, "called", "answered") /\ op[r] = "done"
    BY <1>8 DEF Receive, IInv, Orderly
  <2>2. outcome[r] = "pending" /\ outcome' = [outcome EXCEPT ![r] = "answered"]
    BY <2>1, OutcomeMoves DEF Goto
  <2>3. Promise!Redirect(r)
    BY <1>1, <2>1, <2>2 DEF Promise!Redirect
  <2> QED BY <2>3 DEF Promise!Next
<1> QED BY <1>3, <1>4, <1>5, <1>6, <1>7, <1>8 DEF Handler

(* Browsers that go and the end of the web server abandon requests.        *)
LEMMA LeavingIsPromised ==
  ASSUME IInv, WebServerEnds \/ \E r \in Requests : Leave(r)
  PROVE  Promise!Abandon
<1> DEFINE outcome == [q \in Requests |-> Outcome(q)]
<1>1. kind' = kind /\ op' = op
  BY DEF Leave, WebServerEnds, OnlyHandler
<1>2. PICK gone \in SUBSET {q \in Requests : at[q] \in Working} :
        at' = [q \in Requests |-> IF q \in gone THEN "abandoned" ELSE at[q]]
  <2>1. CASE WebServerEnds
    <3>1. at' = [q \in Requests |-> IF q \in {o \in Requests : at[o] \in Working}
                                    THEN "abandoned" ELSE at[q]]
      BY <2>1 DEF WebServerEnds
    <3> QED BY <3>1
  <2>2. ASSUME NEW r \in Requests, Leave(r)
        PROVE  \E gone \in SUBSET {q \in Requests : at[q] \in Working} :
                 at' = [q \in Requests |-> IF q \in gone THEN "abandoned" ELSE at[q]]
    <3>1. at[r] \in Working /\ at' = [q \in Requests |-> IF q \in {r} THEN "abandoned" ELSE at[q]]
      BY <2>2 DEF Leave, Goto, IInv, TypeOK
    <3> QED BY <3>1
  <2> QED BY <2>1, <2>2
<1>3. gone \in SUBSET {q \in Requests : outcome[q] = "pending"}
  BY DEF Outcome, Working
<1>4. outcome' = [q \in Requests |-> IF q \in gone THEN "abandoned" ELSE outcome[q]]
  BY <1>2 DEF Outcome, Working
<1> QED BY <1>1, <1>3, <1>4 DEF Promise!Abandon

(* The requests are carried out at most once, none that has failed before  *)
(* is carried out behind the back of whoever was told so, and what a       *)
(* redirection follows is done: SidecarIPC implements AtMostOnce, for any  *)
(* requests and any number of crashes and restarts of the sidecar.         *)
THEOREM RequestsAreCarriedOutOnce == Spec => AtMostOnceSpec
<1>1. Init => Promise!Init
  BY DEF Init, Promise!Init, Outcome
<1>2. IInv /\ [Next]_vars => [Promise!Next]_(Promise!vars)
  <2> SUFFICES ASSUME IInv, [Next]_vars PROVE [Promise!Next]_(Promise!vars)
    OBVIOUS
  <2>1. CASE UNCHANGED vars
    BY <2>1 DEF vars, requestVars, Promise!vars, Outcome
  <2>2. CASE WebServerEnds \/ \E r \in Requests : Leave(r)
    BY <2>2, LeavingIsPromised DEF Promise!Next
  <2> QED BY <2>1, <2>2, SidecarIsPromised, HandlersArePromised DEF Next
<1> QED BY <1>1, <1>2, Invariant, PTL DEF Spec, AtMostOnceSpec, Promise!Spec
=============================================================================
