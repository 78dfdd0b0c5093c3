----------------------------- MODULE SidecarIPC -----------------------------
(***************************************************************************)
(* Requests that pass from a browser through the web server's handlers of  *)
(* boot states and reloads (src/internal/app/server/routes), over varlink  *)
(* (src/internal/app/ipc, src/internal/clients/sidecar) to the privileged  *)
(* sidecar (src/sidecar.go, src/internal/app/sidecar), and from there to   *)
(* systemd and NetworkManager (src/internal/clients/systemd).              *)
(*                                                                         *)
(* The sidecar opens its D-Bus connections in the background while it      *)
(* already listens.  A client whose connection is not open yet, or could   *)
(* not be opened, has a nil bus, and using it panics, which ends the       *)
(* sidecar with every call that it is serving.                             *)
(***************************************************************************)
EXTENDS Integers, Sequences

CONSTANTS
  Requests,  \* HTTP requests, each made once
  Wishes,    \* what they ask for, together
  MaxStarts  \* how often the sidecar is started (bound)

(* The states a form may ask for, and the method of the sidecar each needs.*)
BootMethods ==
  [state \in {"soft-rebooted", "rebooted", "powered-off"} |->
     CASE state = "soft-rebooted" -> "SoftReboot"
       [] state = "rebooted" -> "Reboot"
       [] state = "powered-off" -> "Poweroff"]
ReloadMethods == [state \in {"reloaded"} |-> "ReloadConnProfiles"]
DropInMethods == [state \in {"drop-in-updated"} |-> "UpdatePSKDropInFile"]
MethodOf ==
  [state \in DOMAIN BootMethods \cup DOMAIN ReloadMethods \cup DOMAIN DropInMethods |->
     IF state \in DOMAIN BootMethods THEN BootMethods[state]
     ELSE IF state \in DOMAIN ReloadMethods THEN ReloadMethods[state] ELSE DropInMethods[state]]
Kinds == DOMAIN MethodOf \cup {"unknown-state"}

ASSUME WishesAssumption == Wishes \subseteq [Requests -> Kinds]
ASSUME MaxStartsAssumption == MaxStarts \in Nat

(* What the sidecar does when a method of one of its interfaces is called, *)
(* and on which bus; the drop-in files are its own.                        *)
DispatchBoot ==
  [SoftReboot |-> <<"systemd", "SoftReboot">>, Reboot |-> <<"systemd", "Reboot">>,
   Poweroff |-> <<"systemd", "PowerOff">>]
DispatchNetworkManager == [ReloadConnProfiles |-> <<"NetworkManager", "ReloadConnections">>]
DispatchOpenUC2 == [UpdatePSKDropInFile |-> <<"none", "write">>]
Dispatch ==
  [method \in DOMAIN DispatchBoot \cup DOMAIN DispatchNetworkManager \cup DOMAIN DispatchOpenUC2 |->
     IF method \in DOMAIN DispatchBoot THEN DispatchBoot[method]
     ELSE IF method \in DOMAIN DispatchNetworkManager THEN DispatchNetworkManager[method]
     ELSE DispatchOpenUC2[method]]

SidecarBuses == {"systemd", "NetworkManager"}

VARIABLES
  sidecar,  \* the sidecar's process
  bus,      \* its D-Bus connections
  starts,   \* how often it has been started
  at,       \* where the web server's handler of each request is
  kind,     \* what the request asks for
  call,     \* the varlink call it has made
  op,       \* the operation the sidecar has started for it
  asked     \* the operations started for it so far (history)

sidecarVars == <<sidecar, bus, starts>>
requestVars == <<at, kind, call, op, asked>>
vars == <<sidecarVars, requestVars>>

Working == {"handling", "connected", "called"}

Init ==
  /\ sidecar = "stopped" /\ bus = [b \in SidecarBuses |-> "opening"] /\ starts = 0
  /\ at = [r \in Requests |-> "idle"]
  /\ kind \in Wishes
  /\ call = [r \in Requests |-> "none"]
  /\ op = [r \in Requests |-> "none"]
  /\ asked = [r \in Requests |-> <<>>]

-----------------------------------------------------------------------------
(* The sidecar.  It listens at once and opens its buses meanwhile.         *)
StartSidecar ==
  /\ sidecar # "up" /\ starts < MaxStarts
  /\ sidecar' = "up" /\ starts' = starts + 1
  /\ bus' = [b \in SidecarBuses |-> "opening"]
  /\ UNCHANGED requestVars

(* Mutant: the buses are opened with the context of the group of openers,  *)
(* which ends when both have been opened.                                  *)
OpenForTheGroup(b) ==
  /\ sidecar = "up" /\ bus[b] = "opening"
  /\ bus' = IF \A c \in SidecarBuses \ {b} : bus[c] # "opening"
            THEN [c \in SidecarBuses |-> "closed"] ELSE [bus EXCEPT ![b] = "open"]
  /\ UNCHANGED <<sidecar, starts, requestVars>>
(* A bus is opened for as long as the sidecar runs.  A failure is logged.  *)
Open(b) ==
  /\ sidecar = "up" /\ bus[b] = "opening"
  /\ \E outcome \in {"open", "failed"} : bus' = [bus EXCEPT ![b] = outcome]
  /\ UNCHANGED <<sidecar, starts, requestVars>>

(* Whatever ends the sidecar ends its connections, since main waits for no *)
(* call.  What it has asked of other services stays asked.                 *)
EndSidecar(how) ==
  /\ sidecar = "up" /\ sidecar' = how
  /\ call' = [r \in Requests |->
                IF call[r] \in {"connected", "pending", "waiting"} THEN "broken" ELSE call[r]]
  /\ UNCHANGED <<bus, starts, at, kind, op, asked>>

StopSidecar == EndSidecar("stopped")

BusOf(r) == Dispatch[MethodOf[kind[r]]][1]
OperationOf(r) == Dispatch[MethodOf[kind[r]]][2]
Ready(b) == b \in SidecarBuses => bus[b] = "open"

(* A method is dispatched to its handler, which starts one operation.      *)
Serve(r) ==
  /\ sidecar = "up" /\ call[r] = "pending" /\ Ready(BusOf(r))
  /\ call' = [call EXCEPT ![r] = "waiting"]
  /\ op' = [op EXCEPT ![r] = "started"]
  /\ asked' = [asked EXCEPT ![r] = Append(@, OperationOf(r))]
  /\ UNCHANGED <<sidecarVars, at, kind>>

ServePanics(r) == call[r] = "pending" /\ ~Ready(BusOf(r)) /\ EndSidecar("crashed")

(* systemd, NetworkManager or the file system carry the operation out, or  *)
(* do not.  The first two do so even if the sidecar is gone.               *)
Finish(r) ==
  /\ op[r] = "started"
  /\ BusOf(r) = "none" => call[r] = "waiting"
  /\ \E outcome \in {"done", "refused"} : op' = [op EXCEPT ![r] = outcome]
  /\ UNCHANGED <<sidecarVars, at, kind, call, asked>>

(* Mutant: the handler replies without having waited. *)
ReplyEarly(r) ==
  /\ sidecar = "up" /\ call[r] = "waiting"
  /\ call' = [call EXCEPT ![r] = IF op[r] = "refused" THEN "error" ELSE "ok"]
  /\ UNCHANGED <<sidecarVars, at, kind, op, asked>>
(* The reply says what has become of the operation, or, if the directory   *)
(* of drop-ins is missing, the call is broken off without one.             *)
Reply(r) ==
  /\ sidecar = "up" /\ call[r] = "waiting" /\ op[r] \in {"done", "refused"}
  /\ \/ op[r] = "done" /\ call' = [call EXCEPT ![r] = "ok"]
     \/ op[r] = "refused" /\ call' = [call EXCEPT ![r] = "error"]
     \/ /\ op[r] = "refused" /\ BusOf(r) = "none"
        /\ call' = [call EXCEPT ![r] = "broken"]
  /\ UNCHANGED <<sidecarVars, at, kind, op, asked>>

-----------------------------------------------------------------------------
(* The handlers of the web server. *)
Goto(r, from, to) == at[r] = from /\ at' = [at EXCEPT ![r] = to]
OnlyHandler == UNCHANGED <<sidecarVars, kind, call, op, asked>>

Arrive(r) == Goto(r, "idle", "handling") /\ OnlyHandler

RejectState(r) == kind[r] = "unknown-state" /\ Goto(r, "handling", "invalid") /\ OnlyHandler

Connect(r) ==
  /\ kind[r] \in DOMAIN MethodOf /\ sidecar = "up"
  /\ Goto(r, "handling", "connected")
  /\ call' = [call EXCEPT ![r] = "connected"]
  /\ UNCHANGED <<sidecarVars, kind, op, asked>>

ConnectFails(r) ==
  /\ kind[r] \in DOMAIN MethodOf /\ sidecar # "up"
  /\ Goto(r, "handling", "failed") /\ OnlyHandler

Send(r) ==
  /\ call[r] = "connected" /\ Goto(r, "connected", "called")
  /\ call' = [call EXCEPT ![r] = "pending"]
  /\ UNCHANGED <<sidecarVars, kind, op, asked>>

(* Mutant: a call that was broken off is made again. *)
ReceiveOrRetry(r) ==
  \/ call[r] = "ok" /\ Goto(r, "called", "answered") /\ OnlyHandler
  \/ call[r] = "error" /\ Goto(r, "called", "failed") /\ OnlyHandler
  \/ /\ call[r] = "broken" /\ Goto(r, "called", "handling")
     /\ OnlyHandler
(* Mutant: the loss of the connection is not noticed. *)
ReceiveReplies(r) ==
  \/ call[r] = "ok" /\ Goto(r, "called", "answered") /\ OnlyHandler
  \/ call[r] = "error" /\ Goto(r, "called", "failed") /\ OnlyHandler
(* A reply is awaited for as long as the connection lasts. *)
Receive(r) ==
  \/ call[r] = "ok" /\ Goto(r, "called", "answered") /\ OnlyHandler
  \/ call[r] \in {"error", "broken"} /\ Goto(r, "called", "failed") /\ OnlyHandler

(* The connection breaks before the call is sent. *)
SendFails(r) == call[r] = "broken" /\ Goto(r, "connected", "failed") /\ OnlyHandler

(* The browser goes.  Only a profile's handler does without the request's  *)
(* context, and goes on.                                                   *)
Leave(r) ==
  /\ at[r] \in Working /\ kind[r] # "drop-in-updated"
  /\ Goto(r, at[r], "abandoned") /\ OnlyHandler

(* The web server ends, or closes the connections of its handlers. *)
WebServerEnds ==
  /\ \E r \in Requests : at[r] \in Working
  /\ at' = [r \in Requests |-> IF at[r] \in Working THEN "abandoned" ELSE at[r]]
  /\ OnlyHandler

Handler(r) ==
  RejectState(r) \/ Connect(r) \/ ConnectFails(r) \/ Send(r) \/ SendFails(r) \/ Receive(r)

Sidecar ==
  \/ StartSidecar \/ StopSidecar
  \/ \E b \in SidecarBuses : Open(b)
  \/ \E r \in Requests : Serve(r) \/ ServePanics(r) \/ Finish(r) \/ Reply(r)

Next ==
  \/ Sidecar \/ WebServerEnds
  \/ \E r \in Requests : Arrive(r) \/ Leave(r) \/ Handler(r)

(* The Go scheduler runs every goroutine that can go on, and systemd and   *)
(* NetworkManager answer.  Nobody need send a request, start the sidecar,  *)
(* or open its buses.                                                      *)
Fairness ==
  \A r \in Requests :
    /\ WF_vars(Handler(r)) /\ WF_vars(Serve(r) \/ ServePanics(r))
    /\ WF_vars(Finish(r)) /\ WF_vars(Reply(r))

Spec == Init /\ [][Next]_vars /\ Fairness

-----------------------------------------------------------------------------
(* PROPERTIES *)

(* The processes, the requests and the calls are in states that the code   *)
(* knows; a bus of the sidecar is never closed while the sidecar runs.     *)
TypeOK ==
  /\ sidecar \in {"stopped", "up", "crashed"}
  /\ bus \in [SidecarBuses -> {"opening", "open", "failed"}]
  /\ starts \in 0..MaxStarts
  /\ at \in [Requests -> Working \cup {"idle", "answered", "failed", "invalid", "abandoned"}]
  /\ kind \in Wishes
  /\ call \in [Requests -> {"none", "connected", "pending", "waiting", "ok", "error", "broken"}]
  /\ op \in [Requests -> {"none", "started", "done", "refused"}]
  /\ asked \in [Requests -> Seq({Dispatch[method][2] : method \in DOMAIN Dispatch})]

(* What the user asks for is the name of what systemd or NetworkManager    *)
(* then do.                                                                *)
Meant ==
  [state \in {"soft-rebooted", "rebooted", "powered-off", "reloaded", "drop-in-updated"} |->
     CASE state = "soft-rebooted" -> "SoftReboot" [] state = "rebooted" -> "Reboot"
       [] state = "powered-off" -> "PowerOff" [] state = "reloaded" -> "ReloadConnections"
       [] state = "drop-in-updated" -> "write"]

(* A request has its operation started at most once, through whatever      *)
(* crashes and restarts of the sidecar, and it is the operation that was   *)
(* meant: a machine is not rebooted twice for one request.                 *)
AskedOnce ==
  \A r \in Requests : asked[r] # <<>> => (kind[r] \in DOMAIN Meant /\ asked[r] = <<Meant[kind[r]]>>)

(* A user who is redirected has had the operation done.  The converse does *)
(* not hold: the operation of a failed request may be done, too.           *)
SuccessMeansDone ==
  \A r \in Requests : (kind[r] \in DOMAIN MethodOf /\ at[r] = "answered") => op[r] = "done"

(* What AtMostOnce calls the outcome of a request. *)
Outcome(r) ==
  IF at[r] = "idle" THEN "none" ELSE IF at[r] \in Working THEN "pending" ELSE at[r]
Promise == INSTANCE AtMostOnce WITH
  Operations <- DOMAIN MethodOf,
  outcome <- [r \in Requests |-> Outcome(r)]

(* Through handlers, varlink and the sidecar, whichever of them ends when, *)
(* requests behave as AtMostOnce: their operations are not begun again, or *)
(* behind the back of a user who was told of a failure, and a redirection  *)
(* follows the operation.                                                  *)
AtMostOnceSpec == Promise!Spec

(* Every request is answered or broken off, although no call has a timeout *)
(* of its own and the sidecar can end at any moment.                       *)
EveryRequestEnds == \A r \in Requests : at[r] \in Working ~> at[r] \notin Working

(* "Even if Systemd is unavailable, other parts of machine-admin are still *)
(* useful" (sidecar.go:78): the sidecar does not end for want of a bus.    *)
SystemdIsOptional == sidecar # "crashed"
=============================================================================
