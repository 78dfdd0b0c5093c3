-------------------------- MODULE RescanNetworks --------------------------
(***************************************************************************)
(* RescanNetworks of the NetworkManager client                             *)
(* (src/internal/clients/networkmanager/accesspoints.go), called for one   *)
(* Wi-Fi device by the page of access points (a request, or a publisher)   *)
(* and by the publisher of the internet page, each in its own goroutine.   *)
(*                                                                         *)
(* A call notes the time of the device's last scan, requests a scan and    *)
(* polls the time once a second until it is a different one.  Time is an   *)
(* integer which wraps around.                                             *)
(***************************************************************************)
EXTENDS Naturals

CONSTANTS
  Calls,    \* the calls of RescanNetworks, each made once
  Width,    \* the number of timestamps, 2^32 in the code; a run which has
            \* Width > MaxIdle + MaxScan + 2 has no scan as long as a turn
  MaxScan,  \* the longest time a scan takes, in polling periods
  MaxIdle   \* the longest time the device goes without a scan

ASSUME WidthAssumption == Width \in Nat /\ Width > 1
ASSUME TimesAssumption == MaxScan \in Nat \ {0} /\ MaxIdle \in Nat

VARIABLES
  now,        \* the clock of the device
  lastScan,   \* its property LastScan
  scanning,   \* a scan is in progress
  age,        \* the time since the device began or ended its last scan
  pc,         \* where each call is
  prev,       \* each call's prevLastScan
  due,        \* the second between two polls of a call is over
  result,     \* what each call returned
  finished,   \* a scan has finished since the call read prevLastScan
  inProgress, \* the scan in progress had begun before the call's request
  served      \* a scan which began after the call's request has finished

deviceVars == <<now, lastScan, scanning, age>>
callVars == <<pc, prev, due, result>>
historyVars == <<finished, inProgress, served>>
vars == <<deviceVars, callVars, historyVars>>

Timestamps == 0..(Width - 1)

(* -1, for a device which has never scanned, is a timestamp like others.   *)
Never == Width - 1

TypeOK ==
  /\ now \in Timestamps /\ lastScan \in Timestamps
  /\ scanning \in BOOLEAN
  /\ age \in Nat
  /\ pc \in [Calls -> {"idle", "request", "poll", "done"}]
  /\ prev \in [Calls -> Timestamps]
  /\ due \in [Calls -> BOOLEAN]
  /\ result \in [Calls -> {"none", "nil", "error"}]
  /\ \A c \in Calls : (due[c] => pc[c] = "poll") /\ (result[c] # "none" <=> pc[c] = "done")
  /\ finished \in [Calls -> BOOLEAN]
  /\ inProgress \in [Calls -> BOOLEAN]
  /\ served \in [Calls -> BOOLEAN]

(* The device has just scanned, or the machine has just started. *)
Init ==
  /\ now \in Timestamps
  /\ lastScan = now \/ (lastScan = Never /\ now = 0)
  /\ scanning = FALSE
  /\ age = 0
  /\ pc = [c \in Calls |-> "idle"]
  /\ prev = [c \in Calls |-> Never]
  /\ due = [c \in Calls |-> FALSE]
  /\ result = [c \in Calls |-> "none"]
  /\ finished = [c \in Calls |-> FALSE]
  /\ inProgress = [c \in Calls |-> FALSE]
  /\ served = [c \in Calls |-> FALSE]

-----------------------------------------------------------------------------
(* findDevice and the first parseLastScan. *)
ReadLastScan(c) ==
  /\ pc[c] = "idle"
  /\ prev' = [prev EXCEPT ![c] = lastScan]
  /\ pc' = [pc EXCEPT ![c] = "request"]
  /\ UNCHANGED <<deviceVars, due, result, historyVars>>

(* Mutant: the time of the last scan is noted after the request. *)
RequestScanFirst(c) ==
  /\ pc[c] = "request"
  /\ pc' = [pc EXCEPT ![c] = "poll"]
  /\ prev' = [prev EXCEPT ![c] = lastScan]
  /\ inProgress' = [inProgress EXCEPT ![c] = scanning]
  /\ UNCHANGED <<deviceVars, due, result, finished, served>>

(* RequestScan; NetworkManager accepts it also during a scan. *)
RequestScan(c) ==
  /\ pc[c] = "request"
  /\ pc' = [pc EXCEPT ![c] = "poll"]
  /\ inProgress' = [inProgress EXCEPT ![c] = scanning]
  /\ UNCHANGED <<deviceVars, prev, due, result, finished, served>>

(* One turn of the polling loop. *)
PollTurn(c, goOn) ==
  /\ pc[c] = "poll"
  /\ due[c]
  /\ due' = [due EXCEPT ![c] = FALSE]
  /\ IF goOn
       THEN UNCHANGED <<pc, result>>
       ELSE /\ pc' = [pc EXCEPT ![c] = "done"]
            /\ result' = [result EXCEPT ![c] = "nil"]
  /\ UNCHANGED <<deviceVars, prev, historyVars>>

(* Mutants: the loop waits for any scan at all, or for a later time. *)
PollForAnyScan(c) == PollTurn(c, lastScan = Never)
PollForLaterScan(c) == PollTurn(c, lastScan <= prev[c])

Poll(c) == PollTurn(c, lastScan = prev[c])

(* Mutant: an error is noted and the loop goes on. *)
FailAndGoOn(c) ==
  /\ pc[c] \in {"request", "poll"}
  /\ pc' = [pc EXCEPT ![c] = "poll"]
  /\ due' = [due EXCEPT ![c] = FALSE]
  /\ result' = [result EXCEPT ![c] = "error"]
  /\ UNCHANGED <<deviceVars, prev, historyVars>>

(* The context of the request or of the subscription is cancelled, the     *)
(* device is gone, or NetworkManager rejects the request.                  *)
Fail(c) ==
  /\ pc[c] \in {"request", "poll"}
  /\ pc' = [pc EXCEPT ![c] = "done"]
  /\ due' = [due EXCEPT ![c] = FALSE]
  /\ result' = [result EXCEPT ![c] = "error"]
  /\ UNCHANGED <<deviceVars, prev, historyVars>>

-----------------------------------------------------------------------------
(* The device scans on request and of its own accord. *)
BeginScan ==
  /\ ~scanning
  /\ scanning' = TRUE
  /\ age' = 0
  /\ UNCHANGED <<now, lastScan, callVars, historyVars>>

FinishScan ==
  /\ scanning
  /\ age > 0
  /\ scanning' = FALSE
  /\ age' = 0
  /\ lastScan' = now
  /\ finished' = [c \in Calls |-> finished[c] \/ pc[c] \in {"request", "poll"}]
  /\ inProgress' = [c \in Calls |-> FALSE]
  /\ served' = [c \in Calls |-> served[c] \/ (pc[c] = "poll" /\ ~inProgress[c])]
  /\ UNCHANGED <<now, callVars>>

(* A second passes: every call in its loop has polled since the last one,  *)
(* and a D-Bus call takes less than a second.                              *)
Tick ==
  /\ age < IF scanning THEN MaxScan ELSE MaxIdle
  /\ \A c \in Calls : pc[c] # "request" /\ ~due[c]
  /\ now' = (now + 1) % Width
  /\ age' = age + 1
  /\ due' = [c \in Calls |-> pc[c] = "poll"]
  /\ UNCHANGED <<lastScan, scanning, pc, prev, result, historyVars>>

Next ==
  \/ \E c \in Calls : ReadLastScan(c) \/ RequestScan(c) \/ Poll(c) \/ Fail(c)
  \/ BeginScan \/ FinishScan \/ Tick

Spec == Init /\ [][Next]_vars

(* Time passes, calls in progress are scheduled and scans end.             *)
FairSpec ==
  /\ Spec
  /\ \A c \in Calls : WF_vars(RequestScan(c)) /\ WF_vars(Poll(c))
  /\ WF_vars(BeginScan) /\ WF_vars(FinishScan) /\ WF_vars(Tick)

-----------------------------------------------------------------------------
(* PROPERTIES *)

(* A call succeeds only after some scan finished during the call, so the   *)
(* access points listed next are not those of before the call.             *)
SuccessMeansAScan == \A c \in Calls : result[c] = "nil" => finished[c]

(* A poll after a scan has finished ends the loop: no finished scan goes   *)
(* unnoticed because of the wrap-around.                                   *)
FinishedScanIsNoticed ==
  [][\A c \in Calls : Poll(c) /\ finished[c] => pc'[c] = "done"]_vars

(* Every call which has started ends, even if nobody cancels it.           *)
EveryCallEnds == \A c \in Calls : pc[c] = "poll" ~> pc[c] = "done"

(* The call blocks until the scan it has requested is finished.            *)
BlocksUntilItsScan == \A c \in Calls : result[c] = "nil" => served[c]
=============================================================================
