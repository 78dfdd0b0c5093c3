-------------------------- MODULE ConnProfilePost --------------------------
(***************************************************************************)
(* HandleConnProfilePostByUUID of the web server                           *)
(* (src/internal/app/server/routes/internet/conn-profiles.go) for ONE      *)
(* connection profile, composed with what it sets in motion: the sidecar's *)
(* varlink methods, the systemd unit which assembles the profile's file    *)
(* from its drop-in files, and NetworkManager.                             *)
(*                                                                         *)
(* A password travels from the drop-in file to the profile's file, to      *)
(* NetworkManager's settings and to the active connection.  Each step of a *)
(* request moves it one place on, a request stops at its first error, and  *)
(* systemd assembles the file in its own time: RestartUnit only queues the *)
(* job.  A call which ends with an error may have been carried out all the *)
(* same, since its reply can be lost: the request is then over, and what   *)
(* it asked for is there.                                                  *)
(*                                                                         *)
(* UpdatePSKDropInFile appears here as PSKStore specifies it; PSKDropIn    *)
(* shows when it does implement PSKStore.                                  *)
(***************************************************************************)
EXTENDS Naturals, FiniteSets

CONSTANTS
  Requests,   \* the POST requests, each made once
  Passwords,  \* the passwords submitted
  OldPw,      \* the password in use before any request
  Keep,       \* an empty password field
  Forms       \* the forms of the web pages which may be submitted

ASSUME KeepAssumption == Keep \notin Passwords \cup {OldPw}

VARIABLES
  form,        \* the form each request submits
  newPw,       \* its password field
  at,          \* the stage each request is at; it stays there if it fails
  outcome,     \* how each request ended
  backing,     \* where NetworkManager keeps the profile
  templated,   \* the templated assembly unit is loaded in systemd
  unit,        \* the state of the plain assembly unit
  assembling,  \* what the running assembly has read from the drop-in
  dropIn, profileFile, loaded, active,  \* the passwords in each place
  \* History, which only the properties read:
  assembled,   \* the passwords that assemblies have put in the profile's file
  savedOver    \* the file was last written by an update, not by an assembly

requestVars == <<form, newPw, at, outcome>>
systemVars == <<backing, templated, unit, assembling>>
pwVars == <<dropIn, profileFile, loaded, active>>
history == <<assembled, savedOver>>
vars == <<form, newPw, at, outcome, backing, templated, unit, assembling,
          dropIn, profileFile, loaded, active, assembled, savedOver>>

-----------------------------------------------------------------------------
(* The handler's stages in their order; each is run if the form has the    *)
(* field of its name.                                                      *)
StageNames == {"state:drop-in-updated", "state:regenerated", "state:reloaded",
               "state:updated", "state:activated"}
After(stage) ==
  CASE stage = "state:drop-in-updated" -> "state:regenerated"
    [] stage = "state:regenerated" -> "state:reloaded"
    [] stage = "state:reloaded" -> "state:updated"
    [] stage = "state:updated" -> "state:activated"
    [] stage = "state:activated" -> "redirect"

(* The forms in src/web/templates/internet which post to this handler. *)
HotspotForm == [fields |-> StageNames \ {"state:updated"}, updateType |-> "none"]
HotspotFormWithoutDevice ==
  [fields |-> StageNames \ {"state:updated", "state:activated"}, updateType |-> "none"]
ExternalNetworkForm ==
  [fields |-> {"state:updated", "activated"}, updateType |-> "save"]
ApplySettingsForm == [fields |-> {"state:updated"}, updateType |-> "apply"]
SaveSettingsForm == [fields |-> {"state:updated"}, updateType |-> "save"]
ReloadButton == [fields |-> {"state:reloaded"}, updateType |-> "none"]
ActivateButton == [fields |-> {"state:activated"}, updateType |-> "none"]
AllForms == {HotspotForm, HotspotFormWithoutDevice, ExternalNetworkForm,
             ApplySettingsForm, SaveSettingsForm, ReloadButton, ActivateButton}

ASSUME FormsAssumption == Forms \subseteq AllForms

AnyPw == Passwords \cup {OldPw}

TypeOK ==
  /\ form \in [Requests -> Forms]
  /\ newPw \in [Requests -> Passwords \cup {Keep}]
  /\ at \in [Requests -> StageNames \cup {"idle", "restart", "redirect"}]
  /\ outcome \in [Requests -> {"none", "redirected", "failed", "unconfirmed", "unitNotLoaded",
                               "nameless"}]
  /\ backing \in {"disk", "memory", "none"}
  /\ templated \in BOOLEAN
  /\ unit \in {"inactive", "queued", "running", "failed"}
  /\ assembling \in AnyPw
  /\ dropIn \in AnyPw /\ profileFile \in AnyPw
  /\ loaded \in AnyPw /\ active \in AnyPw
  /\ assembled \subseteq AnyPw
  /\ savedOver \in BOOLEAN

(* The hotspot forms require a password, the others may leave it empty. *)
UpdatesDropIn(r) == "state:drop-in-updated" \in form[r].fields

Init ==
  /\ form \in [Requests -> Forms]
  /\ newPw \in [Requests -> Passwords \cup {Keep}]
  /\ \A r \in Requests : UpdatesDropIn(r) => newPw[r] # Keep
  /\ at = [r \in Requests |-> "idle"]
  /\ outcome = [r \in Requests |-> "none"]
  /\ backing \in {"disk", "none"}
  /\ templated \in BOOLEAN
  /\ unit = "inactive"
  /\ assembling = OldPw
  /\ dropIn = OldPw /\ profileFile = OldPw /\ loaded = OldPw /\ active = OldPw
  /\ assembled = {OldPw}
  /\ savedOver = FALSE

-----------------------------------------------------------------------------
(* A request which is not over is at a place, and may run it. *)
Runs(r, place) == at[r] = place /\ outcome[r] = "none"
RunsStage(r, stage) == Runs(r, stage) /\ stage \in form[r].fields

Proceed(r, place) ==
  /\ at' = [at EXCEPT ![r] = place]
  /\ UNCHANGED <<form, newPw, outcome>>

End(r, how) ==
  /\ outcome' = [outcome EXCEPT ![r] = how]
  /\ UNCHANGED <<form, newPw, at>>

(* A call has been carried out: the request goes on, or it ends because    *)
(* the reply was an error or did not arrive, or the web server has stopped *)
(* since it made the call.                                                 *)
Called(r, next) == Proceed(r, next) \/ End(r, "unconfirmed")

Arrive(r) ==
  /\ Runs(r, "idle")
  /\ Proceed(r, "state:drop-in-updated")
  /\ UNCHANGED <<systemVars, pwVars, history>>

Skip(r) ==
  /\ at[r] \in StageNames \ form[r].fields
  /\ outcome[r] = "none"
  /\ Proceed(r, After(at[r]))
  /\ UNCHANGED <<systemVars, pwVars, history>>

(* The form may be unparsable, any call to the sidecar, to systemd or to   *)
(* NetworkManager may fail, and the web server may stop: the request ends  *)
(* where it is and nothing is rolled back.  This is the call which was not *)
(* carried out; see Called for the other.                                  *)
Fail(r) ==
  /\ at[r] \in form[r].fields \cup {"idle", "restart"}
  /\ outcome[r] = "none"
  /\ End(r, "failed")
  /\ UNCHANGED <<systemVars, pwVars, history>>

UpdateDropIn(r) ==
  /\ RunsStage(r, "state:drop-in-updated")
  /\ backing # "none"
  /\ dropIn' = newPw[r]
  /\ Called(r, "state:regenerated")
  /\ UNCHANGED <<systemVars, profileFile, loaded, active, history>>

(* GetConnProfileFilename returns "" and no error for a profile without a  *)
(* file.  Its base name is ".", so the sidecar looks for the drop-in in    *)
(* the directory of all profiles, and has none there to read.              *)
UpdateNamelessDropIn(r) ==
  /\ RunsStage(r, "state:drop-in-updated")
  /\ backing = "none"
  /\ End(r, "nameless")
  /\ UNCHANGED <<systemVars, pwVars, history>>

(* RegenerateDropInConnProfile first restarts the templated assembly unit, *)
(* which writes other drop-ins than the password's.                        *)
RestartTemplated(r) ==
  /\ RunsStage(r, "state:regenerated")
  /\ backing # "none"
  /\ templated
  /\ Called(r, "restart")
  /\ UNCHANGED <<systemVars, pwVars, history>>

(* UnitExists has an error, never FALSE, for a unit which is not loaded,   *)
(* as the unit of a nameless profile is not.                               *)
TemplatedNotLoaded(r) ==
  /\ RunsStage(r, "state:regenerated")
  /\ ~templated \/ backing = "none"
  /\ End(r, "unitNotLoaded")
  /\ UNCHANGED <<systemVars, pwVars, history>>

(* Mutant: the unit is started, which leaves a running one alone. *)
StartRunningAssembly(r) ==
  /\ Runs(r, "restart")
  /\ unit' = IF unit = "running" THEN "running" ELSE "queued"
  /\ Called(r, "state:reloaded")
  /\ UNCHANGED <<backing, templated, assembling, pwVars, history>>

(* The plain assembly unit: a job already queued is kept, one which is     *)
(* running is stopped and starts over.                                     *)
RestartAssembly(r) ==
  /\ Runs(r, "restart")
  /\ unit' = "queued"
  /\ Called(r, "state:reloaded")
  /\ UNCHANGED <<backing, templated, assembling, pwVars, history>>

(* Mutant: NetworkManager is made to load the drop-in. *)
ReloadDropIn(r) ==
  /\ RunsStage(r, "state:reloaded")
  /\ loaded' = dropIn
  /\ Called(r, "state:updated")
  /\ UNCHANGED <<systemVars, dropIn, profileFile, active, history>>

(* ReloadConnProfile.  Settings applied in memory only may hide the file.  *)
(* A stale page may ask for a profile without a file: NetworkManager, told *)
(* to load "", reports a failure to load "", and the check of the result   *)
(* takes a failure with an empty name for none.                            *)
Reload(r) ==
  /\ RunsStage(r, "state:reloaded")
  /\ \/ backing # "none" /\ loaded' = profileFile /\ backing' = "disk"
     \/ backing # "disk" /\ UNCHANGED <<loaded, backing>>
  /\ Called(r, "state:updated")
  /\ UNCHANGED <<templated, unit, assembling, dropIn, profileFile, active, history>>

(* Mutant: an empty field is not taken out of the update. *)
UpdateEmptyField(r) ==
  /\ RunsStage(r, "state:updated")
  /\ loaded' = newPw[r]
  /\ Called(r, "state:activated")
  /\ UNCHANGED <<systemVars, dropIn, profileFile, active, history>>

(* updateConnProfile.  An empty field keeps the password; "apply" updates  *)
(* NetworkManager's settings in memory, "save" also the file.              *)
Update(r) ==
  /\ RunsStage(r, "state:updated")
  /\ loaded' = IF newPw[r] = Keep THEN loaded ELSE newPw[r]
  /\ \/ /\ form[r].updateType = "save"
        /\ profileFile' = loaded' /\ savedOver' = TRUE /\ backing' = "disk"
     \/ /\ form[r].updateType = "apply"
        /\ backing' = IF backing = "disk" THEN "memory" ELSE backing
        /\ UNCHANGED <<profileFile, savedOver>>
  /\ Called(r, "state:activated")
  /\ UNCHANGED <<templated, unit, assembling, dropIn, active, assembled>>

Activate(r) ==
  /\ RunsStage(r, "state:activated")
  /\ active' = loaded
  /\ Called(r, "redirect")
  /\ UNCHANGED <<systemVars, dropIn, profileFile, loaded, history>>

Redirect(r) ==
  /\ Runs(r, "redirect")
  /\ End(r, "redirected")
  /\ UNCHANGED <<systemVars, pwVars, history>>

-----------------------------------------------------------------------------
(* The assembly unit, run by systemd. *)
StartAssembly ==
  /\ unit = "queued"
  /\ unit' = "running"
  /\ assembling' = dropIn
  /\ UNCHANGED <<requestVars, backing, templated, pwVars, history>>

FinishAssembly ==
  /\ unit = "running"
  /\ unit' = "inactive"
  /\ profileFile' = assembling
  /\ assembled' = assembled \cup {assembling}
  /\ savedOver' = FALSE
  /\ UNCHANGED <<requestVars, backing, templated, assembling, dropIn, loaded, active>>

AssemblyFails ==
  /\ unit = "running"
  /\ unit' = "failed"
  /\ UNCHANGED <<requestVars, backing, templated, assembling, pwVars, history>>

Step(r) ==
  \/ Skip(r) \/ UpdateDropIn(r) \/ UpdateNamelessDropIn(r)
  \/ RestartTemplated(r) \/ TemplatedNotLoaded(r) \/ RestartAssembly(r)
  \/ Reload(r) \/ Update(r) \/ Activate(r) \/ Redirect(r) \/ Fail(r)

Assembly == StartAssembly \/ FinishAssembly \/ AssemblyFails

Next == (\E r \in Requests : Arrive(r) \/ Step(r)) \/ Assembly

Spec == Init /\ [][Next]_vars

(* A handler which has started runs to its end, since it uses the          *)
(* background context; systemd runs the jobs in its queue.                 *)
FairSpec ==
  /\ Spec
  /\ \A r \in Requests : WF_vars(at[r] # "idle" /\ Step(r))
  /\ WF_vars(Assembly)

-----------------------------------------------------------------------------
(* PROPERTIES *)

(* Request r has put its password in the drop-in and has not asked for the *)
(* profile's file to be assembled since; if it is over, it never will.     *)
OwesAssembly(r) ==
  /\ UpdatesDropIn(r)
  /\ newPw[r] = dropIn
  /\ \/ at[r] = "state:drop-in-updated" /\ outcome[r] = "unconfirmed"
     \/ at[r] = "state:regenerated"
     \/ at[r] = "restart" /\ outcome[r] # "unconfirmed"

(* However requests and jobs overlap, an idle assembly unit has left a     *)
(* file with the drop-in's password, but for a request which stopped or is *)
(* still between the two, and for settings that an update has put in the   *)
(* file since it was last assembled.                                       *)
AssembledOrOwed ==
  unit = "inactive" =>
    \/ profileFile = dropIn
    \/ savedOver
    \/ \E r \in Requests : OwesAssembly(r)

(* Once every request has been redirected, the file comes to have the      *)
(* drop-in's password, unless the assembly fails or a request has saved    *)
(* settings.                                                               *)
Saves(r) == "state:updated" \in form[r].fields /\ form[r].updateType = "save"
AllRedirected == \A r \in Requests : outcome[r] = "redirected" /\ ~Saves(r)
EventuallyAssembled == AllRedirected ~> (profileFile = dropIn \/ unit = "failed")

(* Request r has had the assembly unit restarted. *)
PastRestart(r) ==
  /\ UpdatesDropIn(r)
  /\ \/ at[r] \in {"state:reloaded", "state:updated", "state:activated", "redirect"}
     \/ at[r] = "restart" /\ outcome[r] = "unconfirmed"

(* Request r has put its password in the settings, or so it may believe.   *)
PastUpdate(r) ==
  /\ "state:updated" \in form[r].fields
  /\ \/ at[r] \in {"state:activated", "redirect"}
     \/ at[r] = "state:updated" /\ outcome[r] = "unconfirmed"

(* A password of the drop-in gets to NetworkManager and on the air only    *)
(* through an assembly which has ended and was asked for, a restart that   *)
(* is only queued not being enough; or else an update has put the password *)
(* in the settings directly.                                               *)
OnAirNeedsAssembly ==
  \A pw \in {loaded, active} \ {OldPw} :
    \/ pw \in assembled /\ \E r \in Requests : PastRestart(r)
    \/ \E r \in Requests : newPw[r] = pw /\ PastUpdate(r)

(* The button of the hotspot's form says "Update and restart": after the   *)
(* redirect, the hotspot runs with the password submitted.                 *)
UpdateAndRestart ==
  \A r \in Requests :
    (form[r] = HotspotForm /\ outcome[r] = "redirected") => active = newPw[r]

(* The button of the external network's form says "Save and connect":      *)
(* after the redirect, the connection runs with the settings saved.        *)
SaveAndConnect ==
  \A r \in Requests :
    (form[r] = ExternalNetworkForm /\ outcome[r] = "redirected") => active = loaded

(* GetConnProfileFilename means to reject a profile which is not backed by *)
(* a file, so the sidecar is never asked for the drop-in of a nameless one.*)
SidecarIsGivenAName == \A r \in Requests : outcome[r] # "nameless"

(* A profile which has no templated assembly unit is assembled without it. *)
TemplateIsOptional == \A r \in Requests : outcome[r] # "unitNotLoaded"
=============================================================================
