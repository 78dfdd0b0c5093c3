----------------------- MODULE ConnProfilePostProofs -----------------------
(***************************************************************************)
(* Proofs about ConnProfilePost for any number of requests, any passwords  *)
(* and any of the web pages' forms.                                        *)
(***************************************************************************)
EXTENDS ConnProfilePost, TLAPS

(* A request which updates the drop-in always has a password for it.       *)
HasPassword == \A r \in Requests : UpdatesDropIn(r) => newPw[r] \in Passwords

(* Every password is one submitted or the old one, for any requests and    *)
(* forms: an empty field never becomes a password.                         *)
THEOREM TypeCorrect == Spec => [](TypeOK /\ HasPassword)
  <1> USE DEF TypeOK, HasPassword, AnyPw, StageNames, UpdatesDropIn,
              requestVars, systemVars, pwVars, history
  <1>1. Init => TypeOK /\ HasPassword
    BY DEF Init
  <1>2. TypeOK /\ HasPassword /\ [Next]_vars => (TypeOK /\ HasPassword)'
    <2> SUFFICES ASSUME TypeOK, HasPassword, [Next]_vars
                 PROVE  (TypeOK /\ HasPassword)'
      OBVIOUS
    <2>1. ASSUME NEW r \in Requests, Arrive(r)
          PROVE  (TypeOK /\ HasPassword)'
      BY <2>1 DEF Arrive, Runs, RunsStage, Proceed, Called, End
    <2>2. ASSUME NEW r \in Requests, Skip(r)
          PROVE  (TypeOK /\ HasPassword)'
      BY <2>2 DEF Skip, Proceed, After
    <2>3. ASSUME NEW r \in Requests, UpdateDropIn(r)
          PROVE  (TypeOK /\ HasPassword)'
      BY <2>3 DEF UpdateDropIn, Runs, RunsStage, Proceed, Called, End
    <2>5. ASSUME NEW r \in Requests, UpdateNamelessDropIn(r)
          PROVE  (TypeOK /\ HasPassword)'
      BY <2>5 DEF UpdateNamelessDropIn, Runs, RunsStage, Proceed, Called, End
    <2>6. ASSUME NEW r \in Requests, RestartTemplated(r)
          PROVE  (TypeOK /\ HasPassword)'
      BY <2>6 DEF RestartTemplated, Runs, RunsStage, Proceed, Called, End
    <2>7. ASSUME NEW r \in Requests, TemplatedNotLoaded(r)
          PROVE  (TypeOK /\ HasPassword)'
      BY <2>7 DEF TemplatedNotLoaded, Runs, RunsStage, Proceed, Called, End
    <2>8. ASSUME NEW r \in Requests, RestartAssembly(r)
          PROVE  (TypeOK /\ HasPassword)'
      BY <2>8 DEF RestartAssembly, Runs, RunsStage, Proceed, Called, End
    <2>9. ASSUME NEW r \in Requests, Reload(r)
          PROVE  (TypeOK /\ HasPassword)'
      BY <2>9 DEF Reload, Runs, RunsStage, Proceed, Called, End
    <2>10. ASSUME NEW r \in Requests, Update(r)
          PROVE  (TypeOK /\ HasPassword)'
      BY <2>10 DEF Update, Runs, RunsStage, Proceed, Called, End
    <2>11. ASSUME NEW r \in Requests, Activate(r)
          PROVE  (TypeOK /\ HasPassword)'
      BY <2>11 DEF Activate, Runs, RunsStage, Proceed, Called, End
    <2>12. ASSUME NEW r \in Requests, Redirect(r)
          PROVE  (TypeOK /\ HasPassword)'
      BY <2>12 DEF Redirect, Runs, RunsStage, Proceed, Called, End
    <2>13. ASSUME NEW r \in Requests, Fail(r)
          PROVE  (TypeOK /\ HasPassword)'
      BY <2>13 DEF Fail, Runs, RunsStage, Proceed, Called, End
    <2>14. CASE StartAssembly
      BY <2>14 DEF StartAssembly
    <2>15. CASE FinishAssembly
      BY <2>15 DEF FinishAssembly
    <2>16. CASE AssemblyFails
      BY <2>16 DEF AssemblyFails
    <2>17. CASE UNCHANGED vars
      BY <2>17 DEF vars
    <2>18. QED
      BY <2>1, <2>2, <2>3, <2>5, <2>6, <2>7, <2>8, <2>9, <2>10, <2>11, <2>12, <2>13, <2>14,
         <2>15, <2>16, <2>17
      DEF Next, Step, Assembly
  <1>3. QED
    BY <1>1, <1>2, PTL DEF Spec

-----------------------------------------------------------------------------
Owed == \E r \in Requests : OwesAssembly(r)

(* What AssembledOrOwed needs to be inductive: also the assembly which is  *)
(* running has read the drop-in's password, unless a request owes another. *)
AssemblyInv ==
  /\ unit = "running" => assembling = dropIn \/ Owed
  /\ unit = "inactive" => profileFile = dropIn \/ savedOver \/ Owed

(* However requests and jobs overlap, an idle assembly unit has left the   *)
(* drop-in's password in the profile's file, but for requests which have   *)
(* not restarted it since their update and for settings saved over it.     *)
THEOREM IdleMeansAssembled == Spec => []AssembledOrOwed
  <1> USE DEF Owed, OwesAssembly, UpdatesDropIn, StageNames,
              requestVars, systemVars, pwVars, history
  <1>1. Init => AssemblyInv
    BY DEF Init, AssemblyInv
  <1>2. TypeOK /\ AssemblyInv /\ [Next]_vars => AssemblyInv'
    <2> SUFFICES ASSUME TypeOK, AssemblyInv, [Next]_vars
                 PROVE  AssemblyInv'
      OBVIOUS
    <2> USE DEF TypeOK, AssemblyInv
    <2>1. ASSUME NEW r \in Requests, Arrive(r)
          PROVE  AssemblyInv'
      BY <2>1 DEF Arrive, Runs, RunsStage, Proceed, Called, End
    <2>2. ASSUME NEW r \in Requests, Skip(r)
          PROVE  AssemblyInv'
      <3>1. ASSUME NEW s \in Requests, OwesAssembly(s)
            PROVE  OwesAssembly(s)'
        <4>1. at[r] # "state:regenerated" \/ r # s
          BY <2>2, <3>1, FormsAssumption
          DEF Skip, AllForms, HotspotForm, HotspotFormWithoutDevice, ExternalNetworkForm,
              ApplySettingsForm, SaveSettingsForm, ReloadButton, ActivateButton
        <4>2. QED
          BY <2>2, <3>1, <4>1 DEF Skip, Proceed
      <3>2. QED
        <4> HIDE DEF OwesAssembly
        <4>1. QED
          BY <2>2, <3>1 DEF Skip, Proceed
    <2>3. ASSUME NEW r \in Requests, UpdateDropIn(r)
          PROVE  AssemblyInv'
      BY <2>3 DEF UpdateDropIn, Runs, RunsStage, Proceed, Called, End
    <2>5. ASSUME NEW r \in Requests, UpdateNamelessDropIn(r)
          PROVE  AssemblyInv'
      BY <2>5 DEF UpdateNamelessDropIn, Runs, RunsStage, Proceed, Called, End
    <2>6. ASSUME NEW r \in Requests, RestartTemplated(r)
          PROVE  AssemblyInv'
      BY <2>6 DEF RestartTemplated, Runs, RunsStage, Proceed, Called, End
    <2>7. ASSUME NEW r \in Requests, TemplatedNotLoaded(r)
          PROVE  AssemblyInv'
      BY <2>7 DEF TemplatedNotLoaded, Runs, RunsStage, Proceed, Called, End
    <2>8. ASSUME NEW r \in Requests, RestartAssembly(r)
          PROVE  AssemblyInv'
      BY <2>8 DEF RestartAssembly, Runs, RunsStage, Proceed, Called, End
    <2>9. ASSUME NEW r \in Requests, Reload(r)
          PROVE  AssemblyInv'
      BY <2>9 DEF Reload, Runs, RunsStage, Proceed, Called, End
    <2>10. ASSUME NEW r \in Requests, Update(r)
          PROVE  AssemblyInv'
      BY <2>10 DEF Update, Runs, RunsStage, Proceed, Called, End
    <2>11. ASSUME NEW r \in Requests, Activate(r)
          PROVE  AssemblyInv'
      BY <2>11 DEF Activate, Runs, RunsStage, Proceed, Called, End
    <2>12. ASSUME NEW r \in Requests, Redirect(r)
          PROVE  AssemblyInv'
      BY <2>12 DEF Redirect, Runs, RunsStage, Proceed, Called, End
    <2>13. ASSUME NEW r \in Requests, Fail(r)
          PROVE  AssemblyInv'
      BY <2>13 DEF Fail, Runs, RunsStage, Proceed, Called, End
    <2>14. CASE StartAssembly
      BY <2>14 DEF StartAssembly
    <2>15. CASE FinishAssembly
      BY <2>15 DEF FinishAssembly
    <2>16. CASE AssemblyFails
      BY <2>16 DEF AssemblyFails
    <2>17. CASE UNCHANGED vars
      BY <2>17 DEF vars
    <2>18. QED
      BY <2>1, <2>2, <2>3, <2>5, <2>6, <2>7, <2>8, <2>9, <2>10, <2>11, <2>12, <2>13, <2>14,
         <2>15, <2>16, <2>17
      DEF Next, Step, Assembly
  <1>3. AssemblyInv => AssembledOrOwed
    BY DEF AssemblyInv, AssembledOrOwed
  <1>4. QED
    BY <1>1, <1>2, <1>3, TypeCorrect, PTL DEF Spec

-----------------------------------------------------------------------------
SubmittedDirectly(pw) == \E r \in Requests : newPw[r] = pw /\ PastUpdate(r)

(* The unit runs only once some request has restarted it, and every        *)
(* password past the drop-in is the old one, has been assembled or came    *)
(* with an update.                                                         *)
OnAirInv ==
  /\ \A r \in Requests : at[r] = "restart" => UpdatesDropIn(r)
  /\ (unit # "inactive" \/ assembled # {OldPw}) => \E r \in Requests : PastRestart(r)
  /\ \A pw \in {profileFile, loaded, active} \ {OldPw} :
       pw \in assembled \/ SubmittedDirectly(pw)

(* A form that has the profile regenerated has its drop-in updated before. *)
LEMMA RegeneratesItsDropIn ==
  ASSUME NEW f \in AllForms, "state:regenerated" \in f.fields
  PROVE  "state:drop-in-updated" \in f.fields
BY DEF AllForms, HotspotForm, HotspotFormWithoutDevice, ExternalNetworkForm, ApplySettingsForm,
       SaveSettingsForm, ReloadButton, ActivateButton, StageNames

(* Every step keeps OnAirInv. *)
LEMMA OnAirStep == TypeOK /\ OnAirInv /\ [Next]_vars => OnAirInv'
<1> SUFFICES ASSUME TypeOK, OnAirInv, [Next]_vars PROVE OnAirInv'
  OBVIOUS
<1> USE KeepAssumption, FormsAssumption DEF OnAirInv, TypeOK, AnyPw, StageNames, UpdatesDropIn,
        PastRestart, PastUpdate, SubmittedDirectly, requestVars, systemVars, pwVars, history
<1>1. ASSUME NEW r \in Requests, Arrive(r) PROVE OnAirInv'
  BY <1>1 DEF Arrive, Runs, RunsStage, Proceed, Called, End
<1>2. ASSUME NEW r \in Requests, Skip(r) PROVE OnAirInv'
  BY <1>2 DEF Skip, After, Runs, RunsStage, Proceed, Called, End
<1>3. ASSUME NEW r \in Requests, UpdateDropIn(r) PROVE OnAirInv'
  BY <1>3 DEF UpdateDropIn, Runs, RunsStage, Proceed, Called, End
<1>5. ASSUME NEW r \in Requests, UpdateNamelessDropIn(r) PROVE OnAirInv'
  BY <1>5 DEF UpdateNamelessDropIn, Runs, RunsStage, Proceed, Called, End
<1>6. ASSUME NEW r \in Requests, RestartTemplated(r) PROVE OnAirInv'
  BY <1>6, RegeneratesItsDropIn DEF RestartTemplated, Runs, RunsStage, Proceed, Called, End
<1>7. ASSUME NEW r \in Requests, TemplatedNotLoaded(r) PROVE OnAirInv'
  BY <1>7 DEF TemplatedNotLoaded, Runs, RunsStage, Proceed, Called, End
<1>8. ASSUME NEW r \in Requests, RestartAssembly(r) PROVE OnAirInv'
  BY <1>8 DEF RestartAssembly, Runs, RunsStage, Proceed, Called, End
<1>9. ASSUME NEW r \in Requests, Reload(r) PROVE OnAirInv'
  BY <1>9 DEF Reload, Runs, RunsStage, Proceed, Called, End
<1>10. ASSUME NEW r \in Requests, Update(r) PROVE OnAirInv'
  BY <1>10 DEF Update, Runs, RunsStage, Proceed, Called, End
<1>11. ASSUME NEW r \in Requests, Activate(r) PROVE OnAirInv'
  BY <1>11 DEF Activate, Runs, RunsStage, Proceed, Called, End
<1>12. ASSUME NEW r \in Requests, Redirect(r) PROVE OnAirInv'
  BY <1>12 DEF Redirect, Runs, RunsStage, Proceed, Called, End
<1>13. ASSUME NEW r \in Requests, Fail(r) PROVE OnAirInv'
  BY <1>13 DEF Fail, Runs, RunsStage, Proceed, Called, End
<1>14. CASE StartAssembly
  BY <1>14 DEF StartAssembly
<1>15. CASE FinishAssembly
  BY <1>15 DEF FinishAssembly
<1>16. CASE AssemblyFails
  BY <1>16 DEF AssemblyFails
<1>17. CASE UNCHANGED vars
  BY <1>17 DEF vars
<1> QED
  BY <1>1, <1>2, <1>3, <1>5, <1>6, <1>7, <1>8, <1>9, <1>10, <1>11, <1>12, <1>13, <1>14,
     <1>15, <1>16, <1>17 DEF Next, Step, Assembly

(* However requests overlap, the drop-in's password reaches NetworkManager *)
(* and the air only through an assembly which has ended and was asked for. *)
THEOREM NothingBypassesAssembly == Spec => []OnAirNeedsAssembly
<1>1. Init => OnAirInv
  BY DEF Init, OnAirInv
<1>2. OnAirInv => OnAirNeedsAssembly
  BY DEF OnAirInv, OnAirNeedsAssembly, SubmittedDirectly, PastUpdate
<1> QED
  BY <1>1, <1>2, OnAirStep, TypeCorrect, PTL DEF Spec
=============================================================================
