------------------------- MODULE UnmountDriveProofs -------------------------
(* Proofs about UnmountDrive, for any devices and drives.                  *)
EXTENDS UnmountDrive, TLAPS

(* The call has not looked at the device yet, has still to unmount it, or  *)
(* returns an error.                                                       *)
Pending(d) ==
  \/ pc = "idle"
  \/ pc = "dump" /\ d \in left \cup chosen
  \/ pc = "wait" /\ d \in chosen /\ worker[d] # "ok"
  \/ result = "error"

(* A mount the call has not dealt with is new, spared or still pending.    *)
(* Without the pending ones OnlyKnownMountsRemain would not be inductive.  *)
Accounted ==
  \A m \in Removable \cap mounted : m \in remounted \cup spared \/ Pending(m[1])

(* The call has a result at its end only, and goroutines, of the devices   *)
(* chosen, not before it has dumped them all.                              *)
Phase ==
  /\ result = "none" <=> pc # "done"
  /\ pc \in {"idle", "dump"} => worker = [d \in Devices |-> "none"]
  /\ \A d \in Devices : worker[d] # "none" => d \in chosen
  /\ pc = "idle" => chosen = {}

(* If no device has gone, a goroutine finds its own, and only a refusal    *)
(* makes it fail.                                                          *)
Found ==
  ~cancelled /\ vanished = {} =>
    /\ \A d \in Devices : todo[d] \subseteq plugged
    /\ chosen \subseteq plugged
    /\ \A d \in Devices : worker[d] = "search" => d \in chosen \cap todo[d]
    /\ \A d \in chosen : worker[d] = "error" => d \in refused

Inv == TypeOK /\ Phase /\ Accounted /\ Found

-----------------------------------------------------------------------------
(* The invariant holds initially. *)
LEMMA InitInv == Init => Inv
BY DEF Init, Inv, TypeOK, Phase, Accounted, Pending, Found, Removable, MountsOf

(* The steps of the call itself keep the invariant. *)
LEMMA CallInv == Inv /\ Call => Inv'
<1> SUFFICES ASSUME Inv, Call PROVE Inv'
    OBVIOUS
<1> USE DevicesAssumption DEF Inv, TypeOK, Phase, Accounted, Pending, Found, deviceVars, callVars,
                              workerVars, historyVars, Removable, MountsOf, MountedAt, Return
<1>1. CASE List
    BY <1>1 DEF List
<1>2. CASE ListFails
    BY <1>2 DEF ListFails
<1>3. CASE Spawn
    BY <1>3 DEF Spawn
<1>4. CASE Wait
  <2>1. CASE \E d \in chosen : worker[d] = "error"
    BY <1>4, <2>1 DEF Wait
  <2>2. CASE \A d \in chosen : worker[d] # "error"
    <3>1. \A d \in chosen : worker[d] = "ok"
        BY <1>4, <2>2 DEF Wait
    <3> QED BY <1>4, <2>2, <3>1 DEF Wait
  <2> QED BY <2>1, <2>2
<1>5. ASSUME NEW d \in Devices, Dump(d) PROVE Inv'
    BY <1>5 DEF Dump
<1>6. ASSUME NEW d \in Devices, DumpFails(d) PROVE Inv'
    BY <1>6 DEF DumpFails
<1>7. ASSUME NEW d \in Devices, DumpOverlooked(d) PROVE Inv'
    BY <1>7 DEF DumpOverlooked
<1> QED BY <1>1, <1>2, <1>3, <1>4, <1>5, <1>6, <1>7 DEF Call

(* The steps of a goroutine keep the invariant. *)
LEMMA WorkerInv == ASSUME NEW d \in Devices, Inv, Worker(d) PROVE Inv'
<1> USE DevicesAssumption DEF Inv, TypeOK, Phase, Accounted, Pending, Found, deviceVars, callVars,
                              workerVars, historyVars, Removable, MountsOf, MountedAt, Goto
<1>0. pc \in {"wait", "done"}
    BY DEF Worker, WorkerLists, WorkerFindsNothing, WorkerDumps, WorkerDumpFails,
           Unmount, UnmountRefused, WorkerCancelled
<1>1. CASE WorkerLists(d)
    BY <1>0, <1>1 DEF WorkerLists
<1>2. CASE WorkerFindsNothing(d)
    BY <1>0, <1>2 DEF WorkerFindsNothing
<1>3. ASSUME NEW e \in Devices, WorkerDumps(d, e) PROVE Inv'
    BY <1>0, <1>3 DEF WorkerDumps
<1>4. ASSUME NEW e \in Devices, WorkerDumpFails(d, e) PROVE Inv'
    BY <1>0, <1>4 DEF WorkerDumpFails
<1>5. CASE Unmount(d)
    BY <1>0, <1>5 DEF Unmount, UnmountedOnce
<1>6. CASE UnmountRefused(d)
    BY <1>0, <1>6 DEF UnmountRefused, UnmountedOnce
<1>7. CASE WorkerCancelled(d)
    BY <1>0, <1>7 DEF WorkerCancelled, UnmountedOnce
<1> QED BY <1>1, <1>2, <1>3, <1>4, <1>5, <1>6, <1>7 DEF Worker

(* What everybody else does to the devices keeps the invariant. *)
LEMMA OthersInv == Inv /\ Others => Inv'
<1> SUFFICES ASSUME Inv, Others PROVE Inv'
    OBVIOUS
<1> USE DevicesAssumption DEF Inv, TypeOK, Phase, Accounted, Pending, Found, deviceVars, callVars,
                              workerVars, historyVars, Removable, MountsOf, MountedAt
<1>1. CASE Cancel
    BY <1>1 DEF Cancel
<1>2. ASSUME NEW m \in Mounts, Mount(m) PROVE Inv'
    BY <1>2 DEF Mount
<1>3. ASSUME NEW m \in Mounts, UnmountElsewhere(m) PROVE Inv'
    BY <1>3 DEF UnmountElsewhere
<1>4. ASSUME NEW d \in Devices, PullOut(d) PROVE Inv'
    BY <1>4 DEF PullOut
<1>5. ASSUME NEW d \in Devices, PlugIn(d) PROVE Inv'
    BY <1>5 DEF PlugIn
<1> QED BY <1>1, <1>2, <1>3, <1>4, <1>5 DEF Others

(* The invariant is one of every behaviour. *)
THEOREM Invariance == Spec => []Inv
<1>1. Inv /\ UNCHANGED vars => Inv'
    BY DEF Inv, TypeOK, Phase, Accounted, Pending, Found, vars
<1>2. Inv /\ [Next]_vars => Inv'
    BY <1>1, CallInv, WorkerInv, OthersInv DEF Next
<1> QED BY <1>2, InitInv, PTL DEF Spec

(* Every reachable state is well typed; above all, the call never chooses  *)
(* a device of another drive or one without an ID.                         *)
THEOREM TypeCorrect == Spec => []TypeOK
<1>1. Inv => TypeOK
    BY DEF Inv
<1> QED BY <1>1, Invariance, PTL

(* After UnmountDrive has returned nil, a device of the drive that has an  *)
(* ID is mounted only where somebody has mounted it again, where its file  *)
(* system could not be read, or besides the place it was unmounted from:   *)
(* for any number of devices and mounts, and whatever is pulled out,       *)
(* plugged in, mounted or unmounted between the listing and the last       *)
(* goroutine.                                                              *)
THEOREM RemovalLeavesKnownMounts == Spec => []OnlyKnownMountsRemain
<1>1. Inv => OnlyKnownMountsRemain
    BY DEF Inv, Phase, Accounted, Pending, OnlyKnownMountsRemain
<1> QED BY <1>1, Invariance, PTL

(* While no device is pulled out and the request is not cancelled, a       *)
(* goroutine fails only if one of its own calls does.                      *)
THEOREM FailuresAreSeparate == Spec => []FailuresStaySeparate
<1>1. Inv => FailuresStaySeparate
    BY DEF Inv, Found, FailuresStaySeparate, Failed
<1> QED BY <1>1, Invariance, PTL
=============================================================================
