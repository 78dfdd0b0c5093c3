--------------------------- MODULE UnmountDrive ---------------------------
(***************************************************************************)
(* UnmountDrive of the UDisks2 client (src/internal/clients/udisks2),      *)
(* called once for one drive, "safely remove" on the storage page.         *)
(*                                                                         *)
(* The call dumps all block devices one by one, chooses the mounted ones   *)
(* of the drive, and starts a goroutine for each, which finds the device   *)
(* again by its ID and unmounts it.  Meanwhile other requests and the user *)
(* mount, unmount, plug in and pull out devices.                           *)
(*                                                                         *)
(* Any D-Bus call may fail, and when the file system of a device cannot be *)
(* read the code goes on as if the device had none.  A device may be       *)
(* mounted in several places, of which one Unmount clears one.  IDs differ.*)
(***************************************************************************)
CONSTANTS
  Devices,       \* the block devices there may be
  Mounts,        \* the mounts there may be, each a device and a place
  DriveDevices,  \* those of the drive
  Nameless       \* those with an empty ID

ASSUME DevicesAssumption ==
  /\ DriveDevices \subseteq Devices /\ Nameless \subseteq Devices
  /\ \A m \in Mounts : m[1] \in Devices

VARIABLES
  plugged,    \* the devices UDisks2 knows
  mounted,    \* the mounts
  pc,         \* where the call is
  left,       \* the devices it has listed and not dumped yet
  chosen,     \* its driveDevs
  result,     \* what it returned
  worker,     \* where each device's goroutine is
  todo,       \* the devices each goroutine has listed and not dumped yet
  cancelled,  \* the context of the request is cancelled
  remounted,  \* the mounts made since the call last saw or unmounted their device
  spared,     \* those of a device it could not read, or which it unmounted elsewhere
  refused,    \* devices whose own goroutine had an error for an answer
  vanished    \* devices pulled out since the call began

deviceVars == <<plugged, mounted>>
callVars == <<pc, left, chosen, result>>
workerVars == <<worker, todo>>
historyVars == <<remounted, spared, refused, vanished>>
vars == <<plugged, mounted, pc, left, chosen, result, worker, todo, cancelled,
          remounted, spared, refused, vanished>>

MountsOf(devices) == {m \in Mounts : m[1] \in devices}
MountedAt(d) == mounted \cap MountsOf({d})

TypeOK ==
  /\ plugged \subseteq Devices /\ mounted \subseteq MountsOf(plugged)
  /\ pc \in {"idle", "dump", "wait", "done"}
  /\ left \subseteq Devices
  /\ chosen \subseteq DriveDevices \ Nameless
  /\ result \in {"none", "nil", "error"}
  /\ worker \in [Devices -> {"none", "start", "search", "found", "ok", "error"}]
  /\ todo \in [Devices -> SUBSET Devices]
  /\ cancelled \in BOOLEAN
  /\ remounted \subseteq mounted /\ spared \subseteq mounted
  /\ refused \subseteq Devices /\ vanished \subseteq Devices

Init ==
  /\ plugged \in SUBSET Devices
  /\ mounted \in SUBSET MountsOf(plugged)
  /\ pc = "idle" /\ result = "none"
  /\ left = {} /\ chosen = {}
  /\ worker = [d \in Devices |-> "none"]
  /\ todo = [d \in Devices |-> {}]
  /\ cancelled = FALSE
  /\ remounted = {} /\ spared = {} /\ refused = {} /\ vanished = {}

-----------------------------------------------------------------------------
Return(answer) ==
  /\ pc' = "done"
  /\ result' = answer

(* The list of GetBlockDevices. *)
List ==
  /\ pc = "idle"
  /\ pc' = "dump"
  /\ left' = plugged
  /\ UNCHANGED <<deviceVars, chosen, result, workerVars, cancelled, historyVars>>

(* The context is cancelled, or UDisks2 does not answer. *)
ListFails ==
  /\ pc = "idle"
  /\ Return("error")
  /\ UNCHANGED <<deviceVars, left, chosen, workerVars, cancelled, historyVars>>

(* Mutant: the device's drive is not compared. *)
DumpAnyDrive(d) ==
  /\ pc = "dump"
  /\ d \in left \cap plugged
  /\ left' = left \ {d}
  /\ chosen' = IF MountedAt(d) # {} /\ d \notin Nameless THEN chosen \cup {d} ELSE chosen
  /\ remounted' = remounted \ MountsOf({d})
  /\ UNCHANGED <<deviceVars, pc, result, workerVars, cancelled, spared, refused, vanished>>

(* The dump of a device, up to its mount points, and the choice.           *)
Dump(d) ==
  /\ pc = "dump"
  /\ d \in left \cap plugged
  /\ left' = left \ {d}
  /\ chosen' = IF MountedAt(d) # {} /\ d \in DriveDevices \ Nameless
                 THEN chosen \cup {d} ELSE chosen
  /\ remounted' = remounted \ MountsOf({d})
  /\ UNCHANGED <<deviceVars, pc, result, workerVars, cancelled, spared, refused, vanished>>

(* Some property of the device or of its drive cannot be read, because it  *)
(* has gone or since D-Bus has an error for an answer: the call fails.     *)
DumpFails(d) ==
  /\ pc = "dump"
  /\ d \in left
  /\ Return("error")
  /\ left' = {}
  /\ UNCHANGED <<deviceVars, chosen, workerVars, cancelled, historyVars>>

(* It is the file system which cannot be read: dumpFilesystem takes any    *)
(* error for the answer of a device without one, be the device there or    *)
(* not, and its mounts are overlooked.                                     *)
DumpOverlooked(d) ==
  /\ pc = "dump"
  /\ d \in left
  /\ left' = left \ {d}
  /\ spared' = spared \cup MountedAt(d)
  /\ UNCHANGED <<deviceVars, pc, chosen, result, workerVars, cancelled, remounted, refused,
                 vanished>>

(* Start the goroutines of the group. *)
Spawn ==
  /\ pc = "dump"
  /\ left = {}
  /\ pc' = "wait"
  /\ worker' = [d \in Devices |-> IF d \in chosen THEN "start" ELSE "none"]
  /\ UNCHANGED <<deviceVars, left, chosen, result, todo, cancelled, historyVars>>

(* Mutant: the group does not wait for all its goroutines. *)
WaitForOne ==
  /\ pc = "wait"
  /\ chosen = {} \/ \E d \in chosen : worker[d] \in {"ok", "error"}
  /\ Return(IF \E d \in chosen : worker[d] = "error" THEN "error" ELSE "nil")
  /\ UNCHANGED <<deviceVars, left, chosen, workerVars, cancelled, historyVars>>

(* Wait returns the first error, if there is any, after all have returned. *)
Wait ==
  /\ pc = "wait"
  /\ \A d \in chosen : worker[d] \in {"ok", "error"}
  /\ Return(IF \E d \in chosen : worker[d] = "error" THEN "error" ELSE "nil")
  /\ UNCHANGED <<deviceVars, left, chosen, workerVars, cancelled, historyVars>>

-----------------------------------------------------------------------------
(* UnmountBlockDevice in the goroutine of device d. *)
Goto(d, place) == worker' = [worker EXCEPT ![d] = place]

WorkerLists(d) ==
  /\ worker[d] = "start"
  /\ Goto(d, "search")
  /\ todo' = [todo EXCEPT ![d] = plugged]
  /\ UNCHANGED <<deviceVars, callVars, cancelled, historyVars>>

(* Mutant: the same device is dumped over and over. *)
WorkerRepeats(d, e) ==
  /\ worker[d] = "search"
  /\ e \in todo[d]
  /\ worker' = IF e = d THEN [worker EXCEPT ![d] = "found"] ELSE worker
  /\ UNCHANGED todo
  /\ UNCHANGED <<deviceVars, callVars, cancelled, historyVars>>

(* findBlockDeviceByID dumps one device after the other, also one that is  *)
(* just vanishing, until it has the ID.                                    *)
WorkerDumps(d, e) ==
  /\ worker[d] = "search"
  /\ e \in todo[d]
  /\ worker' = IF e = d THEN [worker EXCEPT ![d] = "found"] ELSE worker
  /\ todo' = [todo EXCEPT ![d] = IF e = d THEN {} ELSE @ \ {e}]
  /\ UNCHANGED <<deviceVars, callVars, cancelled, historyVars>>

(* It fails at any device which is gone, not only at the one it looks for. *)
WorkerDumpFails(d, e) ==
  /\ worker[d] = "search"
  /\ e \in todo[d] \ plugged
  /\ Goto(d, "error")
  /\ todo' = [todo EXCEPT ![d] = {}]
  /\ UNCHANGED <<deviceVars, callVars, cancelled, historyVars>>

WorkerFindsNothing(d) ==
  /\ worker[d] = "search"
  /\ todo[d] = {}
  /\ Goto(d, "error")
  /\ UNCHANGED <<deviceVars, callVars, todo, cancelled, historyVars>>

(* UDisks2 unmounts the device from one place, the others stay mounted. *)
UnmountedOnce(d) ==
  \E m \in MountedAt(d) :
    /\ mounted' = mounted \ {m}
    /\ remounted' = remounted \ {m}
    /\ spared' = (spared \cup MountedAt(d)) \ {m}

Unmount(d) ==
  /\ worker[d] = "found"
  /\ UnmountedOnce(d)
  /\ Goto(d, "ok")
  /\ UNCHANGED <<plugged, callVars, todo, cancelled, refused, vanished>>

(* Mutant: the group's own context, which a failure cancels, is passed on. *)
UnmountRefusedForAll(d) ==
  /\ worker[d] = "found"
  /\ refused' = refused \cup {d}
  /\ worker' = [e \in Devices |->
                  IF e = d \/ worker[e] \in {"start", "found"} THEN "error" ELSE worker[e]]
  /\ UNCHANGED <<deviceVars, callVars, todo, cancelled, remounted, spared, vanished>>

(* The device is busy, gone, or not mounted any more, or a call of its     *)
(* goroutine fails otherwise; UDisks2 may have unmounted it all the same.  *)
UnmountRefused(d) ==
  /\ worker[d] \in {"start", "search", "found"}
  /\ refused' = refused \cup {d}
  /\ Goto(d, "error")
  /\ todo' = [todo EXCEPT ![d] = {}]
  /\ UNCHANGED <<mounted, remounted, spared>> \/ (worker[d] = "found" /\ UnmountedOnce(d))
  /\ UNCHANGED <<plugged, callVars, cancelled, vanished>>

(* A cancelled D-Bus call fails, or has been carried out. *)
WorkerCancelled(d) ==
  /\ cancelled
  /\ worker[d] \in {"start", "found"}
  /\ Goto(d, "error")
  /\ UNCHANGED <<mounted, remounted, spared>> \/ (worker[d] = "found" /\ UnmountedOnce(d))
  /\ UNCHANGED <<plugged, callVars, todo, cancelled, refused, vanished>>

Worker(d) ==
  \/ WorkerLists(d) \/ WorkerFindsNothing(d)
  \/ \E e \in Devices : WorkerDumps(d, e) \/ WorkerDumpFails(d, e)
  \/ Unmount(d) \/ UnmountRefused(d) \/ WorkerCancelled(d)

Call ==
  \/ List \/ ListFails \/ Spawn \/ Wait
  \/ \E d \in Devices : Dump(d) \/ DumpFails(d) \/ DumpOverlooked(d)

-----------------------------------------------------------------------------
(* Everybody else, from the call's list of devices to its return: it may   *)
(* begin with any devices, and what happens after it does not concern it.  *)
Cancel ==
  /\ ~cancelled
  /\ cancelled' = TRUE
  /\ UNCHANGED <<deviceVars, callVars, workerVars, historyVars>>

(* MountBlockDevice of another request, or an automatic mount. *)
Mount(m) ==
  /\ m \in MountsOf(plugged) \ mounted
  /\ mounted' = mounted \cup {m}
  /\ remounted' = remounted \cup {m}
  /\ UNCHANGED <<plugged, callVars, workerVars, cancelled, spared, refused, vanished>>

(* UnmountBlockDevice of another request. *)
UnmountElsewhere(m) ==
  /\ m \in mounted
  /\ mounted' = mounted \ {m}
  /\ remounted' = remounted \ {m}
  /\ spared' = spared \ {m}
  /\ UNCHANGED <<plugged, callVars, workerVars, cancelled, refused, vanished>>

PullOut(d) ==
  /\ d \in plugged
  /\ plugged' = plugged \ {d}
  /\ mounted' = mounted \ MountsOf({d})
  /\ remounted' = remounted \ MountsOf({d})
  /\ spared' = spared \ MountsOf({d})
  /\ vanished' = vanished \cup {d}
  /\ UNCHANGED <<callVars, workerVars, cancelled, refused>>

PlugIn(d) ==
  /\ d \in Devices \ plugged
  /\ plugged' = plugged \cup {d}
  /\ UNCHANGED <<mounted, callVars, workerVars, cancelled, historyVars>>

Others ==
  /\ pc \in {"dump", "wait"}
  /\ \/ Cancel
     \/ \E m \in Mounts : Mount(m) \/ UnmountElsewhere(m)
     \/ \E d \in Devices : PullOut(d) \/ PlugIn(d)

Next == Call \/ (\E d \in Devices : Worker(d)) \/ Others

Spec == Init /\ [][Next]_vars

(* What a goroutine does of itself, with whatever answer UDisks2 has.      *)
Runs(d) ==
  \/ WorkerLists(d) \/ WorkerFindsNothing(d)
  \/ \E e \in Devices : WorkerDumps(d, e) \/ WorkerDumpFails(d, e)
  \/ worker[d] = "found" /\ (Unmount(d) \/ UnmountRefused(d))

(* Goroutines run and UDisks2 answers every call; no error comes of need.  *)
FairSpec == Spec /\ WF_vars(Call) /\ \A d \in Devices : WF_vars(Runs(d))

-----------------------------------------------------------------------------
(* PROPERTIES *)

Removable == MountsOf(DriveDevices \ Nameless)

(* When the removal of a drive has succeeded, a device of it that has an   *)
(* ID is mounted where somebody has mounted it after the call had seen or  *)
(* unmounted it; where the call could not see it, the file system being    *)
(* unreadable; or in a place besides the one it was unmounted from.  The   *)
(* list of devices may be out of date when the goroutines run, but nothing *)
(* else that was mounted is overlooked, and the group loses no failure.    *)
OnlyKnownMountsRemain == result = "nil" => Removable \cap mounted \subseteq remounted \cup spared

(* "This drive is safe to unplug now."  What the page says of a drive      *)
(* which it finds unmounted would need every success to leave no mount but *)
(* later ones.                                                             *)
SafeToPullOut == result = "nil" => Removable \cap mounted \subseteq remounted

Failed == {d \in chosen : worker[d] = "error"}

(* The goroutines share no fate: unless a device is pulled out or the user *)
(* goes away, a goroutine fails only if its own calls had an error for an  *)
(* answer.                                                                 *)
FailuresStaySeparate == ~cancelled /\ vanished = {} => Failed \subseteq refused

(* The call returns, whatever happens to the devices meanwhile. *)
CallReturns == pc = "dump" ~> pc = "done"

(* A failure in unmounting one block device does not prevent the others    *)
(* from being unmounted: if only devices have gone whose own goroutines    *)
(* have failed, the goroutine of any other device fails only if refused.   *)
FailuresAreOwn ==
  ~cancelled /\ vanished \subseteq Failed => Failed \subseteq refused \cup vanished
=============================================================================
