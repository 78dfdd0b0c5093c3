---------------------------- MODULE StoragePage ----------------------------
(***************************************************************************)
(* The reading of the storage page: getStorageViewData of                  *)
(* src/internal/app/server/routes/storage with GetDrives and               *)
(* GetBlockDevices of the UDisks2 client and GetUsage.  The reading lists  *)
(* the drives and dumps them one by one, then the block devices, then asks *)
(* the kernel for the disk usage of each mount point, and last separates   *)
(* the system's drives, not to be unplugged, from the removable ones.      *)
(* Meanwhile drives come and go, and file systems are mounted, also over   *)
(* one another, and unmounted.  Any call to UDisks2 may fail, which fails  *)
(* the reading, but for the one which asks whether a device has a file     *)
(* system: its failure is passed over.                                     *)
(***************************************************************************)
EXTENDS Integers, FiniteSets

CONSTANTS
  Drives,       \* the drives there may be
  Devices,      \* their block devices, and some without a drive
  DriveOf,      \* the drive of each device, or "none"
  DriveID,      \* the ID of each drive, which may be empty
  Rank,         \* the order of the devices by their preferred names
  MayHold,      \* the devices that may be mounted at each place
  MaxChanges    \* how often drives and mounts change in a reading (bound)

Places == DOMAIN MayHold
SystemPlaces == {"/", "/boot", "/boot/firmware"}

ASSUME DrivesAssumption ==
  /\ "none" \notin Drives /\ "other" \notin Devices
  /\ DriveOf \in [Devices -> Drives \cup {"none"}]
  /\ DriveID \in [Drives -> STRING]
ASSUME RankAssumption ==
  /\ Rank \in [Devices -> Nat]
  /\ \A d, e \in Devices : Rank[d] = Rank[e] => d = e
ASSUME PlacesAssumption == "/" \in Places /\ MayHold \in [Places -> SUBSET Devices]
ASSUME BoundAssumption == MaxChanges \in Nat

VARIABLES
  drives,     \* the drives UDisks2 knows
  plugged,    \* the devices it knows
  mounted,    \* the devices mounted at each place
  top,        \* the one of them last mounted there, or "other": none
  changes,    \* how often these have changed
  touched,    \* the drives, devices and places which have since the reading began
  pc,         \* where the reading is
  left,       \* the objects of the present list still to be read
  shown,      \* the drives that have been dumped
  seen,       \* the mount points of each device that has been dumped
  unread,     \* the devices whose file system could not be read
  rest,       \* the mount points of the present device still to be measured
  usage,      \* the file system whose usage is kept per drive ID and place
  removable   \* the drives shown as removable

worldVars == <<drives, plugged, mounted, top, changes, touched>>
pageVars == <<shown, seen, unread, rest, usage, removable>>
vars == <<worldVars, pc, left, pageVars>>

(* A device without a drive has the empty ID of the zero Drive. *)
IDOf(d) == IF DriveOf[d] = "none" THEN "" ELSE DriveID[DriveOf[d]]
IDs == {IDOf(d) : d \in Devices} \cup {DriveID[r] : r \in Drives}
NoUsages == [k \in IDs \X Places |-> "absent"]

(* Each place holds devices that may be there, one of them on top; devices *)
(* come and go with their drives, and what the page has is of drives,      *)
(* devices and places.                                                     *)
TypeOK ==
  /\ drives \subseteq Drives /\ plugged \subseteq Devices
  /\ \A p \in Places : mounted[p] \subseteq MayHold[p] \cap plugged
  /\ \A p \in Places : top[p] \in mounted[p] \/ (top[p] = "other" /\ mounted[p] = {})
  /\ \A d \in plugged : DriveOf[d] \in drives \cup {"none"}
  /\ changes \in 0 .. MaxChanges
  /\ touched \subseteq Drives \cup Devices \cup Places
  /\ pc \in {"idle", "drives", "devices", "usages", "done", "failed"}
  /\ left \subseteq (IF pc = "drives" THEN Drives ELSE Devices)
  /\ shown \subseteq Drives /\ removable \subseteq shown
  /\ DOMAIN seen \subseteq Devices
  /\ \A d \in DOMAIN seen : seen[d] \subseteq {p \in Places : d \in MayHold[p]}
  /\ unread \subseteq DOMAIN seen /\ rest \subseteq Places
  /\ usage \in [IDs \X Places -> Devices \cup {"other", "zero", "absent"}]

(* Whatever may be on top at each place, when these are mounted there. *)
Tops(mounts) ==
  {f \in [Places -> UNION {mounts[p] : p \in Places} \cup {"other"}] :
     \A p \in Places : f[p] \in IF mounts[p] = {} THEN {"other"} ELSE mounts[p]}

Init ==
  /\ drives = Drives /\ plugged = Devices
  /\ mounted \in [Places -> SUBSET Devices]
  /\ \A p \in Places : mounted[p] \subseteq MayHold[p]
  /\ top \in Tops(mounted)
  /\ changes = 0 /\ touched = {}
  /\ pc = "idle" /\ left = {}
  /\ shown = {} /\ seen = <<>> /\ unread = {} /\ rest = {} /\ usage = NoUsages /\ removable = {}

-----------------------------------------------------------------------------
(* The world: UDisks2, the kernel and other requests. *)
Change(things) ==
  /\ changes < MaxChanges /\ changes' = changes + 1
  /\ touched' = touched \cup things
  /\ UNCHANGED <<pc, left, pageVars>>

Mount(d, p) ==
  /\ d \in (plugged \cap MayHold[p]) \ mounted[p]
  /\ mounted' = [mounted EXCEPT ![p] = @ \cup {d}] /\ top' = [top EXCEPT ![p] = d]
  /\ Change({p}) /\ UNCHANGED <<drives, plugged>>

(* Some mounts are undone; what was over them stays so, and in which order *)
(* the others come to light is left open.                                  *)
Undo(mounts) ==
  /\ mounted' = [p \in Places |-> mounted[p] \ {d \in Devices : <<d, p>> \in mounts}]
  /\ top' \in Tops(mounted')
  /\ \A p \in Places : top[p] \in mounted'[p] => top'[p] = top[p]

Unmount(p) ==
  /\ mounted[p] # {} /\ Undo({<<top[p], p>>})
  /\ Change({p}) /\ UNCHANGED <<drives, plugged>>

HeldBy(devices) == {p \in Places : mounted[p] \cap devices # {}}

(* A device is removed, by a new partition table or with its drive. *)
RemoveDevice(d) ==
  /\ d \in plugged /\ plugged' = plugged \ {d}
  /\ Undo({d} \X Places)
  /\ Change({d} \cup HeldBy({d})) /\ UNCHANGED drives

RemoveDrive(r) ==
  LET gone == {d \in plugged : DriveOf[d] = r} IN
  /\ r \in drives /\ drives' = drives \ {r} /\ plugged' = plugged \ gone
  /\ Undo(gone \X Places)
  /\ Change({r} \cup gone \cup HeldBy(gone))

PlugIn(r) ==
  LET new == {d \in Devices : DriveOf[d] = r} IN
  /\ r \notin drives /\ drives' = drives \cup {r} /\ plugged' = plugged \cup new
  /\ Change({r} \cup new) /\ UNCHANGED <<mounted, top>>

-----------------------------------------------------------------------------
(* The reading. *)
List(at, then, objects) ==
  /\ pc = at /\ (at # "idle" => left = {})
  /\ pc' = then /\ left' = objects /\ UNCHANGED <<worldVars, pageVars>>

ListDrives == List("idle", "drives", drives)
ListDevices == List("drives", "devices", plugged)

(* The browser is gone or UDisks2 does not answer. *)
ListFails ==
  /\ pc = "idle" \/ (pc = "drives" /\ left = {})
  /\ pc' = "failed" /\ left' = {} /\ UNCHANGED <<worldVars, pageVars>>

DumpDrive(r) ==
  /\ pc = "drives" /\ r \in left \cap drives
  /\ left' = left \ {r} /\ shown' = shown \cup {r}
  /\ UNCHANGED <<worldVars, pc, seen, unread, rest, usage, removable>>

(* A listed object that has gone fails the reading, as any error of UDisks2*)
(* does.                                                                   *)
DumpFails ==
  /\ pc \in {"drives", "devices"} /\ left # {}
  /\ pc' = "failed" /\ left' = {} /\ UNCHANGED <<worldVars, pageVars>>

Dumped(d, mps) ==
  /\ pc = "devices" /\ d \in left /\ left' = left \ {d}
  /\ seen' = [e \in DOMAIN seen \cup {d} |-> IF e = d THEN mps ELSE seen[e]]
  /\ UNCHANGED <<worldVars, pc, shown, rest, usage, removable>>

(* Mutant: a device that is not mounted has one mount point, the empty one. *)
DumpBlank(d) ==
  LET held == HeldBy({d}) IN
  d \in plugged /\ Dumped(d, IF held = {} THEN {""} ELSE held) /\ UNCHANGED unread

DumpDevice(d) == d \in plugged /\ Dumped(d, HeldBy({d})) /\ UNCHANGED unread

(* A device whose file system cannot be read, whether it has just gone or  *)
(* not, passes for one without a file system.                              *)
DumpOverlooked(d) == Dumped(d, {}) /\ unread' = unread \cup {d}

-----------------------------------------------------------------------------
(* getStorageViewData proper, over the devices in their order. *)
Measure ==
  /\ pc = "devices" /\ left = {}
  /\ pc' = "usages" /\ left' = DOMAIN seen /\ UNCHANGED <<worldVars, pageVars>>

First == CHOOSE d \in left : \A e \in left : Rank[d] <= Rank[e]

(* The map of the device's drive is made. *)
BeginDevice ==
  /\ pc = "usages" /\ rest = {} /\ left # {} /\ seen[First] # {}
  /\ rest' = seen[First]
  /\ usage' = [k \in DOMAIN usage |-> IF k[1] = IDOf(First) THEN "absent" ELSE usage[k]]
  /\ UNCHANGED <<worldVars, pc, left, shown, seen, unread, removable>>

(* ... also for one that has nothing mounted. *)
PassDevice ==
  /\ pc = "usages" /\ rest = {} /\ left # {} /\ seen[First] = {}
  /\ left' = left \ {First}
  /\ usage' = [k \in DOMAIN usage |-> IF k[1] = IDOf(First) THEN "absent" ELSE usage[k]]
  /\ UNCHANGED <<worldVars, pc, shown, seen, unread, rest, removable>>

(* What statfs says of a place: the file system on top there, or the one   *)
(* its directory is in; the call may fail.                                 *)
Statfs(p) == {IF top[p] = "other" THEN top["/"] ELSE top[p], "zero"}

Keep(p, u) ==
  /\ pc = "usages" /\ p \in rest /\ rest' = rest \ {p}
  /\ left' = IF rest = {p} THEN left \ {First} ELSE left
  /\ usage' = [usage EXCEPT ![<<IDOf(First), p>>] = u]
  /\ UNCHANGED <<worldVars, pc, shown, seen, unread, removable>>

(* Mutant: one variable for all mount points, which a failed call leaves.  *)
GetUsageOrLast(p) ==
  /\ pc = "usages" /\ p \in rest
  /\ \E u \in Statfs(p) \cup {usage[k] : k \in {IDOf(First)} \X (seen[First] \ rest)} : Keep(p, u)

GetUsage(p) == \E u \in Statfs(p) : Keep(p, u)

(* Mutant: the last device of a drive decides. *)
IsSystemByLast(id) ==
  \E d \in DOMAIN seen :
    /\ IDOf(d) = id /\ seen[d] \cap SystemPlaces # {}
    /\ \A e \in DOMAIN seen : IDOf(e) = id => Rank[e] <= Rank[d]

(* isSystem, as the loop over devices and mount points leaves it. *)
IsSystem(id) == \E d \in DOMAIN seen : IDOf(d) = id /\ seen[d] \cap SystemPlaces # {}

Classify ==
  /\ pc = "usages" /\ left = {}
  /\ pc' = "done" /\ removable' = {r \in shown : ~IsSystem(DriveID[r])}
  /\ UNCHANGED <<worldVars, left, shown, seen, unread, rest, usage>>

World ==
  \/ \E p \in Places : Unmount(p) \/ \E d \in Devices : Mount(d, p)
  \/ \E d \in Devices : RemoveDevice(d)
  \/ \E r \in Drives : RemoveDrive(r) \/ PlugIn(r)

Reading ==
  \/ ListDrives \/ ListDevices \/ ListFails \/ DumpFails
  \/ \E r \in Drives : DumpDrive(r)
  \/ \E d \in Devices : DumpDevice(d) \/ DumpOverlooked(d)
  \/ Measure \/ BeginDevice \/ PassDevice \/ (\E p \in Places : GetUsage(p)) \/ Classify

Next == World \/ Reading
Spec == Init /\ [][Next]_vars

-----------------------------------------------------------------------------
(* A drive is shown as removable only if none of its devices holds a place *)
(* of the system, but for a device whose file system could not be read,    *)
(* or mounts which changed during the reading: "Don't unplug them!" on the *)
(* page goes by what isSystem found (storage/routes.go:113).  And a drive  *)
(* is shown as the system's only on behalf of a mounted device, of it or   *)
(* of one with the same ID.                                                *)
SystemDrivesAreKept ==
  pc = "done" =>
    /\ \A p \in (SystemPlaces \cap Places) \ touched :
         \A d \in mounted[p] \ (touched \cup unread) : DriveOf[d] \notin removable
    /\ \A r \in shown \ removable : \E p \in (SystemPlaces \cap Places) :
         p \in touched \/ \E d \in mounted[p] : IDOf(d) = DriveID[r]

(* Whatever was not plugged, mounted or removed during the reading is on   *)
(* the page: each such drive, and each such device, at exactly its places  *)
(* if its file system could be read and else at none.  The usage kept for  *)
(* such a place is of the file system on top there, never another's,       *)
(* although it is measured later than the place was read                   *)
(* (storage/routes.go:94).                                                 *)
UntouchedIsShown ==
  pc = "done" =>
    /\ drives \ touched \subseteq shown
    /\ \A d \in plugged \ touched :
         /\ d \in DOMAIN seen
         /\ \A p \in Places \ touched : p \in seen[d] <=> d \in mounted[p] /\ d \notin unread
    /\ \A d \in DOMAIN seen : \A p \in seen[d] \ touched :
         usage[<<IDOf(d), p>>] \in {top[p], "zero", "absent"}

(* "Don't unplug them!", the page says of the drives that the system runs  *)
(* from (web/templates/storage/index.page.tmpl:69), and they would have to *)
(* be all of them.  Violated: a device whose file system cannot be read    *)
(* passes for one that is not mounted.                                     *)
NoSystemDriveIsRemovable ==
  pc = "done" =>
    \A p \in (SystemPlaces \cap Places) \ touched :
      \A d \in mounted[p] \ touched : DriveOf[d] \notin removable

(* Each mount point on the page has an entry in the usages, "keyed by      *)
(* drive ID, then mount point" (storage/routes.go:75).  Violated: the map  *)
(* of a drive is made anew for each of its devices.                        *)
UsagesAreKept ==
  pc = "done" => \A d \in DOMAIN seen : \A p \in seen[d] : usage[<<IDOf(d), p>>] # "absent"
=============================================================================
