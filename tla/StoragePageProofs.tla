------------------------- MODULE StoragePageProofs -------------------------
(* Theorems about StoragePage for any drives, devices, places and number   *)
(* of changes during the reading.                                          *)
EXTENDS StoragePage, WellFoundedInduction, TLAPS

(* Among any devices there is a first. *)
LEMMA SomeDeviceIsFirst ==
  ASSUME NEW S \in SUBSET Devices, S # {}
  PROVE  \E d \in S : \A e \in S : Rank[d] <= Rank[e]
<1> DEFINE Less == {ss \in Nat \X Nat : ss[1] < ss[2]}
           T == {Rank[d] : d \in S}
<1>0. IsWellFoundedOn(Less, Nat)
  BY NatLessThanWellFounded DEF OpToRel
<1>1. T \subseteq Nat /\ T # {}
  BY RankAssumption
<1>2. PICK m \in T : \A n \in T : ~(<<n, m>> \in Less)
  <2> HIDE DEF T, Less
  <2> QED
    BY <1>0, <1>1, WFMin
<1>3. ASSUME NEW n \in T PROVE m <= n
  <2>1. n \in Nat /\ m \in Nat
    BY <1>1
  <2>2. n < m => <<n, m>> \in Less
    BY <2>1
  <2> QED
    BY <1>2, <2>1, <2>2
<1> QED
  BY <1>3

(* The loop's next device is one of those left. *)
LEMMA FirstIsLeft == left \subseteq Devices /\ left # {} => First \in left
BY SomeDeviceIsFirst DEF First

-----------------------------------------------------------------------------
(* Mounts are of devices, each device is dumped once, and the loops of the *)
(* reading are where they say.                                             *)
Placed ==
  /\ mounted \in [Places -> SUBSET Devices]
  /\ top \in [Places -> Devices \cup {"other"}]
  /\ pc \in {"idle", "drives"} => DOMAIN seen = {}
  /\ pc = "devices" => left \cap DOMAIN seen = {}
  /\ pc = "usages" => left \subseteq DOMAIN seen
  /\ rest # {} => pc = "usages" /\ left # {} /\ rest \subseteq seen[First]

(* Drives that have not changed were listed, and then dumped. *)
DrivesAccounted ==
  /\ pc = "drives" => drives \ touched \subseteq shown \cup left
  /\ pc \in {"devices", "usages", "done"} => drives \ touched \subseteq shown

(* The same of devices; what was dumped of a place that has not changed    *)
(* since is still true.                                                    *)
DevicesAccounted ==
  /\ \A d \in DOMAIN seen : \A p \in seen[d] \ touched : d \in mounted[p]
  /\ \A d \in unread : seen[d] = {}
  /\ pc \in {"devices", "usages", "done"} =>
       \A d \in plugged \ touched :
         \/ pc = "devices" /\ d \in left
         \/ /\ d \in DOMAIN seen
            /\ d \notin unread =>
                 \A p \in Places \ touched : p \in seen[d] <=> d \in mounted[p]

(* No usage is measured before the devices are known, and each that was    *)
(* measured at a place that has not changed is of the device there.        *)
UsagesAccounted ==
  /\ pc \in {"idle", "drives", "devices"} => usage = NoUsages
  /\ \A d \in DOMAIN seen : \A p \in seen[d] \ touched :
       usage[<<IDOf(d), p>>] \in {top[p], "zero", "absent"}

(* The division of the drives is the one that the dumped mounts give. *)
Classified == pc = "done" => removable = {r \in shown : ~IsSystem(DriveID[r])}

IInv ==
  /\ TypeOK /\ Placed /\ DrivesAccounted /\ DevicesAccounted /\ UsagesAccounted /\ Classified

(* What may be on top of the mounts of devices is a device or nothing. *)
LEMMA TopsAreDevices ==
  ASSUME NEW mounts \in [Places -> SUBSET Devices], NEW f \in Tops(mounts)
  PROVE  /\ f \in [Places -> Devices \cup {"other"}]
         /\ \A p \in Places : f[p] \in mounts[p] \/ (f[p] = "other" /\ mounts[p] = {})
BY DEF Tops

(* The invariant holds at the start, *)
LEMMA InitIInv == Init => IInv
<1> SUFFICES ASSUME Init PROVE IInv
  OBVIOUS
<1>1. DOMAIN seen = {}
  BY DEF Init
<1>2. TypeOK
  <2>1. \A d \in plugged : DriveOf[d] \in drives \cup {"none"}
    BY DrivesAssumption DEF Init
  <2>2. usage \in [IDs \X Places -> Devices \cup {"other", "zero", "absent"}]
    BY DEF Init, NoUsages
  <2>3. \A p \in Places : mounted[p] \subseteq MayHold[p] \cap plugged
    BY PlacesAssumption DEF Init
  <2>4. \A p \in Places : top[p] \in mounted[p] \/ (top[p] = "other" /\ mounted[p] = {})
    BY DEF Init, Tops
  <2> QED
    BY <1>1, <2>1, <2>2, <2>3, <2>4, BoundAssumption DEF Init, TypeOK
<1>3. Placed /\ DrivesAccounted /\ DevicesAccounted /\ UsagesAccounted /\ Classified
  BY <1>1, TopsAreDevices DEF Init, Placed, DrivesAccounted, DevicesAccounted, UsagesAccounted, Classified
<1> QED
  BY <1>2, <1>3 DEF IInv

(* A change of the world touches whatever it makes the reading wrong about.*)
(* [things] are what it touches.                                           *)
LEMMA ChangeKeepsIInv ==
  ASSUME IInv, NEW things,
         things \subseteq Drives \cup Devices \cup Places,
         Change(things),
         drives' \subseteq Drives,
         plugged' \subseteq Devices,
         mounted' \in [Places -> SUBSET Devices],
         top' \in [Places -> Devices \cup {"other"}],
         \A p \in Places : mounted'[p] \subseteq MayHold[p] \cap plugged',
         \A p \in Places : top'[p] \in mounted'[p] \/ (top'[p] = "other" /\ mounted'[p] = {}),
         \A d \in plugged' : DriveOf[d] \in drives' \cup {"none"},
         \A r \in drives' : r \in drives \cup things,
         \A d \in plugged' : d \in plugged \cup things,
         \A p \in Places : p \notin things => mounted'[p] = mounted[p] /\ top'[p] = top[p]
  PROVE  IInv'
<1> USE DEF Change, pageVars
<1>1. First' = First
  BY DEF First
<1>2. TypeOK'
  BY BoundAssumption DEF IInv, TypeOK
<1>3. Placed'
  BY <1>1 DEF IInv, Placed
<1>4. DrivesAccounted'
  BY DEF IInv, DrivesAccounted
<1>5. \A d \in DOMAIN seen : seen[d] \subseteq Places
  BY DEF IInv, TypeOK
<1>6. DevicesAccounted'
  BY <1>5 DEF IInv, DevicesAccounted
<1>7. UsagesAccounted'
  BY <1>5 DEF IInv, UsagesAccounted, NoUsages
<1>8. Classified'
  BY DEF IInv, Classified, IsSystem
<1> QED
  BY <1>2, <1>3, <1>4, <1>6, <1>7, <1>8 DEF IInv

(* Mounts of devices are undone: nothing changes at a place without them.  *)
LEMMA UndoIsLocal ==
  ASSUME IInv, NEW mounts, Undo(mounts)
  PROVE  /\ mounted' \in [Places -> SUBSET Devices]
         /\ top' \in [Places -> Devices \cup {"other"}]
         /\ \A p \in Places : top'[p] \in mounted'[p] \/ (top'[p] = "other" /\ mounted'[p] = {})
         /\ \A p \in Places : mounted'[p] = mounted[p] \ {d \in Devices : <<d, p>> \in mounts}
         /\ \A p \in Places : mounted'[p] = mounted[p] => top'[p] = top[p]
<1>1. mounted' \in [Places -> SUBSET Devices]
  BY DEF Undo, IInv, Placed
<1>2. top' \in Tops(mounted')
  BY DEF Undo
<1>3. /\ top' \in [Places -> Devices \cup {"other"}]
      /\ \A p \in Places : top'[p] \in mounted'[p] \/ (top'[p] = "other" /\ mounted'[p] = {})
  BY <1>1, <1>2, TopsAreDevices
<1>4. ASSUME NEW p \in Places, mounted'[p] = mounted[p] PROVE top'[p] = top[p]
  BY <1>3, <1>4 DEF Undo, IInv, TypeOK
<1> QED
  BY <1>1, <1>3, <1>4 DEF Undo

(* Each step of the world is such a change. *)
LEMMA WorldKeepsIInv == IInv /\ World => IInv'
<1> SUFFICES ASSUME IInv, World PROVE IInv'
  OBVIOUS
<1>0. /\ mounted \in [Places -> SUBSET Devices] /\ top \in [Places -> Devices \cup {"other"}]
      /\ drives \subseteq Drives /\ plugged \subseteq Devices
      /\ \A p \in Places : mounted[p] \subseteq MayHold[p] \cap plugged
      /\ \A p \in Places : top[p] \in mounted[p] \/ (top[p] = "other" /\ mounted[p] = {})
      /\ \A d \in plugged : DriveOf[d] \in drives \cup {"none"}
  BY DEF IInv, TypeOK, Placed
<1>1. ASSUME NEW d \in Devices, NEW p \in Places, Mount(d, p) PROVE IInv'
  <2>1. /\ mounted' \in [Places -> SUBSET Devices] /\ top' \in [Places -> Devices \cup {"other"}]
        /\ \A q \in Places : mounted'[q] = IF q = p THEN mounted[q] \cup {d} ELSE mounted[q]
        /\ \A q \in Places : top'[q] = IF q = p THEN d ELSE top[q]
        /\ d \in plugged \cap MayHold[p]
    BY <1>0, <1>1 DEF Mount
  <2> QED
    BY <1>0, <1>1, <2>1, ChangeKeepsIInv DEF Mount
<1>2. ASSUME NEW p \in Places, Unmount(p) PROVE IInv'
  <2>1. Undo({<<top[p], p>>})
    BY <1>2 DEF Unmount
  <2>2. \A q \in Places : mounted'[q] = mounted[q] \ {d \in Devices : <<d, q>> \in {<<top[p], p>>}}
    BY <2>1, UndoIsLocal
  <2>3. \A q \in Places : q # p => mounted'[q] = mounted[q] /\ top'[q] = top[q]
    <3>1. \A q \in Places : q # p => mounted'[q] = mounted[q]
      BY <2>2
    <3> QED
      BY <2>1, <3>1, UndoIsLocal
  <2>4. \A q \in Places : mounted'[q] \subseteq MayHold[q] \cap plugged
    BY <1>0, <2>2
  <2>5. drives' = drives /\ plugged' = plugged /\ Change({p})
    BY <1>2 DEF Unmount
  <2> QED
    BY <1>0, <2>1, <2>3, <2>4, <2>5, UndoIsLocal, ChangeKeepsIInv
<1>3. ASSUME NEW d \in Devices, RemoveDevice(d) PROVE IInv'
  <2>1. /\ d \in plugged /\ plugged' = plugged \ {d} /\ drives' = drives
        /\ Undo({d} \X Places) /\ Change({d} \cup HeldBy({d}))
    BY <1>3 DEF RemoveDevice
  <2>2. \A p \in Places : mounted'[p] = mounted[p] \ {d}
    <3>1. \A p \in Places : mounted'[p] = mounted[p] \ {e \in Devices : <<e, p>> \in {d} \X Places}
      BY <2>1, UndoIsLocal
    <3> QED
      BY <1>0, <3>1
  <2>3. \A p \in Places : p \notin {d} \cup HeldBy({d}) => mounted'[p] = mounted[p] /\ top'[p] = top[p]
    <3>1. \A p \in Places : p \notin HeldBy({d}) => mounted'[p] = mounted[p]
      BY <2>2 DEF HeldBy
    <3> QED
      BY <2>1, <3>1, UndoIsLocal
  <2>4. {d} \cup HeldBy({d}) \subseteq Drives \cup Devices \cup Places
    BY DEF HeldBy
  <2>5. \A p \in Places : mounted'[p] \subseteq MayHold[p] \cap plugged'
    BY <1>0, <2>1, <2>2
  <2> QED
    BY <1>0, <2>1, <2>3, <2>4, <2>5, UndoIsLocal, ChangeKeepsIInv
<1>4. ASSUME NEW r \in Drives, RemoveDrive(r) PROVE IInv'
  <2> DEFINE gone == {d \in plugged : DriveOf[d] = r}
  <2>1. /\ r \in drives /\ drives' = drives \ {r} /\ plugged' = plugged \ gone
        /\ Undo(gone \X Places) /\ Change({r} \cup gone \cup HeldBy(gone))
    BY <1>4 DEF RemoveDrive
  <2>2. \A d \in plugged' : DriveOf[d] \in drives' \cup {"none"}
    BY <1>0, <2>1
  <2>3. gone \subseteq Devices
    BY <1>0
  <2> HIDE DEF gone
  <2>4. \A p \in Places : mounted'[p] = mounted[p] \ gone
    <3>1. \A p \in Places : mounted'[p] = mounted[p] \ {e \in Devices : <<e, p>> \in gone \X Places}
      BY <2>1, UndoIsLocal
    <3> QED
      BY <1>0, <2>3, <3>1
  <2>5. \A p \in Places : p \notin HeldBy(gone) => mounted'[p] = mounted[p] /\ top'[p] = top[p]
    <3>1. \A p \in Places : p \notin HeldBy(gone) => mounted'[p] = mounted[p]
      BY <2>4 DEF HeldBy
    <3> QED
      BY <2>1, <3>1, UndoIsLocal
  <2>6. {r} \cup gone \cup HeldBy(gone) \subseteq Drives \cup Devices \cup Places
    BY <2>3 DEF HeldBy
  <2>7. \A p \in Places : mounted'[p] \subseteq MayHold[p] \cap plugged'
    BY <1>0, <2>1, <2>4
  <2> QED
    BY <1>0, <2>1, <2>2, <2>5, <2>6, <2>7, UndoIsLocal, ChangeKeepsIInv
<1>5. ASSUME NEW r \in Drives, PlugIn(r) PROVE IInv'
  <2> DEFINE new == {d \in Devices : DriveOf[d] = r}
  <2>1. /\ drives' = drives \cup {r} /\ plugged' = plugged \cup new
        /\ mounted' = mounted /\ top' = top /\ Change({r} \cup new)
    BY <1>5 DEF PlugIn
  <2>2. \A d \in plugged' : DriveOf[d] \in drives' \cup {"none"}
    BY <1>0, <2>1
  <2> HIDE DEF new
  <2>3. new \subseteq Devices
    BY DEF new
  <2> QED
    BY <1>0, <2>1, <2>2, <2>3, ChangeKeepsIInv
<1> QED
  BY <1>1, <1>2, <1>3, <1>4, <1>5 DEF World

-----------------------------------------------------------------------------
(* The steps that list drives and devices and dump them one by one. *)
LEMMA ListingKeepsIInv ==
  ASSUME IInv,
         \/ ListDrives \/ ListDevices \/ ListFails \/ DumpFails \/ Measure
         \/ \E r \in Drives : DumpDrive(r)
  PROVE  IInv'
<1> USE DEF IInv, TypeOK, Placed, DrivesAccounted, DevicesAccounted, UsagesAccounted, Classified,
            worldVars, pageVars, List, NoUsages, IDs, IDOf
<1>1. CASE ListDrives
  BY <1>1 DEF ListDrives
<1>2. CASE ListDevices
  BY <1>2 DEF ListDevices
<1>3. CASE ListFails
  BY <1>3 DEF ListFails
<1>4. CASE DumpFails
  BY <1>4 DEF DumpFails
<1>5. CASE Measure
  BY <1>5 DEF Measure
<1>6. ASSUME NEW r \in Drives, DumpDrive(r) PROVE IInv'
  BY <1>6 DEF DumpDrive
<1> QED
  BY <1>1, <1>2, <1>3, <1>4, <1>5, <1>6

(* A device is noted with its mount points, or with none as an unread one. *)
LEMMA DumpKeepsIInv ==
  ASSUME IInv, NEW d \in Devices, DumpDevice(d) \/ DumpOverlooked(d)
  PROVE  IInv'
<1> USE DEF worldVars
<1>1. PICK mps \in SUBSET Places :
        /\ Dumped(d, mps)
        /\ \A p \in mps : d \in mounted[p]
        /\ \/ unread' = unread /\ \A p \in Places : d \in mounted[p] => p \in mps
           \/ unread' = unread \cup {d} /\ mps = {}
  BY DEF DumpDevice, DumpOverlooked, HeldBy
<1>2. /\ DOMAIN seen' = DOMAIN seen \cup {d}
      /\ \A e \in DOMAIN seen' : seen'[e] = IF e = d THEN mps ELSE seen[e]
  BY <1>1 DEF Dumped
<1>3. \A p \in mps : d \in MayHold[p]
  BY <1>1, DrivesAssumption DEF IInv, TypeOK
<1>4. TypeOK'
  BY <1>1, <1>2, <1>3 DEF IInv, TypeOK, Dumped
<1>5. Placed' /\ DrivesAccounted' /\ Classified'
  BY <1>1, <1>2 DEF IInv, Placed, DrivesAccounted, Classified, Dumped
<1>6. DevicesAccounted'
  <2>1. /\ \A e \in DOMAIN seen' : \A p \in seen'[e] \ touched : e \in mounted[p]
        /\ \A e \in unread' : e \in DOMAIN seen' /\ seen'[e] = {}
    <3>1. /\ unread \subseteq DOMAIN seen
          /\ \A e \in DOMAIN seen : \A p \in seen[e] \ touched : e \in mounted[p]
          /\ \A e \in unread : seen[e] = {}
      BY DEF IInv, TypeOK, DevicesAccounted
    <3>2. \A e \in DOMAIN seen' : \A p \in seen'[e] \ touched : e \in mounted[p]
      BY <1>1, <1>2, <3>1
    <3>3. d \notin unread
      BY <1>1, <3>1 DEF IInv, Placed, Dumped
    <3> QED
      BY <1>1, <1>2, <3>1, <3>2, <3>3
  <2>2. \A e \in plugged \ touched :
          \/ e \in left \ {d}
          \/ /\ e \in DOMAIN seen'
             /\ e \notin unread' => \A p \in Places \ touched : p \in seen'[e] <=> e \in mounted[p]
    BY <1>1, <1>2 DEF IInv, DevicesAccounted, Dumped
  <2> QED
    BY <1>1, <2>1, <2>2 DEF DevicesAccounted, Dumped
<1>7. UsagesAccounted'
  <2>1. usage' = NoUsages /\ pc' = "devices"
    BY <1>1 DEF IInv, UsagesAccounted, Dumped
  <2>2. ASSUME NEW e \in DOMAIN seen', NEW p \in seen'[e] PROVE usage'[<<IDOf(e), p>>] = "absent"
    <3>1. e \in Devices /\ p \in Places
      BY <1>4 DEF TypeOK
    <3> QED
      BY <2>1, <3>1 DEF NoUsages, IDs
  <2> QED
    BY <2>1, <2>2 DEF UsagesAccounted, NoUsages
<1> QED
  BY <1>4, <1>5, <1>6, <1>7 DEF IInv

(* A device's map is made, and the device is passed if it has no mounts.   *)
LEMMA BeginKeepsIInv == IInv /\ (BeginDevice \/ PassDevice) => IInv'
<1> SUFFICES ASSUME IInv, BeginDevice \/ PassDevice PROVE IInv'
  OBVIOUS
<1> USE DEF worldVars
<1>1. First \in left /\ left \subseteq DOMAIN seen /\ First \in Devices
  BY FirstIsLeft DEF IInv, TypeOK, Placed, BeginDevice, PassDevice
<1>2. usage' = [k \in DOMAIN usage |-> IF k[1] = IDOf(First) THEN "absent" ELSE usage[k]]
  BY DEF BeginDevice, PassDevice
<1>3. DOMAIN usage = IDs \X Places
  BY DEF IInv, TypeOK
<1>4. \A k \in IDs \X Places : usage'[k] \in {"absent", usage[k]}
  BY <1>2, <1>3
<1>5. usage' \in [IDs \X Places -> Devices \cup {"other", "zero", "absent"}]
  BY <1>2, <1>3 DEF IInv, TypeOK
<1>6. seen[First] \subseteq Places
  BY <1>1 DEF IInv, TypeOK
<1>7. TypeOK'
  BY <1>5, <1>6 DEF IInv, TypeOK, BeginDevice, PassDevice
<1>8. UsagesAccounted'
  <2>1. \A d \in DOMAIN seen : \A p \in seen[d] : <<IDOf(d), p>> \in IDs \X Places
    BY DEF IInv, TypeOK, IDs
  <2> QED
    BY <1>4, <2>1 DEF IInv, UsagesAccounted, BeginDevice, PassDevice
<1>9. Placed'
  <2>1. CASE BeginDevice
    <3>1. First' = First
      BY <2>1 DEF BeginDevice, First
    <3> QED
      BY <2>1, <3>1 DEF IInv, Placed, BeginDevice
  <2>2. CASE PassDevice
    BY <2>2 DEF IInv, Placed, PassDevice
  <2> QED
    BY <2>1, <2>2
<1>10. DrivesAccounted' /\ DevicesAccounted' /\ Classified'
  BY DEF IInv, DrivesAccounted, DevicesAccounted, Classified, BeginDevice, PassDevice
<1> QED
  BY <1>7, <1>8, <1>9, <1>10 DEF IInv

(* A usage is kept.  Two devices can share an entry, but what is on top of *)
(* a place that has not changed is the same for both.                      *)
LEMMA GetUsageKeepsIInv ==
  ASSUME IInv, NEW p \in Places, GetUsage(p)
  PROVE  IInv'
<1> USE DEF worldVars
<1>1. PICK u \in Statfs(p) : Keep(p, u)
  BY DEF GetUsage
<1>2. First \in left /\ left \subseteq DOMAIN seen /\ First \in Devices /\ p \in seen[First]
  BY <1>1, FirstIsLeft DEF IInv, TypeOK, Placed, Keep
<1>3. u \in Devices \cup {"other", "zero"}
  BY PlacesAssumption DEF Statfs, IInv, Placed
<1>4. p \notin touched => u \in {top[p], "zero"}
  <2>1. p \notin touched => mounted[p] # {}
    BY <1>2 DEF IInv, DevicesAccounted
  <2>2. p \notin touched => top[p] # "other"
    BY <2>1, DrivesAssumption DEF IInv, TypeOK
  <2> QED
    BY <2>2 DEF Statfs
<1>5. usage' = [usage EXCEPT ![<<IDOf(First), p>>] = u]
  BY <1>1 DEF Keep
<1>6. TypeOK'
  <2>1. usage' \in [IDs \X Places -> Devices \cup {"other", "zero", "absent"}]
    BY <1>3, <1>5 DEF IInv, TypeOK
  <2> QED
    BY <1>1, <2>1 DEF IInv, TypeOK, Keep
<1>7. Placed'
  <2>1. CASE rest = {p}
    BY <1>1, <2>1 DEF IInv, Placed, Keep
  <2>2. CASE rest # {p}
    <3>1. First' = First /\ left' = left /\ rest' \subseteq rest
      BY <1>1, <2>2 DEF Keep, First
    <3> QED
      BY <1>1, <3>1 DEF IInv, Placed, Keep
  <2> QED
    BY <2>1, <2>2
<1>8. UsagesAccounted'
  <2>1. pc' = "usages" /\ seen' = seen /\ touched' = touched /\ top' = top
    BY <1>1 DEF Keep
  <2>2. ASSUME NEW d \in DOMAIN seen, NEW q \in seen[d] \ touched
        PROVE  usage'[<<IDOf(d), q>>] \in {top[q], "zero", "absent"}
    <3>1. usage[<<IDOf(d), q>>] \in {top[q], "zero", "absent"}
      BY DEF IInv, UsagesAccounted
    <3>2. d \in Devices /\ q \in Places
      BY DEF IInv, TypeOK
    <3>3. <<IDOf(d), q>> \in DOMAIN usage
      BY <3>2 DEF IInv, TypeOK, IDs
    <3>4. CASE q = p
      BY <1>4, <1>5, <3>1, <3>3, <3>4
    <3>5. CASE q # p
      <4>1. <<IDOf(d), q>> # <<IDOf(First), p>>
        BY <3>5
      <4> QED
        BY <1>5, <3>1, <3>3, <4>1
    <3> QED
      BY <3>4, <3>5
  <2> QED
    BY <2>1, <2>2 DEF UsagesAccounted
<1>9. DrivesAccounted' /\ DevicesAccounted' /\ Classified'
  BY <1>1 DEF IInv, DrivesAccounted, DevicesAccounted, Classified, Keep
<1> QED
  BY <1>6, <1>7, <1>8, <1>9 DEF IInv

(* The division into system and removable drives keeps it, too. *)
LEMMA ClassifyKeepsIInv == IInv /\ Classify => IInv'
<1> SUFFICES ASSUME IInv, Classify PROVE IInv'
  OBVIOUS
<1> USE DEF Classify, worldVars
<1>1. TypeOK'
  BY DEF IInv, TypeOK
<1>2. Placed' /\ DrivesAccounted' /\ DevicesAccounted' /\ UsagesAccounted'
  BY DEF IInv, Placed, DrivesAccounted, DevicesAccounted, UsagesAccounted
<1>3. Classified'
  BY DEF Classified, IsSystem
<1> QED
  BY <1>1, <1>2, <1>3 DEF IInv

(* every step keeps it, *)
LEMMA NextIInv == IInv /\ [Next]_vars => IInv'
<1>1. ASSUME IInv, UNCHANGED vars PROVE IInv'
  <2>1. First' = First
    BY <1>1 DEF vars, First
  <2> QED
    BY <1>1, <2>1 DEF vars, worldVars, pageVars, IInv, TypeOK, Placed, DrivesAccounted,
                      DevicesAccounted, UsagesAccounted, Classified, IsSystem
<1> QED
  BY <1>1, WorldKeepsIInv, ListingKeepsIInv, DumpKeepsIInv, BeginKeepsIInv, GetUsageKeepsIInv,
     ClassifyKeepsIInv DEF Next, Reading

(* and so it holds in every state. *)
LEMMA Invariant == Spec => []IInv
BY InitIInv, NextIInv, PTL DEF Spec

-----------------------------------------------------------------------------
(* The world and the reading stay in states that the code knows. *)
THEOREM TypeCorrect == Spec => []TypeOK
<1>1. IInv => TypeOK
  BY DEF IInv
<1> QED
  BY <1>1, Invariant, PTL

(* A drive with a file system of the system that could be read and did not *)
(* change is never shown as one to be unplugged, and no drive is withheld  *)
(* from removal without a mount that explains it, however much changes     *)
(* during the reading and whatever cannot be read.                         *)
THEOREM SystemDrivesStay == Spec => []SystemDrivesAreKept
<1>1. IInv => SystemDrivesAreKept
  <2> SUFFICES ASSUME IInv, pc = "done" PROVE SystemDrivesAreKept
    BY DEF SystemDrivesAreKept
  <2>1. removable = {r \in shown : ~IsSystem(DriveID[r])}
    BY DEF IInv, Classified
  <2>2. ASSUME NEW p \in (SystemPlaces \cap Places) \ touched,
               NEW d \in mounted[p] \ (touched \cup unread)
        PROVE  DriveOf[d] \notin removable
    <3>1. d \in plugged \ touched /\ d \in Devices
      BY DEF IInv, TypeOK
    <3>2. d \in DOMAIN seen /\ p \in seen[d]
      BY <3>1 DEF IInv, DevicesAccounted
    <3>3. IsSystem(IDOf(d))
      BY <3>2 DEF IsSystem
    <3>4. CASE DriveOf[d] = "none"
      BY <3>4, DrivesAssumption DEF IInv, TypeOK
    <3>5. CASE DriveOf[d] # "none"
      BY <2>1, <3>3, <3>5 DEF IDOf
    <3> QED
      BY <3>4, <3>5
  <2>3. ASSUME NEW r \in shown \ removable
        PROVE  \E p \in (SystemPlaces \cap Places) :
                 p \in touched \/ \E d \in mounted[p] : IDOf(d) = DriveID[r]
    <3>1. PICK d \in DOMAIN seen : IDOf(d) = DriveID[r] /\ seen[d] \cap SystemPlaces # {}
      BY <2>1 DEF IsSystem
    <3>2. PICK p \in seen[d] : p \in SystemPlaces
      BY <3>1
    <3>3. p \in Places
      BY DEF IInv, TypeOK
    <3>4. p \in touched \/ d \in mounted[p]
      BY DEF IInv, DevicesAccounted
    <3> QED
      BY <3>1, <3>2, <3>3, <3>4
  <2> QED
    BY <2>2, <2>3 DEF SystemDrivesAreKept
<1> QED
  BY <1>1, Invariant, PTL

(* What does not change during the reading is shown as it is, but for the  *)
(* mounts of a device that could not be read, and whatever else changes.   *)
THEOREM UntouchedIsOnThePage == Spec => []UntouchedIsShown
<1>1. IInv => UntouchedIsShown
  BY DEF IInv, DrivesAccounted, DevicesAccounted, UsagesAccounted, UntouchedIsShown
<1> QED
  BY <1>1, Invariant, PTL
=============================================================================
