------------------------- MODULE NetworkPageProofs -------------------------
(* Theorems about NetworkPage for any devices, access points and profiles, *)
(* however often connections are made and lost during a reading.           *)
EXTENDS NetworkPage, FiniteSetTheorems, WellFoundedInduction, TLAPS

-----------------------------------------------------------------------------
(* What NetworkManager keeps true of its own state. *)
NMOK ==
  /\ present \subseteq Devs /\ configured \subseteq present
  /\ visible \subseteq AccessPoints /\ profiles \subseteq Profiles
  /\ active \in [Devs -> {NoPath} \cup Made]
  /\ \A d \in Devs : active[d] # NoPath => d \in present
  /\ \A d \in configured : active[d] # NoPath
  /\ profileOf \in [Activations -> Profiles \cup {None}] /\ changes \in 0..MaxChanges
  /\ \E n \in 0..MaxActivations : Made = 1..n

DevStages ==
  {"connection", "state", "config-path", "config", "available", "available-profiles", "wifi",
   "access-point"}
ListStages == DevStages \cup {"devices"}
AfterList == ListStages \cup {"profiles", "done"}
AfterScan == AfterList \cup {"list-devices"}
AfterPrimary == AfterScan \cup {"scan", "scanned"}

(* What the reader has is of the types that its stage needs. *)
ReaderOK ==
  /\ pc \in {"idle"} \cup Stages \cup Ends
  /\ path \in {NoPath} \cup Made /\ todo \subseteq Devs \cup Made
  /\ current \in Devs \cup Profiles \cup {None}
  /\ page \in [primary : Profiles \cup {None}, devices : SUBSET Devs, profiles : SUBSET Profiles,
               ssids : SUBSET AccessPoints, ap : [Devs -> AccessPoints \cup {None}],
               active : [Devs -> Profiles \cup {None}],
               state : [Devs -> {"activated", "prepare", "disconnected"}],
               config : [Devs -> BOOLEAN], available : [Devs -> SUBSET Profiles],
               activeOf : [Profiles -> BOOLEAN]]
  /\ pc \in ListStages => todo \subseteq Devs
  /\ pc \in DevStages \cup {"scan-device", "scanned-device"} => current \in Devs
  /\ pc \in {"profiles", "done"} => todo = {}
  /\ pc = "active" => todo \subseteq Made

(* Until something vanishes, whatever is still to be read is there. *)
NoLoss ==
  ~vanished =>
    /\ pc \in {"primary", "connection"} => path = NoPath \/ Exists(path)
    /\ pc = "config" => path = NoPath \/ ConfigExists(path)
    /\ pc \in ListStages => todo \subseteq present
    /\ pc \in DevStages => current \in present
    /\ pc = "available-profiles" => page.available[current] \subseteq profiles
    /\ pc = "access-point" => page.ap[current] \in visible \cup {None}
    /\ pc = "profiles" => page.profiles \subseteq profiles
    /\ pc \in {"scanned", "scanned-device"} => page.ssids \subseteq visible
    /\ pc = "profile" => current \in profiles
    /\ pc = "active" => \A a \in todo : Exists(a)

(* What the page says of a device has been true. *)
DeviceWas(d) ==
  /\ \E v \in seen : page.active[d] = v.active[d]
  /\ \E v \in seen : page.state[d] = v.state[d]
  /\ \E v \in seen : page.config[d] = v.config[d]
  /\ \E v \in seen : page.available[d] = v.available[d]
  /\ \E v \in seen : page.ap[d] = v.ap[d]

(* The device that is being read, as far as it has been. *)
CurrentWas ==
  /\ pc = "connection" => \E v \in seen : ProfileAt(path) = v.active[current]
  /\ pc \in DevStages \ {"connection"} => \E v \in seen : page.active[current] = v.active[current]
  /\ pc \in DevStages \ {"connection", "state"} =>
       \E v \in seen : page.state[current] = v.state[current]
  /\ pc = "config" => \E v \in seen : (path # NoPath) = v.config[current]
  /\ pc \in {"available", "available-profiles", "wifi", "access-point"} =>
       \E v \in seen : page.config[current] = v.config[current]
  /\ pc \in {"available-profiles", "wifi", "access-point"} =>
       \E v \in seen : page.available[current] = v.available[current]
  /\ pc = "access-point" => \E v \in seen : page.ap[current] = v.ap[current]

(* The page of the network, as far as it has been read. *)
PageWas ==
  /\ pc = "primary" => \E v \in seen : ProfileAt(path) = v.primary
  /\ pc \in AfterPrimary => \E v \in seen : page.primary = v.primary
  /\ pc = "scanned" => \E v \in seen : page.ssids = v.ssids
  /\ pc \in AfterScan =>
       ((vanished \/ errored) /\ page.ssids = {}) \/ \E v \in seen : page.ssids = v.ssids
  /\ pc \in AfterList => \E v \in seen : page.devices = v.devices
  /\ pc \in AfterList =>
       \A d \in page.devices : d \in todo \/ (pc \in DevStages /\ d = current) \/ DeviceWas(d)
  /\ pc \in {"profiles", "done"} => \E v \in seen : page.profiles = v.profiles

(* The other two pages. *)
OtherPagesWere ==
  /\ pc \in {"scanned-device", "listed"} => \E v \in seen : page.ssids = v.visible
  /\ pc \notin {"active", "shown"} => \A p \in Profiles : page.activeOf[p] = FALSE
  /\ pc = "active" =>
       \E v \in seen : \A p \in Profiles :
         v.activeOf[p] = (page.activeOf[p] \/ \E a \in todo : profileOf[a] = p)
  /\ ActivityWasTrue

(* The present is among what has been seen, and a device without Wi-Fi has *)
(* never had an access point.                                              *)
Seen ==
  /\ pc # "idle" => View \in seen
  /\ \A d \in Devs \ Wifis : page.ap[d] = None /\ \A v \in seen : v.ap[d] = None

IInv == NMOK /\ ReaderOK /\ NoLoss /\ Seen /\ PageWas /\ CurrentWas /\ OtherPagesWere

-----------------------------------------------------------------------------
(* The primary connection is the connection of a device, if there is one.  *)
LEMMA PrimaryIsActive ==
  ASSUME NMOK
  PROVE  PrimaryPath = NoPath \/ \E d \in configured : PrimaryPath = active[d]
<1> DEFINE Less == {ss \in Nat \X Nat : ss[1] < ss[2]}
           T == {active[d] : d \in configured}
<1>0. IsWellFoundedOn(Less, Nat)
  BY NatLessThanWellFounded DEF OpToRel
<1>1. CASE configured = {}
  BY <1>1 DEF PrimaryPath
<1>2. CASE configured # {}
  <2>1. T \subseteq Nat /\ T # {}
    BY <1>2, BoundsAssumption DEF NMOK, Made, Activations, NoPath
  <2>2. PICK m \in T : \A n \in T : ~(<<n, m>> \in Less)
    <3> HIDE DEF T, Less
    <3> QED
      BY <1>0, <2>1, WFMin
  <2>3. ASSUME NEW n \in T PROVE m <= n
    <3>1. n \in Nat /\ m \in Nat
      BY <2>1
    <3>2. n < m => <<n, m>> \in Less
      BY <3>1
    <3> QED
      BY <2>2, <3>1, <3>2
  <2>4. \E a \in T : \A e \in configured : a <= active[e]
    BY <2>3
  <2>5. (CHOOSE a \in T : \A e \in configured : a <= active[e]) \in T
    <3> HIDE DEF T
    <3> QED
      BY <2>4
  <2> QED
    BY <1>2, <2>5 DEF PrimaryPath
<1> QED
  BY <1>1, <1>2

(* A device's access point is in reach, and only Wi-Fi devices have one. *)
LEMMA AccessPointIsVisible ==
  \A d : AccessPoint(d) \in visible \cup {None} /\ (d \notin Wifis => AccessPoint(d) = None)
BY DEF AccessPoint

(* The parts of the view. *)
LEMMA ViewParts ==
  /\ View.primary = ProfileAt(PrimaryPath) /\ View.devices = present /\ View.profiles = profiles
  /\ View.visible = visible /\ View.ssids = IF Internet \in present THEN visible ELSE {}
  /\ \A d \in Devs : /\ View.ap[d] = AccessPoint(d)
                     /\ View.active[d] = ProfileAt(active[d])
                     /\ View.state[d] = State(d)
                     /\ View.config[d] = (d \in configured)
                     /\ View.available[d] = Fits[d] \cap profiles
  /\ \A p \in Profiles : View.activeOf[p] = \E d \in Devs : ProfileAt(active[d]) = p
BY DEF View

(* The view depends on nothing but the state of NetworkManager. *)
LEMMA ViewStays == UNCHANGED nmVars => View' = View
BY DEF nmVars, View, PrimaryPath, AccessPoint, State, ProfileAt

-----------------------------------------------------------------------------
(* The invariant holds before anything has happened. *)
LEMMA InitIInv == Init => IInv
<1> SUFFICES ASSUME Init PROVE IInv
  OBVIOUS
<1>1. Made = {} /\ Made = 1..0
  BY DEF Init, Made
<1>2. NMOK
  BY <1>1, BoundsAssumption, NoneAssumption, ProfilesAssumption DEF Init, NMOK
<1>3. ReaderOK
  BY DEF Init, ReaderOK, Blank, Stages, Ends, ListStages, DevStages
<1>4. NoLoss
  BY DEF Init, NoLoss, ListStages, DevStages
<1>5. Seen /\ PageWas /\ CurrentWas /\ OtherPagesWere
  BY DEF Init, Seen, PageWas, CurrentWas, OtherPagesWere, ActivityWasTrue, Blank, AfterPrimary,
         AfterScan, AfterList, ListStages, DevStages
<1> QED
  BY <1>2, <1>3, <1>4, <1>5 DEF IInv

(* A change adds what can then be seen, and either it is a loss or all     *)
(* that was there still is.                                                *)
LEMMA ChangeKeepsIInv ==
  ASSUME IInv, NMOK', Changes,
         \A a \in Made : profileOf'[a] = profileOf[a],
         ~vanished' => /\ ~vanished
                       /\ present \subseteq present' /\ visible \subseteq visible'
                       /\ profiles \subseteq profiles'
                       /\ \A a \in Made : (Exists(a) => Exists(a)') /\ (ConfigExists(a) => ConfigExists(a)')
  PROVE  IInv'
<1> USE DEF Changes, readerVars
<1>1. Made \subseteq Made'
  BY NoneAssumption DEF IInv, NMOK, Made
<1>2. seen \subseteq seen' /\ View' \in seen'
  OBVIOUS
<1>3. ProfileAt(path)' = ProfileAt(path)
  BY DEF IInv, ReaderOK, ProfileAt
<1>4. ReaderOK'
  BY <1>1 DEF IInv, ReaderOK
<1>5. NoLoss'
  BY <1>1 DEF IInv, ReaderOK, NoLoss, ListStages, DevStages
<1>6. Seen'
  <2>1. \A d \in Devs \ Wifis : View'.ap[d] = None
    <3>1. \A d \in Devs : View'.ap[d] = AccessPoint(d)'
      BY DEF View
    <3>2. \A d \in Devs \ Wifis : AccessPoint(d)' = None
      BY DEF AccessPoint
    <3> QED
      BY <3>1, <3>2
  <2> QED
    BY <1>2, <2>1 DEF IInv, Seen
<1>7. PageWas'
  <2>1. \A d : DeviceWas(d) => DeviceWas(d)'
    BY <1>2 DEF DeviceWas
  <2>2. vanished => vanished'
    OBVIOUS
  <2> QED
    BY <1>2, <1>3, <2>1, <2>2 DEF IInv, PageWas
<1>8. CurrentWas'
  BY <1>2, <1>3 DEF IInv, CurrentWas
<1>9. OtherPagesWere'
  <2>1. pc = "active" => \A p \in Profiles, a \in todo : (profileOf[a] = p <=> profileOf'[a] = p)
    BY DEF IInv, ReaderOK
  <2> QED
    BY <1>2, <2>1 DEF IInv, OtherPagesWere, ActivityWasTrue
<1> QED
  BY <1>4, <1>5, <1>6, <1>7, <1>8, <1>9 DEF IInv

(* Each step of NetworkManager is such a change. *)
LEMMA NetworkManagerKeepsIInv == IInv /\ NetworkManager => IInv'
<1> SUFFICES ASSUME IInv, NetworkManager PROVE IInv'
  OBVIOUS
<1>0. NMOK
  BY DEF IInv
<1> USE <1>0, BoundsAssumption, NoneAssumption, FitsAssumption
        DEF NMOK, Changes, Exists, ConfigExists, NoPath
<1>1. ASSUME NEW d \in Devs, Plug(d) PROVE IInv'
  <2>1. Made' = Made
    BY <1>1 DEF Plug, Made
  <2> QED
    BY <1>1, <2>1, ChangeKeepsIInv DEF Plug
<1>2. ASSUME NEW d \in Devs, Unplug(d) PROVE IInv'
  <2>1. Made' = Made
    BY <1>2 DEF Unplug, Made
  <2> QED
    BY <1>2, <2>1, ChangeKeepsIInv DEF Unplug
<1>3. ASSUME NEW d \in Devs, Configure(d) PROVE IInv'
  <2>1. Made' = Made
    BY <1>3 DEF Configure, Made
  <2>2. NMOK'
    BY <1>3, <2>1 DEF Configure
  <2>3. \A b \in Made : (Exists(b) => Exists(b)') /\ (ConfigExists(b) => ConfigExists(b)')
    BY <1>3 DEF Configure
  <2> QED
    BY <1>3, <2>1, <2>2, <2>3, ChangeKeepsIInv DEF Configure
<1>4. ASSUME NEW d \in Devs, Deactivate(d) PROVE IInv'
  <2>1. Made' = Made
    BY <1>4 DEF Deactivate, Made
  <2> QED
    BY <1>4, <2>1, ChangeKeepsIInv DEF Deactivate
<1>5. ASSUME NEW d \in Devs, NEW p \in Profiles, Activate(d, p) PROVE IInv'
  <2>1. PICK n \in 0..MaxActivations : Made = 1..n
    OBVIOUS
  <2>2. Cardinality(Made) = n
    BY <2>1, FS_Interval
  <2>3. PICK a \in Activations :
          /\ a = n + 1 /\ active' = [active EXCEPT ![d] = a]
          /\ profileOf' = [profileOf EXCEPT ![a] = p]
    BY <1>5, <2>2 DEF Activate
  <2>4. n \in Nat /\ a \notin Made
    BY <2>1, <2>3
  <2>5. Made' = Made \cup {a}
    BY <2>3 DEF Made
  <2>6. Made' = 1..(n + 1) /\ n + 1 \in 0..MaxActivations
    BY <2>1, <2>3, <2>4, <2>5 DEF Activations
  <2>7. NMOK'
    <3>1. active' \in [Devs -> {NoPath} \cup Made']
      BY <2>3, <2>5
    <3>2. \A e \in configured : active'[e] # NoPath
      BY <2>3, <2>4 DEF Activations
    <3> QED
      BY <1>5, <2>3, <2>6, <3>1, <3>2 DEF Activate
  <2>8. \A b \in Made : profileOf'[b] = profileOf[b]
    BY <2>3, <2>4 DEF Made
  <2>9. \A b \in Made : (Exists(b) => Exists(b)') /\ (ConfigExists(b) => ConfigExists(b)')
    <3>1. 0 \notin Made
      BY <2>1
    <3>2. active[d] = 0
      BY <1>5 DEF Activate
    <3>3. configured' = configured
      BY <1>5 DEF Activate
    <3> QED
      BY <2>3, <3>1, <3>2, <3>3
  <2> QED
    BY <1>5, <2>7, <2>8, <2>9, ChangeKeepsIInv DEF Activate
<1>6. ASSUME NEW ap \in AccessPoints, Reach(ap) PROVE IInv'
  <2>1. Made' = Made
    BY <1>6 DEF Reach, Made
  <2>2. NMOK'
    BY <1>6, <2>1 DEF Reach
  <2>3. ~vanished' => ~vanished /\ visible \subseteq visible'
    BY <1>6 DEF Reach
  <2> QED
    BY <1>6, <2>1, <2>2, <2>3, ChangeKeepsIInv DEF Reach
<1>7. ASSUME NEW p \in Profiles, AddProfile(p) PROVE IInv'
  <2>1. Made' = Made
    BY <1>7 DEF AddProfile, Made
  <2> QED
    BY <1>7, <2>1, ChangeKeepsIInv DEF AddProfile
<1>8. ASSUME NEW p \in Profiles, DeleteProfile(p) PROVE IInv'
  <2>1. Made' = Made
    BY <1>8 DEF DeleteProfile, Made
  <2> QED
    BY <1>8, <2>1, ChangeKeepsIInv DEF DeleteProfile
<1> QED
  BY <1>1, <1>2, <1>3, <1>4, <1>5, <1>6, <1>7, <1>8 DEF NetworkManager

-----------------------------------------------------------------------------
(* A step of the reading changes nothing that can be seen. *)
LEMMA SteadyFacts ==
  ASSUME IInv, UNCHANGED <<nmVars, seen, vanished>>
  PROVE  /\ NMOK' /\ View' = View /\ seen' = seen /\ vanished' = vanished
         /\ UNCHANGED <<nmVars, Made, PrimaryPath>>
         /\ \A d : UNCHANGED AccessPoint(d) /\ UNCHANGED State(d)
         /\ \A a \in {NoPath} \cup Made : ProfileAt(a) \in Profiles \cup {None}
         /\ \A a \in Made : profileOf[a] \in Profiles /\ ProfileAt(a) = profileOf[a] /\ a # NoPath
<1>1. NMOK' /\ View' = View /\ seen' = seen /\ vanished' = vanished
  BY ViewStays DEF nmVars, IInv, NMOK, Made
<1>2. /\ UNCHANGED <<nmVars, Made, PrimaryPath>>
      /\ \A d : UNCHANGED AccessPoint(d) /\ UNCHANGED State(d)
  BY DEF nmVars, Made, PrimaryPath, AccessPoint, State
<1>3. \A a \in Made : profileOf[a] \in Profiles /\ a # NoPath
  BY BoundsAssumption DEF IInv, NMOK, Made, Activations, NoPath
<1> QED
  BY <1>1, <1>2, <1>3 DEF ProfileAt

LEMMA ReadingFacts ==
  ASSUME IInv, Reading
  PROVE  /\ NMOK' /\ View' = View /\ UNCHANGED <<seen, vanished, errored>>
         /\ UNCHANGED <<nmVars, Made, PrimaryPath>>
         /\ \A d : UNCHANGED AccessPoint(d) /\ UNCHANGED State(d)
         /\ \A a \in {NoPath} \cup Made : ProfileAt(a) \in Profiles \cup {None}
         /\ \A a \in Made : profileOf[a] \in Profiles /\ ProfileAt(a) = profileOf[a] /\ a # NoPath
<1>1. UNCHANGED <<nmVars, seen, vanished, errored>>
  BY DEF Reading, historyVars
<1> QED
  BY <1>1, SteadyFacts

(* A reading that fails has nothing more to keep true. *)
LEMMA FailedKeepsIInv ==
  ASSUME IInv, UNCHANGED <<nmVars, seen, vanished, path, todo, current, page>>,
         pc \in Stages \ {"active"}, pc' \in {"failed", "not-found"}
  PROVE  IInv'
<1>0. NMOK' /\ View' = View /\ UNCHANGED <<nmVars, Made, seen, vanished>>
  BY SteadyFacts
<1> USE DEF ListStages, DevStages, AfterPrimary, AfterScan, AfterList, Stages, Ends
<1>1. ReaderOK'
  BY <1>0 DEF IInv, ReaderOK
<1>2. NoLoss' /\ PageWas' /\ CurrentWas'
  BY DEF NoLoss, PageWas, CurrentWas
<1>3. Seen'
  BY <1>0 DEF IInv, Seen
<1>4. OtherPagesWere'
  <2>1. \A p \in Profiles : page.activeOf[p] = FALSE
    BY DEF IInv, OtherPagesWere
  <2> QED
    BY <2>1 DEF OtherPagesWere, ActivityWasTrue
<1> QED
  BY <1>0, <1>1, <1>2, <1>3, <1>4 DEF IInv

(* The network's page goes on without names, *)
LEMMA NoNamesKeepsIInv ==
  ASSUME IInv, UNCHANGED <<nmVars, seen, vanished>>, pc \in {"scan", "scanned"}, NoNames,
         vanished \/ errored' \/ Internet \notin present
  PROVE  IInv'
<1>0. NMOK' /\ View' = View /\ UNCHANGED <<nmVars, Made, seen, vanished>>
  BY SteadyFacts
<1> USE DEF ListStages, DevStages, AfterPrimary, AfterScan, AfterList, Stages, Ends
<1>1. ReaderOK'
  BY <1>0 DEF NoNames, IInv, ReaderOK
<1>2. NoLoss' /\ CurrentWas'
  BY DEF NoNames, NoLoss, CurrentWas
<1>3. Seen'
  BY <1>0 DEF NoNames, IInv, Seen, ReaderOK
<1>4. PageWas'
  <2>1. page' = [page EXCEPT !.ssids = {}] /\ page'.primary = page.primary /\ page'.ssids = {}
    BY DEF NoNames, IInv, ReaderOK
  <2>2. Internet \notin present => \E v \in seen : v.ssids = {}
    BY ViewParts DEF IInv, Seen
  <2> QED
    BY <1>0, <2>1, <2>2 DEF NoNames, IInv, PageWas
<1>5. OtherPagesWere'
  BY <1>0 DEF NoNames, IInv, OtherPagesWere, ActivityWasTrue, ReaderOK
<1> QED
  BY <1>0, <1>1, <1>2, <1>3, <1>4, <1>5 DEF IInv

(* a profile's page goes on without activity,                              *)
LEMMA NoActivityKeepsIInv ==
  ASSUME IInv, UNCHANGED <<nmVars, seen, vanished>>, pc \in {"list-active", "active"}, NoActivity,
         vanished \/ errored'
  PROVE  IInv'
<1>0. NMOK' /\ View' = View /\ UNCHANGED <<nmVars, Made, seen, vanished>>
  BY SteadyFacts
<1> USE DEF ListStages, DevStages, AfterPrimary, AfterScan, AfterList, Stages, Ends
<1>1. ReaderOK'
  BY <1>0 DEF NoActivity, IInv, ReaderOK, Blank
<1>2. NoLoss' /\ CurrentWas' /\ PageWas'
  BY DEF NoActivity, NoLoss, CurrentWas, PageWas
<1>3. Seen'
  BY <1>0 DEF NoActivity, IInv, Seen, ReaderOK
<1>4. OtherPagesWere'
  <2>1. pc' = "shown" /\ \A p \in Profiles : page'.activeOf[p] = FALSE
    BY DEF NoActivity, Blank, IInv, ReaderOK
  <2> QED
    BY <1>0, <2>1 DEF OtherPagesWere, ActivityWasTrue
<1> QED
  BY <1>0, <1>1, <1>2, <1>3, <1>4 DEF IInv

(* and one or the other, or the end of the reading, comes of an error.     *)
LEMMA ErrorsKeepIInv == IInv /\ CallErrs => IInv'
<1> SUFFICES ASSUME IInv, CallErrs PROVE IInv'
  OBVIOUS
<1>1. UNCHANGED <<nmVars, seen, vanished>> /\ errored' /\ pc \in Stages
  BY DEF CallErrs
<1>2. CASE pc \in {"scan", "scanned"} /\ NoNames
  BY <1>1, <1>2, NoNamesKeepsIInv
<1>3. CASE pc \in {"list-active", "active"} /\ NoActivity
  BY <1>1, <1>3, NoActivityKeepsIInv
<1>4. CASE pc' = "failed" /\ UNCHANGED <<path, todo, current, page>>
            /\ pc \notin {"list-active", "active"}
  BY <1>1, <1>4, FailedKeepsIInv
<1> QED
  BY <1>2, <1>3, <1>4 DEF CallErrs

(* The invariant survives the steps of the network's page up to its        *)
(* devices, and those after them.                                          *)
LEMMA PrimaryAndNames ==
  ASSUME IInv,
         \/ ReadPrimary
         \/ PrimaryLost
         \/ ListAccessPoints("scan", "scanned", Internet)
         \/ ReadAccessPoints("scanned", "list-devices")
         \/ AccessPointsUnknown
         \/ ListDevices
         \/ ListProfiles
         \/ ReadProfiles
         \/ ProfilesLost
  PROVE  IInv'
<1>0. Reading
  BY DEF ReadPrimary, PrimaryLost, ListAccessPoints, ReadAccessPoints, AccessPointsUnknown,
         ListDevices, ListProfiles, ReadProfiles, ProfilesLost, Lost
<1> USE DEF ListStages, DevStages, AfterPrimary, AfterScan, AfterList, Stages, Ends
<1>1. ASSUME ReadPrimary PROVE IInv'
  <2>1. ReaderOK'
    BY <1>0, <1>1, ReadingFacts, AccessPointIsVisible, FitsAssumption
       DEF ReadPrimary, Goto, nmVars, IInv, ReaderOK, NMOK, State, Blank
  <2>2. NoLoss'
    BY <1>0, <1>1, ReadingFacts, AccessPointIsVisible
       DEF ReadPrimary, Goto, nmVars, IInv, NoLoss, ReaderOK, NMOK, Exists, ConfigExists
  <2>3. Seen'
    BY <1>0, <1>1, ReadingFacts, AccessPointIsVisible
       DEF ReadPrimary, Goto, nmVars, IInv, Seen, ReaderOK
  <2>4. PageWas'
    BY <1>0, <1>1, ReadingFacts, ViewParts
       DEF ReadPrimary, Goto, nmVars, IInv, PageWas, ReaderOK, Seen, DeviceWas, CurrentWas,
           ProfileAt, NoLoss
  <2>5. CurrentWas'
    BY <1>0, <1>1, ReadingFacts, ViewParts
       DEF ReadPrimary, Goto, nmVars, IInv, CurrentWas, ReaderOK, Seen, ProfileAt, NMOK
  <2>6. OtherPagesWere'
    BY <1>0, <1>1, ReadingFacts, ViewParts
       DEF ReadPrimary, Goto, nmVars, IInv, OtherPagesWere, ActivityWasTrue, ReaderOK, Seen,
           NoLoss, NMOK, ProfileAt, Exists, Blank
  <2> QED
    BY <1>0, ReadingFacts, <2>1, <2>2, <2>3, <2>4, <2>5, <2>6 DEF IInv
<1>2. ASSUME PrimaryLost PROVE IInv'
  <2>1. /\ UNCHANGED <<nmVars, seen, vanished, path, todo, current, page>>
        /\ pc \in Stages \ {"active"} /\ pc' = "failed"
    BY <1>0, <1>2, ReadingFacts DEF PrimaryLost, Lost
  <2> QED
    BY <2>1, FailedKeepsIInv
<1>3. ASSUME ListAccessPoints("scan", "scanned", Internet) PROVE IInv'
  <2>1. ReaderOK'
    BY <1>0, <1>3, ReadingFacts, AccessPointIsVisible, FitsAssumption
       DEF ListAccessPoints, nmVars, IInv, ReaderOK, NMOK, State, Blank
  <2>2. NoLoss'
    BY <1>0, <1>3, ReadingFacts, AccessPointIsVisible
       DEF ListAccessPoints, nmVars, IInv, NoLoss, ReaderOK, NMOK, Exists, ConfigExists
  <2>3. Seen'
    BY <1>0, <1>3, ReadingFacts, AccessPointIsVisible
       DEF ListAccessPoints, nmVars, IInv, Seen, ReaderOK
  <2>4. PageWas'
    BY <1>0, <1>3, ReadingFacts, ViewParts
       DEF ListAccessPoints, nmVars, IInv, PageWas, ReaderOK, Seen, DeviceWas, CurrentWas,
           ProfileAt, NoLoss
  <2>5. CurrentWas'
    BY <1>0, <1>3, ReadingFacts, ViewParts
       DEF ListAccessPoints, nmVars, IInv, CurrentWas, ReaderOK, Seen, ProfileAt, NMOK
  <2>6. OtherPagesWere'
    BY <1>0, <1>3, ReadingFacts, ViewParts
       DEF ListAccessPoints, nmVars, IInv, OtherPagesWere, ActivityWasTrue, ReaderOK, Seen,
           NoLoss, NMOK, ProfileAt, Exists, Blank
  <2> QED
    BY <1>0, ReadingFacts, <2>1, <2>2, <2>3, <2>4, <2>5, <2>6 DEF IInv
<1>4. ASSUME ReadAccessPoints("scanned", "list-devices") PROVE IInv'
  <2>1. ReaderOK'
    BY <1>0, <1>4, ReadingFacts, AccessPointIsVisible, FitsAssumption
       DEF ReadAccessPoints, nmVars, IInv, ReaderOK, NMOK, State, Blank
  <2>2. NoLoss'
    BY <1>0, <1>4, ReadingFacts, AccessPointIsVisible
       DEF ReadAccessPoints, nmVars, IInv, NoLoss, ReaderOK, NMOK, Exists, ConfigExists
  <2>3. Seen'
    BY <1>0, <1>4, ReadingFacts, AccessPointIsVisible
       DEF ReadAccessPoints, nmVars, IInv, Seen, ReaderOK
  <2>4. PageWas'
    BY <1>0, <1>4, ReadingFacts, ViewParts
       DEF ReadAccessPoints, nmVars, IInv, PageWas, ReaderOK, Seen, DeviceWas, CurrentWas,
           ProfileAt, NoLoss
  <2>5. CurrentWas'
    BY <1>0, <1>4, ReadingFacts, ViewParts
       DEF ReadAccessPoints, nmVars, IInv, CurrentWas, ReaderOK, Seen, ProfileAt, NMOK
  <2>6. OtherPagesWere'
    BY <1>0, <1>4, ReadingFacts, ViewParts
       DEF ReadAccessPoints, nmVars, IInv, OtherPagesWere, ActivityWasTrue, ReaderOK, Seen,
           NoLoss, NMOK, ProfileAt, Exists, Blank
  <2> QED
    BY <1>0, ReadingFacts, <2>1, <2>2, <2>3, <2>4, <2>5, <2>6 DEF IInv
<1>5. ASSUME AccessPointsUnknown PROVE IInv'
  <2>1. vanished \/ Internet \notin present
    BY <1>5 DEF AccessPointsUnknown, IInv, NoLoss
  <2>2. UNCHANGED <<nmVars, seen, vanished>> /\ pc \in {"scan", "scanned"} /\ NoNames
    BY <1>0, <1>5, ReadingFacts DEF AccessPointsUnknown
  <2> QED
    BY <2>1, <2>2, NoNamesKeepsIInv
<1>6. ASSUME ListDevices PROVE IInv'
  <2>1. ReaderOK'
    BY <1>0, <1>6, ReadingFacts, AccessPointIsVisible, FitsAssumption
       DEF ListDevices, Goto, nmVars, IInv, ReaderOK, NMOK, State, Blank
  <2>2. NoLoss'
    BY <1>0, <1>6, ReadingFacts, AccessPointIsVisible
       DEF ListDevices, Goto, nmVars, IInv, NoLoss, ReaderOK, NMOK, Exists, ConfigExists
  <2>3. Seen'
    BY <1>0, <1>6, ReadingFacts, AccessPointIsVisible
       DEF ListDevices, Goto, nmVars, IInv, Seen, ReaderOK
  <2>4. PageWas'
    BY <1>0, <1>6, ReadingFacts, ViewParts
       DEF ListDevices, Goto, nmVars, IInv, PageWas, ReaderOK, Seen, DeviceWas, CurrentWas,
           ProfileAt, NoLoss
  <2>5. CurrentWas'
    BY <1>0, <1>6, ReadingFacts, ViewParts
       DEF ListDevices, Goto, nmVars, IInv, CurrentWas, ReaderOK, Seen, ProfileAt, NMOK
  <2>6. OtherPagesWere'
    BY <1>0, <1>6, ReadingFacts, ViewParts
       DEF ListDevices, Goto, nmVars, IInv, OtherPagesWere, ActivityWasTrue, ReaderOK, Seen,
           NoLoss, NMOK, ProfileAt, Exists, Blank
  <2> QED
    BY <1>0, ReadingFacts, <2>1, <2>2, <2>3, <2>4, <2>5, <2>6 DEF IInv
<1>7. ASSUME ListProfiles PROVE IInv'
  <2>1. ReaderOK'
    BY <1>0, <1>7, ReadingFacts, AccessPointIsVisible, FitsAssumption
       DEF ListProfiles, Goto, nmVars, IInv, ReaderOK, NMOK, State, Blank
  <2>2. NoLoss'
    BY <1>0, <1>7, ReadingFacts, AccessPointIsVisible
       DEF ListProfiles, Goto, nmVars, IInv, NoLoss, ReaderOK, NMOK, Exists, ConfigExists
  <2>3. Seen'
    BY <1>0, <1>7, ReadingFacts, AccessPointIsVisible
       DEF ListProfiles, Goto, nmVars, IInv, Seen, ReaderOK
  <2>4. PageWas'
    BY <1>0, <1>7, ReadingFacts, ViewParts
       DEF ListProfiles, Goto, nmVars, IInv, PageWas, ReaderOK, Seen, DeviceWas, CurrentWas,
           ProfileAt, NoLoss
  <2>5. CurrentWas'
    BY <1>0, <1>7, ReadingFacts, ViewParts
       DEF ListProfiles, Goto, nmVars, IInv, CurrentWas, ReaderOK, Seen, ProfileAt, NMOK
  <2>6. OtherPagesWere'
    BY <1>0, <1>7, ReadingFacts, ViewParts
       DEF ListProfiles, Goto, nmVars, IInv, OtherPagesWere, ActivityWasTrue, ReaderOK, Seen,
           NoLoss, NMOK, ProfileAt, Exists, Blank
  <2> QED
    BY <1>0, ReadingFacts, <2>1, <2>2, <2>3, <2>4, <2>5, <2>6 DEF IInv
<1>8. ASSUME ReadProfiles PROVE IInv'
  <2>1. ReaderOK'
    BY <1>0, <1>8, ReadingFacts, AccessPointIsVisible, FitsAssumption
       DEF ReadProfiles, Readable, Goto, nmVars, IInv, ReaderOK, NMOK, State, Blank
  <2>2. NoLoss'
    BY <1>0, <1>8, ReadingFacts, AccessPointIsVisible
       DEF ReadProfiles, Readable, Goto, nmVars, IInv, NoLoss, ReaderOK, NMOK, Exists, ConfigExists
  <2>3. Seen'
    BY <1>0, <1>8, ReadingFacts, AccessPointIsVisible
       DEF ReadProfiles, Readable, Goto, nmVars, IInv, Seen, ReaderOK
  <2>4. PageWas'
    BY <1>0, <1>8, ReadingFacts, ViewParts
       DEF ReadProfiles, Readable, Goto, nmVars, IInv, PageWas, ReaderOK, Seen, DeviceWas, CurrentWas,
           ProfileAt, NoLoss
  <2>5. CurrentWas'
    BY <1>0, <1>8, ReadingFacts, ViewParts
       DEF ReadProfiles, Readable, Goto, nmVars, IInv, CurrentWas, ReaderOK, Seen, ProfileAt, NMOK
  <2>6. OtherPagesWere'
    BY <1>0, <1>8, ReadingFacts, ViewParts
       DEF ReadProfiles, Readable, Goto, nmVars, IInv, OtherPagesWere, ActivityWasTrue, ReaderOK, Seen,
           NoLoss, NMOK, ProfileAt, Exists, Blank
  <2> QED
    BY <1>0, ReadingFacts, <2>1, <2>2, <2>3, <2>4, <2>5, <2>6 DEF IInv
<1>9. ASSUME ProfilesLost PROVE IInv'
  <2>1. /\ UNCHANGED <<nmVars, seen, vanished, path, todo, current, page>>
        /\ pc \in Stages \ {"active"} /\ pc' = "failed"
    BY <1>0, <1>9, ReadingFacts DEF ProfilesLost, Lost
  <2> QED
    BY <2>1, FailedKeepsIInv
<1> QED
  BY <1>1, <1>2, <1>3, <1>4, <1>5, <1>6, <1>7, <1>8, <1>9

(* It survives the reading of a device, of its connection, of its state    *)
(* and of its configuration,                                               *)
LEMMA DeviceConnection ==
  ASSUME IInv,
         \/ \E d \in Devs : ReadDevice(d)
         \/ \E d \in Devs : DeviceLost(d)
         \/ ReadActiveConn
         \/ ActiveConnLost
         \/ ReadState
         \/ ReadConfigPath
         \/ ReadConfig
         \/ ConfigLost
  PROVE  IInv'
<1>0. Reading
  BY DEF ReadDevice, DeviceLost, ReadActiveConn, ActiveConnLost, ReadState, ReadConfigPath,
         ReadConfig, ConfigLost, Lost
<1> USE DEF ListStages, DevStages, AfterPrimary, AfterScan, AfterList, Stages, Ends
<1>1. ASSUME NEW d \in Devs, ReadDevice(d) PROVE IInv'
  <2>1. ReaderOK'
    BY <1>0, <1>1, ReadingFacts, AccessPointIsVisible, FitsAssumption
       DEF ReadDevice, Goto, nmVars, IInv, ReaderOK, NMOK, State, Blank
  <2>2. NoLoss'
    BY <1>0, <1>1, ReadingFacts, AccessPointIsVisible
       DEF ReadDevice, Goto, nmVars, IInv, NoLoss, ReaderOK, NMOK, Exists, ConfigExists
  <2>3. Seen'
    BY <1>0, <1>1, ReadingFacts, AccessPointIsVisible
       DEF ReadDevice, Goto, nmVars, IInv, Seen, ReaderOK
  <2>4. PageWas'
    BY <1>0, <1>1, ReadingFacts, ViewParts
       DEF ReadDevice, Goto, nmVars, IInv, PageWas, ReaderOK, Seen, DeviceWas, CurrentWas,
           ProfileAt, NoLoss
  <2>5. CurrentWas'
    BY <1>0, <1>1, ReadingFacts, ViewParts
       DEF ReadDevice, Goto, nmVars, IInv, CurrentWas, ReaderOK, Seen, ProfileAt, NMOK
  <2>6. OtherPagesWere'
    BY <1>0, <1>1, ReadingFacts, ViewParts
       DEF ReadDevice, Goto, nmVars, IInv, OtherPagesWere, ActivityWasTrue, ReaderOK, Seen,
           NoLoss, NMOK, ProfileAt, Exists, Blank
  <2> QED
    BY <1>0, ReadingFacts, <2>1, <2>2, <2>3, <2>4, <2>5, <2>6 DEF IInv
<1>2. ASSUME NEW d \in Devs, DeviceLost(d) PROVE IInv'
  <2>1. /\ UNCHANGED <<nmVars, seen, vanished, path, todo, current, page>>
        /\ pc \in Stages \ {"active"} /\ pc' = "failed"
    BY <1>0, <1>2, ReadingFacts DEF DeviceLost, Lost
  <2> QED
    BY <2>1, FailedKeepsIInv
<1>3. ASSUME ReadActiveConn PROVE IInv'
  <2>1. ReaderOK'
    BY <1>0, <1>3, ReadingFacts, AccessPointIsVisible, FitsAssumption
       DEF ReadActiveConn, Goto, nmVars, IInv, ReaderOK, NMOK, State, Blank
  <2>2. NoLoss'
    BY <1>0, <1>3, ReadingFacts, AccessPointIsVisible
       DEF ReadActiveConn, Goto, nmVars, IInv, NoLoss, ReaderOK, NMOK, Exists, ConfigExists
  <2>3. Seen'
    BY <1>0, <1>3, ReadingFacts, AccessPointIsVisible
       DEF ReadActiveConn, Goto, nmVars, IInv, Seen, ReaderOK
  <2>4. PageWas'
    BY <1>0, <1>3, ReadingFacts, ViewParts
       DEF ReadActiveConn, Goto, nmVars, IInv, PageWas, ReaderOK, Seen, DeviceWas, CurrentWas,
           ProfileAt, NoLoss
  <2>5. CurrentWas'
    BY <1>0, <1>3, ReadingFacts, ViewParts
       DEF ReadActiveConn, Goto, nmVars, IInv, CurrentWas, ReaderOK, Seen, ProfileAt, NMOK
  <2>6. OtherPagesWere'
    BY <1>0, <1>3, ReadingFacts, ViewParts
       DEF ReadActiveConn, Goto, nmVars, IInv, OtherPagesWere, ActivityWasTrue, ReaderOK, Seen,
           NoLoss, NMOK, ProfileAt, Exists, Blank
  <2> QED
    BY <1>0, ReadingFacts, <2>1, <2>2, <2>3, <2>4, <2>5, <2>6 DEF IInv
<1>4. ASSUME ActiveConnLost PROVE IInv'
  <2>1. /\ UNCHANGED <<nmVars, seen, vanished, path, todo, current, page>>
        /\ pc \in Stages \ {"active"} /\ pc' = "failed"
    BY <1>0, <1>4, ReadingFacts DEF ActiveConnLost, Lost
  <2> QED
    BY <2>1, FailedKeepsIInv
<1>5. ASSUME ReadState PROVE IInv'
  <2>1. ReaderOK'
    BY <1>0, <1>5, ReadingFacts, AccessPointIsVisible, FitsAssumption
       DEF ReadState, Goto, nmVars, IInv, ReaderOK, NMOK, State, Blank
  <2>2. NoLoss'
    BY <1>0, <1>5, ReadingFacts, AccessPointIsVisible
       DEF ReadState, Goto, nmVars, IInv, NoLoss, ReaderOK, NMOK, Exists, ConfigExists
  <2>3. Seen'
    BY <1>0, <1>5, ReadingFacts, AccessPointIsVisible
       DEF ReadState, Goto, nmVars, IInv, Seen, ReaderOK
  <2>4. PageWas'
    BY <1>0, <1>5, ReadingFacts, ViewParts
       DEF ReadState, Goto, nmVars, IInv, PageWas, ReaderOK, Seen, DeviceWas, CurrentWas,
           ProfileAt, NoLoss
  <2>5. CurrentWas'
    BY <1>0, <1>5, ReadingFacts, ViewParts
       DEF ReadState, Goto, nmVars, IInv, CurrentWas, ReaderOK, Seen, ProfileAt, NMOK
  <2>6. OtherPagesWere'
    BY <1>0, <1>5, ReadingFacts, ViewParts
       DEF ReadState, Goto, nmVars, IInv, OtherPagesWere, ActivityWasTrue, ReaderOK, Seen,
           NoLoss, NMOK, ProfileAt, Exists, Blank
  <2> QED
    BY <1>0, ReadingFacts, <2>1, <2>2, <2>3, <2>4, <2>5, <2>6 DEF IInv
<1>6. ASSUME ReadConfigPath PROVE IInv'
  <2>1. ReaderOK'
    BY <1>0, <1>6, ReadingFacts, AccessPointIsVisible, FitsAssumption
       DEF ReadConfigPath, Goto, nmVars, IInv, ReaderOK, NMOK, State, Blank
  <2>2. NoLoss'
    BY <1>0, <1>6, ReadingFacts, AccessPointIsVisible
       DEF ReadConfigPath, Goto, nmVars, IInv, NoLoss, ReaderOK, NMOK, Exists, ConfigExists
  <2>3. Seen'
    BY <1>0, <1>6, ReadingFacts, AccessPointIsVisible
       DEF ReadConfigPath, Goto, nmVars, IInv, Seen, ReaderOK
  <2>4. PageWas'
    BY <1>0, <1>6, ReadingFacts, ViewParts
       DEF ReadConfigPath, Goto, nmVars, IInv, PageWas, ReaderOK, Seen, DeviceWas, CurrentWas,
           ProfileAt, NoLoss
  <2>5. CurrentWas'
    BY <1>0, <1>6, ReadingFacts, ViewParts
       DEF ReadConfigPath, Goto, nmVars, IInv, CurrentWas, ReaderOK, Seen, ProfileAt, NMOK
  <2>6. OtherPagesWere'
    BY <1>0, <1>6, ReadingFacts, ViewParts
       DEF ReadConfigPath, Goto, nmVars, IInv, OtherPagesWere, ActivityWasTrue, ReaderOK, Seen,
           NoLoss, NMOK, ProfileAt, Exists, Blank
  <2> QED
    BY <1>0, ReadingFacts, <2>1, <2>2, <2>3, <2>4, <2>5, <2>6 DEF IInv
<1>7. ASSUME ReadConfig PROVE IInv'
  <2>1. ReaderOK'
    BY <1>0, <1>7, ReadingFacts, AccessPointIsVisible, FitsAssumption
       DEF ReadConfig, Goto, nmVars, IInv, ReaderOK, NMOK, State, Blank
  <2>2. NoLoss'
    BY <1>0, <1>7, ReadingFacts, AccessPointIsVisible
       DEF ReadConfig, Goto, nmVars, IInv, NoLoss, ReaderOK, NMOK, Exists, ConfigExists
  <2>3. Seen'
    BY <1>0, <1>7, ReadingFacts, AccessPointIsVisible
       DEF ReadConfig, Goto, nmVars, IInv, Seen, ReaderOK
  <2>4. PageWas'
    BY <1>0, <1>7, ReadingFacts, ViewParts
       DEF ReadConfig, Goto, nmVars, IInv, PageWas, ReaderOK, Seen, DeviceWas, CurrentWas,
           ProfileAt, NoLoss
  <2>5. CurrentWas'
    BY <1>0, <1>7, ReadingFacts, ViewParts
       DEF ReadConfig, Goto, nmVars, IInv, CurrentWas, ReaderOK, Seen, ProfileAt, NMOK
  <2>6. OtherPagesWere'
    BY <1>0, <1>7, ReadingFacts, ViewParts
       DEF ReadConfig, Goto, nmVars, IInv, OtherPagesWere, ActivityWasTrue, ReaderOK, Seen,
           NoLoss, NMOK, ProfileAt, Exists, Blank
  <2> QED
    BY <1>0, ReadingFacts, <2>1, <2>2, <2>3, <2>4, <2>5, <2>6 DEF IInv
<1>8. ASSUME ConfigLost PROVE IInv'
  <2>1. /\ UNCHANGED <<nmVars, seen, vanished, path, todo, current, page>>
        /\ pc \in Stages \ {"active"} /\ pc' = "failed"
    BY <1>0, <1>8, ReadingFacts DEF ConfigLost, Lost
  <2> QED
    BY <2>1, FailedKeepsIInv
<1> QED
  BY <1>1, <1>2, <1>3, <1>4, <1>5, <1>6, <1>7, <1>8

(* of the profiles it can use and of its access point,                     *)
LEMMA DeviceProfiles ==
  ASSUME IInv,
         \/ ListAvailable
         \/ ReadAvailable
         \/ AvailableLost
         \/ ReadAccessPointPath
         \/ ReadAccessPoint
         \/ AccessPointLost
         \/ CurrentLost
  PROVE  IInv'
<1>0. Reading
  BY DEF ListAvailable, ReadAvailable, AvailableLost, ReadAccessPointPath, ReadAccessPoint,
         AccessPointLost, CurrentLost, Lost
<1> USE DEF ListStages, DevStages, AfterPrimary, AfterScan, AfterList, Stages, Ends
<1>1. ASSUME ListAvailable PROVE IInv'
  <2>1. ReaderOK'
    BY <1>0, <1>1, ReadingFacts, AccessPointIsVisible, FitsAssumption
       DEF ListAvailable, Goto, nmVars, IInv, ReaderOK, NMOK, State, Blank
  <2>2. NoLoss'
    BY <1>0, <1>1, ReadingFacts, AccessPointIsVisible
       DEF ListAvailable, Goto, nmVars, IInv, NoLoss, ReaderOK, NMOK, Exists, ConfigExists
  <2>3. Seen'
    BY <1>0, <1>1, ReadingFacts, AccessPointIsVisible
       DEF ListAvailable, Goto, nmVars, IInv, Seen, ReaderOK
  <2>4. PageWas'
    BY <1>0, <1>1, ReadingFacts, ViewParts
       DEF ListAvailable, Goto, nmVars, IInv, PageWas, ReaderOK, Seen, DeviceWas, CurrentWas,
           ProfileAt, NoLoss
  <2>5. CurrentWas'
    <3>1. current \in Devs /\ seen' = seen /\ current' = current /\ View \in seen
      BY <1>0, <1>1, ReadingFacts DEF ListAvailable, Goto, IInv, ReaderOK, Seen
    <3>2. /\ \E v \in seen : page.active[current] = v.active[current]
          /\ \E v \in seen : page.state[current] = v.state[current]
          /\ \E v \in seen : page.config[current] = v.config[current]
      BY <1>1 DEF ListAvailable, Goto, IInv, CurrentWas
    <3>3. page'.available[current] = View.available[current]
      BY <1>1, <3>1, ViewParts DEF ListAvailable, IInv, ReaderOK
    <3>4. pc' = "available-profiles" /\ UNCHANGED <<page.active, page.state, page.config>>
      BY <1>1 DEF ListAvailable, Goto, IInv, ReaderOK
    <3> QED
      BY <3>1, <3>2, <3>3, <3>4 DEF CurrentWas
  <2>6. OtherPagesWere'
    BY <1>0, <1>1, ReadingFacts, ViewParts
       DEF ListAvailable, Goto, nmVars, IInv, OtherPagesWere, ActivityWasTrue, ReaderOK, Seen,
           NoLoss, NMOK, ProfileAt, Exists, Blank
  <2> QED
    BY <1>0, ReadingFacts, <2>1, <2>2, <2>3, <2>4, <2>5, <2>6 DEF IInv
<1>2. ASSUME ReadAvailable PROVE IInv'
  <2>1. ReaderOK'
    BY <1>0, <1>2, ReadingFacts, AccessPointIsVisible, FitsAssumption
       DEF ReadAvailable, Readable, Goto, nmVars, IInv, ReaderOK, NMOK, State, Blank
  <2>2. NoLoss'
    BY <1>0, <1>2, ReadingFacts, AccessPointIsVisible
       DEF ReadAvailable, Readable, Goto, nmVars, IInv, NoLoss, ReaderOK, NMOK, Exists, ConfigExists
  <2>3. Seen'
    BY <1>0, <1>2, ReadingFacts, AccessPointIsVisible
       DEF ReadAvailable, Readable, Goto, nmVars, IInv, Seen, ReaderOK
  <2>4. PageWas'
    BY <1>0, <1>2, ReadingFacts, ViewParts
       DEF ReadAvailable, Readable, Goto, nmVars, IInv, PageWas, ReaderOK, Seen, DeviceWas, CurrentWas,
           ProfileAt, NoLoss
  <2>5. CurrentWas'
    BY <1>0, <1>2, ReadingFacts, ViewParts
       DEF ReadAvailable, Readable, Goto, nmVars, IInv, CurrentWas, ReaderOK, Seen, ProfileAt, NMOK
  <2>6. OtherPagesWere'
    BY <1>0, <1>2, ReadingFacts, ViewParts
       DEF ReadAvailable, Readable, Goto, nmVars, IInv, OtherPagesWere, ActivityWasTrue, ReaderOK, Seen,
           NoLoss, NMOK, ProfileAt, Exists, Blank
  <2> QED
    BY <1>0, ReadingFacts, <2>1, <2>2, <2>3, <2>4, <2>5, <2>6 DEF IInv
<1>3. ASSUME AvailableLost PROVE IInv'
  <2>1. /\ UNCHANGED <<nmVars, seen, vanished, path, todo, current, page>>
        /\ pc \in Stages \ {"active"} /\ pc' = "failed"
    BY <1>0, <1>3, ReadingFacts DEF AvailableLost, Lost
  <2> QED
    BY <2>1, FailedKeepsIInv
<1>4. ASSUME ReadAccessPointPath PROVE IInv'
  <2>1. ReaderOK'
    BY <1>0, <1>4, ReadingFacts, AccessPointIsVisible, FitsAssumption
       DEF ReadAccessPointPath, Goto, nmVars, IInv, ReaderOK, NMOK, State, Blank
  <2>2. NoLoss'
    BY <1>0, <1>4, ReadingFacts, AccessPointIsVisible
       DEF ReadAccessPointPath, Goto, nmVars, IInv, NoLoss, ReaderOK, NMOK, Exists, ConfigExists
  <2>3. Seen'
    BY <1>0, <1>4, ReadingFacts, AccessPointIsVisible
       DEF ReadAccessPointPath, Goto, nmVars, IInv, Seen, ReaderOK
  <2>4. PageWas'
    BY <1>0, <1>4, ReadingFacts, ViewParts
       DEF ReadAccessPointPath, Goto, nmVars, IInv, PageWas, ReaderOK, Seen, DeviceWas,
           CurrentWas, ProfileAt, NoLoss
  <2>5. CurrentWas'
    BY <1>0, <1>4, ReadingFacts, ViewParts
       DEF ReadAccessPointPath, Goto, nmVars, IInv, CurrentWas, ReaderOK, Seen, ProfileAt, NMOK
  <2>6. OtherPagesWere'
    BY <1>0, <1>4, ReadingFacts, ViewParts
       DEF ReadAccessPointPath, Goto, nmVars, IInv, OtherPagesWere, ActivityWasTrue, ReaderOK,
           Seen, NoLoss, NMOK, ProfileAt, Exists, Blank
  <2> QED
    BY <1>0, ReadingFacts, <2>1, <2>2, <2>3, <2>4, <2>5, <2>6 DEF IInv
<1>5. ASSUME ReadAccessPoint PROVE IInv'
  <2>1. ReaderOK'
    BY <1>0, <1>5, ReadingFacts, AccessPointIsVisible, FitsAssumption
       DEF ReadAccessPoint, Goto, nmVars, IInv, ReaderOK, NMOK, State, Blank
  <2>2. NoLoss'
    BY <1>0, <1>5, ReadingFacts, AccessPointIsVisible
       DEF ReadAccessPoint, Goto, nmVars, IInv, NoLoss, ReaderOK, NMOK, Exists, ConfigExists
  <2>3. Seen'
    BY <1>0, <1>5, ReadingFacts, AccessPointIsVisible
       DEF ReadAccessPoint, Goto, nmVars, IInv, Seen, ReaderOK
  <2>4. PageWas'
    BY <1>0, <1>5, ReadingFacts, ViewParts
       DEF ReadAccessPoint, Goto, nmVars, IInv, PageWas, ReaderOK, Seen, DeviceWas, CurrentWas,
           ProfileAt, NoLoss
  <2>5. CurrentWas'
    BY <1>0, <1>5, ReadingFacts, ViewParts
       DEF ReadAccessPoint, Goto, nmVars, IInv, CurrentWas, ReaderOK, Seen, ProfileAt, NMOK
  <2>6. OtherPagesWere'
    BY <1>0, <1>5, ReadingFacts, ViewParts
       DEF ReadAccessPoint, Goto, nmVars, IInv, OtherPagesWere, ActivityWasTrue, ReaderOK, Seen,
           NoLoss, NMOK, ProfileAt, Exists, Blank
  <2> QED
    BY <1>0, ReadingFacts, <2>1, <2>2, <2>3, <2>4, <2>5, <2>6 DEF IInv
<1>6. ASSUME AccessPointLost PROVE IInv'
  <2>1. /\ UNCHANGED <<nmVars, seen, vanished, path, todo, current, page>>
        /\ pc \in Stages \ {"active"} /\ pc' = "failed"
    BY <1>0, <1>6, ReadingFacts DEF AccessPointLost, Lost
  <2> QED
    BY <2>1, FailedKeepsIInv
<1>7. ASSUME CurrentLost PROVE IInv'
  <2>1. /\ UNCHANGED <<nmVars, seen, vanished, path, todo, current, page>>
        /\ pc \in Stages \ {"active"} /\ pc' = "failed"
    BY <1>0, <1>7, ReadingFacts DEF CurrentLost, Lost
  <2> QED
    BY <2>1, FailedKeepsIInv
<1> QED
  BY <1>1, <1>2, <1>3, <1>4, <1>5, <1>6, <1>7

(* and the steps of the other two pages.                                   *)
LEMMA OtherPages ==
  ASSUME IInv,
         \/ ReadDeviceAccessPoints
         \/ DeviceAccessPointsLost
         \/ ReadProfile
         \/ ProfileLost
         \/ ListActive
         \/ ReadActive
         \/ ActiveUnknown
         \/ ShowProfile
  PROVE  IInv'
<1>0. Reading
  BY DEF ReadDeviceAccessPoints, DeviceAccessPointsLost, ReadProfile, ProfileLost, ListActive,
         ReadActive, ActiveUnknown, ShowProfile, Lost, ListAccessPoints, ReadAccessPoints
<1> USE DEF ListStages, DevStages, AfterPrimary, AfterScan, AfterList, Stages, Ends
<1>1. ASSUME ReadDeviceAccessPoints PROVE IInv'
  <2>1. ReaderOK'
    <3>1. /\ UNCHANGED <<Made, path, todo, current>> /\ visible \subseteq AccessPoints
          /\ page' = page \/ page' = [page EXCEPT !.ssids = visible]
          /\ pc \in {"scan-device", "scanned-device"} /\ pc' \in {"scanned-device", "listed"}
      BY <1>0, <1>1, ReadingFacts
         DEF ReadDeviceAccessPoints, ListAccessPoints, ReadAccessPoints, IInv, NMOK
    <3> QED
      BY <3>1 DEF IInv, ReaderOK
  <2>2. NoLoss'
    BY <1>0, <1>1, ReadingFacts, AccessPointIsVisible
       DEF ReadDeviceAccessPoints, ListAccessPoints, ReadAccessPoints, nmVars, IInv, NoLoss,
           ReaderOK, NMOK, Exists, ConfigExists
  <2>3. Seen'
    BY <1>0, <1>1, ReadingFacts, AccessPointIsVisible
       DEF ReadDeviceAccessPoints, ListAccessPoints, ReadAccessPoints, nmVars, IInv, Seen,
           ReaderOK
  <2>4. PageWas'
    BY <1>0, <1>1, ReadingFacts, ViewParts
       DEF ReadDeviceAccessPoints, ListAccessPoints, ReadAccessPoints, nmVars, IInv, PageWas,
           ReaderOK, Seen, DeviceWas, CurrentWas, ProfileAt, NoLoss
  <2>5. CurrentWas'
    BY <1>0, <1>1, ReadingFacts, ViewParts
       DEF ReadDeviceAccessPoints, ListAccessPoints, ReadAccessPoints, nmVars, IInv, CurrentWas,
           ReaderOK, Seen, ProfileAt, NMOK
  <2>6. OtherPagesWere'
    BY <1>0, <1>1, ReadingFacts, ViewParts
       DEF ReadDeviceAccessPoints, ListAccessPoints, ReadAccessPoints, nmVars, IInv,
           OtherPagesWere, ActivityWasTrue, ReaderOK, Seen, NoLoss, NMOK, ProfileAt, Exists,
           Blank
  <2> QED
    BY <1>0, ReadingFacts, <2>1, <2>2, <2>3, <2>4, <2>5, <2>6 DEF IInv
<1>2. ASSUME DeviceAccessPointsLost PROVE IInv'
  <2>1. /\ UNCHANGED <<nmVars, seen, vanished, path, todo, current, page>>
        /\ pc \in Stages \ {"active"} /\ pc' \in {"failed", "not-found"}
    BY <1>0, <1>2, ReadingFacts DEF DeviceAccessPointsLost, Lost
  <2> QED
    BY <2>1, FailedKeepsIInv
<1>3. ASSUME ReadProfile PROVE IInv'
  <2>1. ReaderOK'
    BY <1>0, <1>3, ReadingFacts, AccessPointIsVisible, FitsAssumption
       DEF ReadProfile, Readable, Goto, nmVars, IInv, ReaderOK, NMOK, State, Blank
  <2>2. NoLoss'
    BY <1>0, <1>3, ReadingFacts, AccessPointIsVisible
       DEF ReadProfile, Readable, Goto, nmVars, IInv, NoLoss, ReaderOK, NMOK, Exists, ConfigExists
  <2>3. Seen'
    BY <1>0, <1>3, ReadingFacts, AccessPointIsVisible
       DEF ReadProfile, Readable, Goto, nmVars, IInv, Seen, ReaderOK
  <2>4. PageWas'
    BY <1>0, <1>3, ReadingFacts, ViewParts
       DEF ReadProfile, Readable, Goto, nmVars, IInv, PageWas, ReaderOK, Seen, DeviceWas, CurrentWas,
           ProfileAt, NoLoss
  <2>5. CurrentWas'
    BY <1>0, <1>3, ReadingFacts, ViewParts
       DEF ReadProfile, Readable, Goto, nmVars, IInv, CurrentWas, ReaderOK, Seen, ProfileAt, NMOK
  <2>6. OtherPagesWere'
    BY <1>0, <1>3, ReadingFacts, ViewParts
       DEF ReadProfile, Readable, Goto, nmVars, IInv, OtherPagesWere, ActivityWasTrue, ReaderOK, Seen,
           NoLoss, NMOK, ProfileAt, Exists, Blank
  <2> QED
    BY <1>0, ReadingFacts, <2>1, <2>2, <2>3, <2>4, <2>5, <2>6 DEF IInv
<1>4. ASSUME ProfileLost PROVE IInv'
  <2>1. /\ UNCHANGED <<nmVars, seen, vanished, path, todo, current, page>>
        /\ pc \in Stages \ {"active"} /\ pc' = "failed"
    BY <1>0, <1>4, ReadingFacts DEF ProfileLost, Lost
  <2> QED
    BY <2>1, FailedKeepsIInv
<1>5. ASSUME ListActive PROVE IInv'
  <2>1. ReaderOK'
    BY <1>0, <1>5, ReadingFacts, AccessPointIsVisible, FitsAssumption
       DEF ListActive, Goto, nmVars, IInv, ReaderOK, NMOK, State, Blank
  <2>2. NoLoss'
    BY <1>0, <1>5, ReadingFacts, AccessPointIsVisible
       DEF ListActive, Goto, nmVars, IInv, NoLoss, ReaderOK, NMOK, Exists, ConfigExists
  <2>3. Seen'
    BY <1>0, <1>5, ReadingFacts, AccessPointIsVisible
       DEF ListActive, Goto, nmVars, IInv, Seen, ReaderOK
  <2>4. PageWas'
    BY <1>0, <1>5, ReadingFacts, ViewParts
       DEF ListActive, Goto, nmVars, IInv, PageWas, ReaderOK, Seen, DeviceWas, CurrentWas,
           ProfileAt, NoLoss
  <2>5. CurrentWas'
    BY <1>0, <1>5, ReadingFacts, ViewParts
       DEF ListActive, Goto, nmVars, IInv, CurrentWas, ReaderOK, Seen, ProfileAt, NMOK
  <2>6. OtherPagesWere'
    <3>1. ASSUME NEW p \in Profiles
          PROVE  View.activeOf[p] = \E a \in todo' : profileOf[a] = p
      <4>1. p # None
        BY NoneAssumption
      <4>2. ASSUME NEW d \in Devs, ProfileAt(active[d]) = p
            PROVE  active[d] \in todo' /\ profileOf[active[d]] = p
        BY <1>5, <4>1, <4>2 DEF ListActive, ProfileAt
      <4>3. ASSUME NEW a \in todo', profileOf[a] = p
            PROVE  \E d \in Devs : ProfileAt(active[d]) = p
        BY <1>5, <4>3 DEF ListActive, ProfileAt
      <4> QED
        BY <4>2, <4>3, ViewParts
    <3>2. \A p \in Profiles : page'.activeOf[p] = FALSE
      BY <1>5 DEF ListActive, Goto, IInv, OtherPagesWere
    <3>3. UNCHANGED profileOf /\ pc' = "active" /\ View \in seen'
      BY <1>0, <1>5, ReadingFacts DEF ListActive, Goto, nmVars, IInv, Seen
    <3> QED
      <4>1. pc' = "active" =>
              \E v \in seen' : \A p \in Profiles :
                v.activeOf[p] = (page'.activeOf[p] \/ \E a \in todo' : profileOf'[a] = p)
        <5>1. ASSUME NEW p \in Profiles
              PROVE  View.activeOf[p] = (page'.activeOf[p] \/ \E a \in todo' : profileOf'[a] = p)
          <6>1. page'.activeOf[p] = FALSE /\ profileOf' = profileOf
            BY <3>2, <3>3
          <6>2. View.activeOf[p] = \E a \in todo' : profileOf[a] = p
            BY <3>1
          <6> QED
            BY <6>1, <6>2, Zenon
        <5> QED
          BY <3>3, <5>1, Zenon
      <4> QED
        BY <3>3, <4>1 DEF OtherPagesWere, ActivityWasTrue
  <2> QED
    BY <1>0, ReadingFacts, <2>1, <2>2, <2>3, <2>4, <2>5, <2>6 DEF IInv
<1>6. ASSUME ReadActive PROVE IInv'
  <2>1. ReaderOK'
    <3>1. PICK a \in todo :
            /\ pc = "active" /\ todo' = todo \ {a} /\ UNCHANGED <<pc, path, current>>
            /\ page' = [page EXCEPT !.activeOf[profileOf[a]] = TRUE]
      BY <1>6 DEF ReadActive
    <3>2. profileOf[a] \in Profiles
      BY <1>0, <3>1, ReadingFacts DEF IInv, ReaderOK
    <3>3. page'.activeOf \in [Profiles -> BOOLEAN]
      BY <3>1, <3>2 DEF IInv, ReaderOK
    <3> QED
      BY <1>0, <3>1, <3>2, <3>3, ReadingFacts DEF IInv, ReaderOK
  <2>2. NoLoss'
    BY <1>0, <1>6, ReadingFacts, AccessPointIsVisible
       DEF ReadActive, nmVars, IInv, NoLoss, ReaderOK, NMOK, Exists, ConfigExists
  <2>3. Seen'
    BY <1>0, <1>6, ReadingFacts, AccessPointIsVisible
       DEF ReadActive, nmVars, IInv, Seen, ReaderOK
  <2>4. PageWas'
    BY <1>0, <1>6, ReadingFacts, ViewParts
       DEF ReadActive, nmVars, IInv, PageWas, ReaderOK, Seen, DeviceWas, CurrentWas, ProfileAt,
           NoLoss
  <2>5. CurrentWas'
    BY <1>0, <1>6, ReadingFacts, ViewParts
       DEF ReadActive, nmVars, IInv, CurrentWas, ReaderOK, Seen, ProfileAt, NMOK
  <2>6. OtherPagesWere'
    <3>1. PICK a \in todo :
            /\ pc = "active" /\ todo' = todo \ {a} /\ pc' = pc
            /\ page' = [page EXCEPT !.activeOf[profileOf[a]] = TRUE]
      BY <1>6 DEF ReadActive
    <3>2. UNCHANGED profileOf /\ seen' = seen
      BY <1>0, ReadingFacts DEF nmVars
    <3>3. PICK v \in seen : \A p \in Profiles :
            v.activeOf[p] = (page.activeOf[p] \/ \E b \in todo : profileOf[b] = p)
      BY <3>1 DEF IInv, OtherPagesWere
    <3>4. \A p \in Profiles : page'.activeOf[p] = (page.activeOf[p] \/ profileOf[a] = p)
      BY <3>1 DEF IInv, ReaderOK
    <3>5. \A p \in Profiles :
            v.activeOf[p] = (page'.activeOf[p] \/ \E b \in todo' : profileOf'[b] = p)
      <4> TAKE p \in Profiles
      <4>1. (\E b \in todo : profileOf[b] = p) <=>
              (profileOf[a] = p \/ \E b \in todo' : profileOf'[b] = p)
        BY <3>1, <3>2
      <4>2. v.activeOf[p] = (page.activeOf[p] \/ \E b \in todo : profileOf[b] = p)
        BY <3>3
      <4>3. page'.activeOf[p] = (page.activeOf[p] \/ profileOf[a] = p)
        BY <3>4
      <4> QED
        BY <4>1, <4>2, <4>3, Zenon
    <3> QED
      BY <3>1, <3>2, <3>5 DEF OtherPagesWere, ActivityWasTrue
  <2> QED
    BY <1>0, ReadingFacts, <2>1, <2>2, <2>3, <2>4, <2>5, <2>6 DEF IInv
<1>7. ASSUME ActiveUnknown PROVE IInv'
  <2>1. vanished
    BY <1>7 DEF ActiveUnknown, IInv, NoLoss
  <2>2. UNCHANGED <<nmVars, seen, vanished>> /\ pc = "active" /\ NoActivity
    BY <1>0, <1>7, ReadingFacts DEF ActiveUnknown
  <2> QED
    BY <2>1, <2>2, NoActivityKeepsIInv
<1>8. ASSUME ShowProfile PROVE IInv'
  <2>1. ReaderOK'
    BY <1>0, <1>8, ReadingFacts, AccessPointIsVisible, FitsAssumption
       DEF ShowProfile, Goto, nmVars, IInv, ReaderOK, NMOK, State, Blank
  <2>2. NoLoss'
    BY <1>0, <1>8, ReadingFacts, AccessPointIsVisible
       DEF ShowProfile, Goto, nmVars, IInv, NoLoss, ReaderOK, NMOK, Exists, ConfigExists
  <2>3. Seen'
    BY <1>0, <1>8, ReadingFacts, AccessPointIsVisible
       DEF ShowProfile, Goto, nmVars, IInv, Seen, ReaderOK
  <2>4. PageWas'
    BY <1>0, <1>8, ReadingFacts, ViewParts
       DEF ShowProfile, Goto, nmVars, IInv, PageWas, ReaderOK, Seen, DeviceWas, CurrentWas,
           ProfileAt, NoLoss
  <2>5. CurrentWas'
    BY <1>0, <1>8, ReadingFacts, ViewParts
       DEF ShowProfile, Goto, nmVars, IInv, CurrentWas, ReaderOK, Seen, ProfileAt, NMOK
  <2>6. OtherPagesWere'
    BY <1>0, <1>8, ReadingFacts, ViewParts
       DEF ShowProfile, Goto, nmVars, IInv, OtherPagesWere, ActivityWasTrue, ReaderOK, Seen,
           NoLoss, NMOK, ProfileAt, Exists, Blank
  <2> QED
    BY <1>0, ReadingFacts, <2>1, <2>2, <2>3, <2>4, <2>5, <2>6 DEF IInv
<1> QED
  BY <1>1, <1>2, <1>3, <1>4, <1>5, <1>6, <1>7, <1>8

-----------------------------------------------------------------------------
(* A reading begins.  What there is now is all that it has seen. *)
LEMMA Beginnings ==
  ASSUME IInv,
         \/ BeginNetwork
         \/ \E d \in Wifis : BeginAccessPoints(d)
         \/ \E p \in Profiles : BeginProfile(p)
  PROVE  IInv'
<1>1. /\ pc = "idle" /\ UNCHANGED nmVars /\ UNCHANGED <<todo, page>>
      /\ seen' = {View} /\ vanished' = FALSE
      /\ pc' \in {"primary", "scan-device", "profile", "not-found"}
  BY DEF BeginNetwork, BeginAccessPoints, BeginProfile, Begin, Goto
<1>2. NMOK' /\ View' = View /\ UNCHANGED Made
  BY <1>1, ViewStays DEF nmVars, IInv, NMOK, Made
<1>3. /\ path' \in {NoPath} \cup Made /\ current' \in Devs \cup Profiles \cup {None}
      /\ pc' = "scan-device" => current' \in Devs
      /\ pc' = "profile" => current' \in profiles
      /\ pc' = "primary" => path' = PrimaryPath /\ (path' = NoPath \/ Exists(path'))
  <2>1. /\ PrimaryPath = NoPath \/ Exists(PrimaryPath)
        /\ PrimaryPath \in {NoPath} \cup Made
    BY PrimaryIsActive DEF IInv, NMOK, Exists
  <2> QED
    BY <2>1, DevsAssumption
       DEF BeginNetwork, BeginAccessPoints, BeginProfile, Begin, Goto, IInv, ReaderOK
<1>4. ReaderOK'
  BY <1>1, <1>2, <1>3 DEF IInv, ReaderOK, Stages, Ends, ListStages, DevStages
<1>5. NoLoss'
  <2>1. UNCHANGED <<active, profiles>>
    BY <1>1 DEF nmVars
  <2> QED
    BY <1>1, <1>3, <2>1 DEF NoLoss, ListStages, DevStages, Exists
<1>6. Seen'
  BY <1>1, <1>2, ViewParts, AccessPointIsVisible DEF IInv, Seen
<1>7. PageWas' /\ CurrentWas'
  <2>1. UNCHANGED profileOf
    BY <1>1 DEF nmVars
  <2> QED
    BY <1>1, <1>3, <2>1, ViewParts
       DEF PageWas, CurrentWas, AfterPrimary, AfterScan, AfterList, ListStages, DevStages, ProfileAt
<1>8. OtherPagesWere'
  BY <1>1 DEF IInv, OtherPagesWere, ActivityWasTrue
<1> QED
  BY <1>2, <1>4, <1>5, <1>6, <1>7, <1>8 DEF IInv

(* The invariant is inductive. *)
LEMMA NextIInv ==
  ASSUME IInv, [Next]_vars
  PROVE  IInv'
<1>1. CASE NetworkManager
  BY <1>1, NetworkManagerKeepsIInv
<1>2. CASE Read
  BY <1>2, PrimaryAndNames, DeviceConnection, DeviceProfiles, OtherPages DEF Read
<1>3. CASE \/ BeginNetwork
           \/ \E d \in Wifis : BeginAccessPoints(d)
           \/ \E p \in Profiles : BeginProfile(p)
  BY <1>3, Beginnings
<1>4. CASE CallErrs
  BY <1>4, ErrorsKeepIInv
<1>5. CASE UNCHANGED vars
  <2>1. UNCHANGED <<nmVars, readerVars, historyVars>>
    BY <1>5 DEF vars
  <2>2. View' = View /\ UNCHANGED Made
    BY <2>1, ViewStays DEF nmVars, Made
  <2>3. NMOK' /\ ReaderOK' /\ NoLoss' /\ Seen'
    BY <2>1, <2>2
       DEF nmVars, readerVars, historyVars, IInv, NMOK, ReaderOK, NoLoss, Seen, Exists,
                      ConfigExists
  <2>4. PageWas' /\ CurrentWas' /\ OtherPagesWere'
    BY <2>1 DEF nmVars, readerVars, historyVars, IInv, PageWas, CurrentWas, OtherPagesWere,
                DeviceWas, ActivityWasTrue, ProfileAt
  <2> QED
    BY <2>2, <2>3, <2>4 DEF IInv
<1> QED
  BY <1>1, <1>2, <1>3, <1>4, <1>5 DEF Next

(* And so it holds in every state. *)
LEMMA Invariant == Spec => []IInv
BY InitIInv, NextIInv, PTL DEF Spec

(* Every path leads to an activation that was made, a configured device is *)
(* active, and the page has only devices and profiles that there can be.   *)
THEOREM TypeCorrect == Spec => []TypeOK
<1>1. IInv => TypeOK
  BY DEF IInv, NMOK, ReaderOK, TypeOK
<1> QED
  BY <1>1, Invariant, PTL

(* A reading fails of a loss, of an error or of a profile it has asked for *)
(* and cannot parse.                                                       *)
LEMMA FailureKeepsItsCause ==
  ASSUME IInv, FailureHasACause, [Next]_vars
  PROVE  FailureHasACause'
<1> SUFFICES ASSUME pc' = "failed", ~vanished', ~errored'
             PROVE  (Unparsable \cap Asked # {})'
  BY DEF FailureHasACause
<1>1. CASE UNCHANGED vars
  BY <1>1 DEF FailureHasACause, Asked, vars, readerVars, historyVars
<1>2. ~NetworkManager
  BY DEF NetworkManager, Plug, Unplug, Configure, Deactivate, Activate, Reach, AddProfile,
         DeleteProfile, Changes, readerVars, Ends
<1>3. ~CallErrs
  BY DEF CallErrs
<1>4. /\ ~BeginNetwork
      /\ \A d : ~BeginAccessPoints(d)
      /\ \A p : ~BeginProfile(p)
  BY DEF BeginNetwork, BeginAccessPoints, BeginProfile, Begin, Goto
<1>5. CASE Read
  <2>1. /\ \/ PrimaryLost \/ ActiveConnLost \/ ConfigLost \/ CurrentLost \/ AccessPointLost
           \/ \E d \in Devs : DeviceLost(d)
           \/ DeviceAccessPointsLost \/ AvailableLost \/ ProfilesLost \/ ProfileLost
        /\ ~vanished /\ page' = page /\ current' = current
    BY <1>5
       DEF Read, ReadPrimary, ListAccessPoints, ReadAccessPoints, AccessPointsUnknown, NoNames,
           ListDevices, ReadDevice, ReadActiveConn, ReadState, ReadConfigPath, ReadConfig,
           ListAvailable, ReadAvailable, ReadAccessPointPath, ReadAccessPoint, ListProfiles,
           ReadProfiles, ReadDeviceAccessPoints, ReadProfile, ListActive, ReadActive,
           ActiveUnknown, NoActivity, ShowProfile, Goto, PrimaryLost, DeviceLost, ActiveConnLost,
           ConfigLost, AvailableLost, AccessPointLost, CurrentLost, ProfilesLost,
           DeviceAccessPointsLost, ProfileLost, Lost, Reading, historyVars
  <2>2. ~(PrimaryLost \/ ActiveConnLost \/ ConfigLost \/ CurrentLost \/ AccessPointLost)
    BY <2>1
       DEF IInv, NoLoss, DevStages, PrimaryLost, ActiveConnLost, ConfigLost, CurrentLost,
           AccessPointLost, Lost
  <2>3. ~(\E d \in Devs : DeviceLost(d)) /\ ~DeviceAccessPointsLost
    BY <2>1 DEF IInv, NoLoss, ListStages, DeviceLost, DeviceAccessPointsLost, Lost
  <2>4. CASE AvailableLost
    <3>1. PICK p \in page.available[current] : p \in Unparsable
      BY <2>1, <2>4 DEF AvailableLost, Lost, Readable, IInv, NoLoss
    <3>2. current \in Devs
      BY <2>4 DEF AvailableLost, Lost, IInv, ReaderOK, DevStages
    <3> QED
      BY <2>1, <3>1, <3>2 DEF Asked
  <2>5. CASE ProfilesLost \/ ProfileLost
    BY <2>1, <2>5 DEF ProfilesLost, ProfileLost, Lost, Readable, Asked, IInv, NoLoss
  <2> QED
    BY <2>1, <2>2, <2>3, <2>4, <2>5
<1> QED
  BY <1>1, <1>2, <1>3, <1>4, <1>5 DEF Next

(* And so a page fails only of that: what it lists and what stays is found.*)
THEOREM FailuresHaveACause == Spec => []FailureHasACause
<1>1. Init => FailureHasACause
  BY DEF Init, FailureHasACause
<1> QED
  BY <1>1, Invariant, FailureKeepsItsCause, PTL DEF Spec

(* Whatever a finished page says was true at a moment of its reading, part *)
(* by part.                                                                *)
THEOREM PartsWereTrue == Spec => []EveryPartWasTrue
<1>1. ASSUME IInv, pc = "done", NEW d \in page.devices
      PROVE  DeviceWas(d)
  BY <1>1 DEF IInv, ReaderOK, PageWas, AfterList, DevStages
<1>2. IInv => EveryPartWasTrue
  BY <1>1
     DEF IInv, ReaderOK, PageWas, OtherPagesWere, AfterPrimary, AfterScan, AfterList, DeviceWas,
              EveryPartWasTrue
<1> QED
  BY <1>2, Invariant, PTL

(* A profile that its page calls active was active during the reading.     *)
THEOREM ActivityWas == Spec => []ActivityWasTrue
<1>1. IInv => ActivityWasTrue
  BY DEF IInv, OtherPagesWere
<1> QED
  BY <1>1, Invariant, PTL
=============================================================================
