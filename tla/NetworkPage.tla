---------------------------- MODULE NetworkPage ----------------------------
(***************************************************************************)
(* How the pages of the network, of a device's access points and of a      *)
(* connection profile are read from NetworkManager over D-Bus              *)
(* (getInternetViewData, getDeviceAPsViewData and getConnProfileViewData   *)
(* in src/internal/app/server/routes/internet; Get, ScanNetworks,          *)
(* GetDevices, ListConnProfiles and ListActiveConns in                     *)
(* src/internal/clients/networkmanager).  No call returns a whole page:    *)
(* each property is read in a call of its own, a property which is the     *)
(* path of another object is followed in further calls, and devices,       *)
(* activations, access points and profiles come and go between the calls.  *)
(* Any call may also have an error for its answer, for want of a reply or  *)
(* since the browser has gone, and a profile may have settings which the   *)
(* code does not parse.                                                    *)
(*                                                                         *)
(* The calls that read one object are one step here; the IPv4, IPv6 and    *)
(* DHCP configurations of a device, read one after the other in the same   *)
(* way, are one configuration.                                             *)
(***************************************************************************)
EXTENDS Integers, FiniteSets

CONSTANTS
  Devs,            \* network devices
  Wifis,           \* those for Wi-Fi
  Internet,        \* the one whose access points the network's page lists
  AccessPoints,    \* access points
  Profiles,        \* connection profiles
  FirstProfiles,   \* those that there are at first
  Unparsable,      \* those with settings that the code does not parse
  Fits,            \* the profiles that each device can use
  MaxActivations,  \* how many connections are activated (bound)
  MaxChanges,      \* and how many changes there are altogether (bound)
  None

ASSUME DevsAssumption == Wifis \subseteq Devs /\ Internet \in Wifis
ASSUME ProfilesAssumption == FirstProfiles \cup Unparsable \subseteq Profiles
ASSUME FitsAssumption == Fits \in [Devs -> SUBSET Profiles]
ASSUME BoundsAssumption == MaxActivations \in Nat /\ MaxChanges \in Nat
ASSUME NoneAssumption == None \notin Profiles \cup AccessPoints

Activations == 1..MaxActivations
NoPath == 0  \* the path "/"

VARIABLES
  present,     \* NetworkManager: the devices
  active,      \* the path of each device's active connection
  configured,  \* the devices with an IP configuration
  visible,     \* the access points in reach
  profiles,    \* the connection profiles
  profileOf,   \* the profile of each connection that was activated
  changes,     \* how many changes there have been
  pc,          \* the reading handler
  path,        \* the path it is about to follow
  todo,        \* the objects it has listed and still has to read
  current,     \* the device or profile it is reading
  page,        \* what it has read so far
  seen,        \* what each part has been since it began (history)
  vanished,    \* an object has vanished since (history)
  errored      \* a call has had an error for its answer since (history)

nmVars == <<present, active, configured, visible, profiles, profileOf, changes>>
readerVars == <<pc, path, todo, current, page>>
historyVars == <<seen, vanished, errored>>
vars == <<nmVars, readerVars, historyVars>>

(* Where a reading is under way, and where it has ended. *)
Stages ==
  {"primary", "scan", "scanned", "list-devices", "devices", "connection", "state", "config-path",
   "config", "available", "available-profiles", "wifi", "access-point", "profiles",
   "scan-device", "scanned-device", "profile", "list-active", "active"}
Ends == {"done", "listed", "shown", "failed", "not-found"}

Exists(a) == \E d \in Devs : active[d] = a
Made == {a \in Activations : profileOf[a] # None}
ProfileAt(a) == IF a = NoPath THEN None ELSE profileOf[a]

(* NetworkManager has the first connection with an address as its primary. *)
PrimaryPath ==
  IF configured = {} THEN NoPath
  ELSE CHOOSE a \in {active[d] : d \in configured} :
         \A e \in configured : a <= active[e]

State(d) ==
  IF d \in configured THEN "activated" ELSE IF active[d] # NoPath THEN "prepare" ELSE "disconnected"

(* An active Wi-Fi device roams among the access points. *)
AccessPoint(d) ==
  IF d \in Wifis /\ active[d] # NoPath /\ visible # {} THEN CHOOSE ap \in visible : TRUE ELSE None

(* What a reader who could read everything at once would see. *)
View ==
  [primary |-> ProfileAt(PrimaryPath), devices |-> present, profiles |-> profiles,
   visible |-> visible, ssids |-> IF Internet \in present THEN visible ELSE {},
   ap |-> [d \in Devs |-> AccessPoint(d)],
   active |-> [d \in Devs |-> ProfileAt(active[d])],
   state |-> [d \in Devs |-> State(d)],
   config |-> [d \in Devs |-> d \in configured],
   available |-> [d \in Devs |-> Fits[d] \cap profiles],
   activeOf |-> [p \in Profiles |-> \E d \in Devs : ProfileAt(active[d]) = p]]

Blank ==
  [primary |-> None, devices |-> {}, profiles |-> {}, ssids |-> {}, ap |-> [d \in Devs |-> None],
   active |-> [d \in Devs |-> None], state |-> [d \in Devs |-> "disconnected"],
   config |-> [d \in Devs |-> FALSE], available |-> [d \in Devs |-> {}],
   activeOf |-> [p \in Profiles |-> FALSE]]

Init ==
  /\ present \in SUBSET Devs
  /\ active = [d \in Devs |-> NoPath] /\ configured = {}
  /\ profiles = FirstProfiles /\ visible = AccessPoints
  /\ profileOf = [a \in Activations |-> None] /\ changes = 0
  /\ pc = "idle" /\ path = NoPath /\ todo = {} /\ current = None /\ page = Blank
  /\ seen = {} /\ vanished = FALSE /\ errored = FALSE

-----------------------------------------------------------------------------
(* NetworkManager.  What changes when the reading has ended does not       *)
(* matter here.                                                            *)
Changes ==
  /\ pc \notin Ends
  /\ changes < MaxChanges /\ changes' = changes + 1
  /\ seen' = seen \cup {View'}
  /\ UNCHANGED <<readerVars, errored>>

Plug(d) ==
  /\ d \notin present /\ present' = present \cup {d}
  /\ UNCHANGED <<visible, active, configured, profiles, profileOf, vanished>> /\ Changes

Unplug(d) ==
  /\ d \in present /\ present' = present \ {d}
  /\ active' = [active EXCEPT ![d] = NoPath] /\ configured' = configured \ {d}
  /\ vanished' = TRUE
  /\ UNCHANGED <<visible, profiles, profileOf>> /\ Changes

Activate(d, p) ==
  /\ d \in present /\ active[d] = NoPath /\ p \in Fits[d] \cap profiles
  /\ \E a \in Activations :
       /\ a = Cardinality(Made) + 1
       /\ active' = [active EXCEPT ![d] = a] /\ profileOf' = [profileOf EXCEPT ![a] = p]
  /\ UNCHANGED <<visible, present, configured, profiles, vanished>> /\ Changes

Configure(d) ==
  /\ active[d] # NoPath /\ d \notin configured /\ configured' = configured \cup {d}
  /\ UNCHANGED <<visible, present, active, profiles, profileOf, vanished>> /\ Changes

Deactivate(d) ==
  /\ active[d] # NoPath /\ active' = [active EXCEPT ![d] = NoPath]
  /\ configured' = configured \ {d} /\ vanished' = TRUE
  /\ UNCHANGED <<visible, present, profiles, profileOf>> /\ Changes

AddProfile(p) ==
  /\ p \notin profiles /\ profiles' = profiles \cup {p}
  /\ UNCHANGED <<visible, present, active, configured, profileOf, vanished>> /\ Changes

DeleteProfile(p) ==
  /\ p \in profiles /\ \A d \in Devs : ProfileAt(active[d]) # p
  /\ profiles' = profiles \ {p} /\ vanished' = TRUE
  /\ UNCHANGED <<visible, present, active, configured, profileOf>> /\ Changes

Reach(ap) ==
  /\ visible' = IF ap \in visible THEN visible \ {ap} ELSE visible \cup {ap}
  /\ vanished' = (vanished \/ ap \in visible)
  /\ UNCHANGED <<present, active, configured, profiles, profileOf>> /\ Changes

-----------------------------------------------------------------------------
(* The reading of the network's page, a call at a time. *)
Reading == UNCHANGED <<nmVars, historyVars>>
Goto(from, to) == pc = from /\ pc' = to

(* An object that is not there any more fails the call, and the page.      *)
Lost(from, gone) ==
  /\ pc = from /\ gone /\ pc' = "failed"
  /\ UNCHANGED <<path, todo, current, page>> /\ Reading

Begin(to) ==
  /\ Goto("idle", to)
  /\ seen' = {View} /\ vanished' = FALSE /\ errored' = FALSE
  /\ UNCHANGED nmVars

BeginNetwork == Begin("primary") /\ path' = PrimaryPath /\ UNCHANGED <<todo, current, page>>

(* Get follows the path of the primary connection, unless it is "/".       *)
ReadPrimary ==
  /\ Goto("primary", "scan")
  /\ path = NoPath \/ Exists(path)
  /\ page' = [page EXCEPT !.primary = ProfileAt(path)]
  /\ UNCHANGED <<path, todo, current>> /\ Reading

PrimaryLost == Lost("primary", path # NoPath /\ ~Exists(path))

(* ScanNetworks lists the access points of a device and reads each.  On    *)
(* the network's page they only complete names, so an error is passed over *)
(* and with it the access points that could be read.                       *)
ListAccessPoints(from, to, d) ==
  /\ pc = from /\ d \in present /\ pc' = to
  /\ page' = [page EXCEPT !.ssids = visible]
  /\ UNCHANGED <<path, todo, current>> /\ Reading

ReadAccessPoints(from, to) ==
  /\ pc = from /\ page.ssids \subseteq visible /\ pc' = to
  /\ UNCHANGED <<path, todo, current, page>> /\ Reading

NoNames ==
  pc' = "list-devices" /\ page' = [page EXCEPT !.ssids = {}] /\ UNCHANGED <<path, todo, current>>

AccessPointsUnknown ==
  /\ \/ pc = "scan" /\ Internet \notin present
     \/ pc = "scanned" /\ ~(page.ssids \subseteq visible)
  /\ NoNames /\ Reading

ListDevices ==
  /\ Goto("list-devices", "devices")
  /\ todo' = present /\ page' = [page EXCEPT !.devices = present]
  /\ UNCHANGED <<path, current>> /\ Reading

(* dumpDevice: the path of its connection, the connection, its state, the  *)
(* path of its configuration, the configuration, its profiles.             *)

(* Mutant: a device is not struck from the list. *)
ReadDeviceAgain(d) ==
  /\ Goto("devices", "connection")
  /\ d \in todo /\ d \in present
  /\ current' = d /\ path' = active[d]
  /\ UNCHANGED <<todo, page>> /\ Reading

(* Mutant: the path "/" does not replace the path of the device before.    *)
ReadDeviceOver(d) ==
  /\ Goto("devices", "connection")
  /\ d \in todo /\ d \in present
  /\ current' = d /\ todo' = todo \ {d}
  /\ path' = IF active[d] = NoPath THEN path ELSE active[d]
  /\ UNCHANGED page /\ Reading

ReadDevice(d) ==
  /\ Goto("devices", "connection")
  /\ d \in todo /\ d \in present
  /\ current' = d /\ todo' = todo \ {d} /\ path' = active[d]
  /\ UNCHANGED page /\ Reading

DeviceLost(d) == d \in todo /\ Lost("devices", d \notin present)

ReadActiveConn ==
  /\ Goto("connection", "state")
  /\ path = NoPath \/ Exists(path)
  /\ page' = [page EXCEPT !.active[current] = ProfileAt(path)]
  /\ UNCHANGED <<path, todo, current>> /\ Reading

(* Mutant: the path "/" is followed like any other. *)
FollowsAnyPath == Lost("connection", ~Exists(path))

ActiveConnLost == Lost("connection", path # NoPath /\ ~Exists(path))

ReadState ==
  /\ Goto("state", "config-path")
  /\ current \in present
  /\ page' = [page EXCEPT !.state[current] = State(current)]
  /\ UNCHANGED <<path, todo, current>> /\ Reading

ReadConfigPath ==
  /\ Goto("config-path", "config")
  /\ current \in present
  /\ path' = IF current \in configured THEN active[current] ELSE NoPath
  /\ UNCHANGED <<todo, current, page>> /\ Reading

ConfigExists(a) == \E d \in configured : active[d] = a
ReadConfig ==
  /\ Goto("config", "available")
  /\ path = NoPath \/ ConfigExists(path)
  /\ page' = [page EXCEPT !.config[current] = path # NoPath]
  /\ UNCHANGED <<path, todo, current>> /\ Reading

ConfigLost == Lost("config", path # NoPath /\ ~ConfigExists(path))

(* The profiles are listed by the device, and each of them is then read;   *)
(* one that cannot be parsed, for want of an IPv4 method for instance, is  *)
(* as fatal as one that has gone.                                          *)
Readable == profiles \ Unparsable

ListAvailable ==
  /\ Goto("available", "available-profiles")
  /\ current \in present
  /\ page' = [page EXCEPT !.available[current] = Fits[current] \cap profiles]
  /\ UNCHANGED <<path, todo, current>> /\ Reading

ReadAvailable ==
  /\ Goto("available-profiles", IF current \in Wifis THEN "wifi" ELSE "devices")
  /\ page.available[current] \subseteq Readable
  /\ UNCHANGED <<path, todo, current, page>> /\ Reading

AvailableLost ==
  pc = "available-profiles" /\ Lost(pc, ~(page.available[current] \subseteq Readable))

(* dumpWifiDevice: the path of its access point, and the access point.     *)
ReadAccessPointPath ==
  /\ Goto("wifi", "access-point")
  /\ current \in present
  /\ page' = [page EXCEPT !.ap[current] = AccessPoint(current)]
  /\ UNCHANGED <<path, todo, current>> /\ Reading

ReadAccessPoint ==
  /\ Goto("access-point", "devices")
  /\ page.ap[current] \in visible \cup {None} /\ current \in present
  /\ UNCHANGED <<path, todo, current, page>> /\ Reading

AccessPointLost == pc = "access-point" /\ Lost(pc, page.ap[current] \notin visible \cup {None})

CurrentLost ==
  \E from \in {"state", "config-path", "available", "wifi", "access-point"} :
    Lost(from, current \notin present)

ListProfiles ==
  /\ todo = {} /\ Goto("devices", "profiles")
  /\ page' = [page EXCEPT !.profiles = profiles]
  /\ UNCHANGED <<path, todo, current>> /\ Reading

ReadProfiles ==
  /\ Goto("profiles", "done")
  /\ page.profiles \subseteq Readable
  /\ UNCHANGED <<path, todo, current, page>> /\ Reading

ProfilesLost == Lost("profiles", ~(page.profiles \subseteq Readable))

-----------------------------------------------------------------------------
(* The reading of the page of a device's access points. *)
BeginAccessPoints(d) ==
  /\ Begin("scan-device") /\ UNCHANGED <<path, todo, page>>
  /\ current' = d

ReadDeviceAccessPoints ==
  \/ pc = "scan-device" /\ ListAccessPoints("scan-device", "scanned-device", current)
  \/ ReadAccessPoints("scanned-device", "listed")

DeviceAccessPointsLost ==
  \/ pc = "scan-device" /\ current \notin present /\ pc' = "not-found"
     /\ UNCHANGED <<path, todo, current, page>> /\ Reading
  \/ Lost("scanned-device", ~(page.ssids \subseteq visible))

-----------------------------------------------------------------------------
(* The reading of a profile's page: the profile, and then all the active   *)
(* connections, to look for the profile's own among them.                  *)
BeginProfile(p) ==
  /\ Begin(IF p \in profiles THEN "profile" ELSE "not-found") /\ UNCHANGED <<path, todo, page>>
  /\ current' = p

ReadProfile ==
  /\ Goto("profile", "list-active")
  /\ current \in Readable
  /\ UNCHANGED <<path, todo, current, page>> /\ Reading

ProfileLost == Lost("profile", current \notin Readable)

(* Mutant: only the primary connection is listed. *)
ListPrimary ==
  /\ Goto("list-active", "active")
  /\ todo' = {PrimaryPath} \ {NoPath}
  /\ UNCHANGED <<path, current, page>> /\ Reading

(* Mutant: the path "/" is listed, too. *)
ListAnyActive ==
  /\ Goto("list-active", "active")
  /\ todo' = {active[d] : d \in Devs}
  /\ UNCHANGED <<path, current, page>> /\ Reading

ListActive ==
  /\ Goto("list-active", "active")
  /\ todo' = {active[d] : d \in Devs} \ {NoPath}
  /\ UNCHANGED <<path, current, page>> /\ Reading

ReadActive ==
  \E a \in todo :
    /\ pc = "active" /\ Exists(a)
    /\ todo' = todo \ {a}
    /\ page' = [page EXCEPT !.activeOf[profileOf[a]] = TRUE]
    /\ UNCHANGED <<pc, path, current>> /\ Reading

(* An error is passed over, and with it the connections read already.      *)
NoActivity ==
  /\ pc' = "shown" /\ page' = [page EXCEPT !.activeOf = Blank.activeOf]
  /\ UNCHANGED <<path, todo, current>>

ActiveUnknown == pc = "active" /\ (\E a \in todo : ~Exists(a)) /\ NoActivity /\ Reading

ShowProfile ==
  /\ todo = {} /\ Goto("active", "shown")
  /\ UNCHANGED <<path, todo, current, page>> /\ Reading

-----------------------------------------------------------------------------
(* A call has an error for an answer though its object is there, or an     *)
(* answer of another type than expected, or the browser goes away.         *)
CallErrs ==
  /\ pc \in Stages
  /\ errored' = TRUE /\ UNCHANGED <<nmVars, seen, vanished>>
  /\ \/ pc \in {"scan", "scanned"} /\ NoNames
     \/ pc \in {"list-active", "active"} /\ NoActivity
     \/ /\ pc \notin {"scan", "scanned", "list-active", "active"}
        /\ pc' = "failed" /\ UNCHANGED <<path, todo, current, page>>

-----------------------------------------------------------------------------
NetworkManager ==
  \/ \E d \in Devs : Plug(d) \/ Unplug(d) \/ Configure(d) \/ Deactivate(d)
  \/ \E d \in Devs, p \in Profiles : Activate(d, p)
  \/ \E ap \in AccessPoints : Reach(ap)
  \/ \E p \in Profiles : AddProfile(p) \/ DeleteProfile(p)

Read ==
  \/ ReadPrimary \/ PrimaryLost
  \/ ListAccessPoints("scan", "scanned", Internet) \/ ReadAccessPoints("scanned", "list-devices")
  \/ AccessPointsUnknown \/ ListDevices
  \/ \E d \in Devs : ReadDevice(d) \/ DeviceLost(d)
  \/ ReadActiveConn \/ ActiveConnLost \/ ReadState \/ ReadConfigPath \/ ReadConfig \/ ConfigLost
  \/ ListAvailable \/ ReadAvailable \/ AvailableLost
  \/ ReadAccessPointPath \/ ReadAccessPoint \/ AccessPointLost \/ CurrentLost
  \/ ListProfiles \/ ReadProfiles \/ ProfilesLost
  \/ ReadDeviceAccessPoints \/ DeviceAccessPointsLost
  \/ ReadProfile \/ ProfileLost \/ ListActive \/ ReadActive \/ ActiveUnknown \/ ShowProfile

Next ==
  \/ NetworkManager \/ Read \/ CallErrs \/ BeginNetwork
  \/ \E d \in Wifis : BeginAccessPoints(d)
  \/ \E p \in Profiles : BeginProfile(p)

(* NetworkManager answers every call.  That it answers with errors is not assumed. *)
Spec == Init /\ [][Next]_vars /\ WF_vars(Read)

-----------------------------------------------------------------------------
(* PROPERTIES *)

(* Paths lead to activations that were made, a configured device is        *)
(* active, and the page has only devices and profiles that there can be.   *)
TypeOK ==
  /\ present \subseteq Devs /\ configured \subseteq present
  /\ visible \subseteq AccessPoints /\ profiles \subseteq Profiles
  /\ active \in [Devs -> {NoPath} \cup Made]
  /\ \A d \in configured : active[d] # NoPath
  /\ profileOf \in [Activations -> Profiles \cup {None}] /\ changes \in 0..MaxChanges
  /\ pc \in {"idle"} \cup Stages \cup Ends
  /\ path \in {NoPath} \cup Made /\ todo \subseteq Devs \cup Made
  /\ current \in Devs \cup Profiles \cup {None}
  /\ page.devices \subseteq Devs /\ page.profiles \subseteq Profiles

(* A page is read in many calls and can mix moments, but it invents        *)
(* nothing: every part of it was true at some moment since the reading     *)
(* began, so that a page that nothing has changed under is right.  Only    *)
(* the access points that the network's page lists are given up if one of  *)
(* them has vanished, or if a call for them has failed.                    *)
EveryPartWasTrue ==
  /\ pc = "done" =>
       /\ \E v \in seen : page.primary = v.primary
       /\ \E v \in seen : page.devices = v.devices
       /\ \E v \in seen : page.profiles = v.profiles
       /\ ((vanished \/ errored) /\ page.ssids = {}) \/ \E v \in seen : page.ssids = v.ssids
       /\ \A d \in page.devices :
            /\ \E v \in seen : page.active[d] = v.active[d]
            /\ \E v \in seen : page.state[d] = v.state[d]
            /\ \E v \in seen : page.config[d] = v.config[d]
            /\ \E v \in seen : page.available[d] = v.available[d]
            /\ \E v \in seen : page.ap[d] = v.ap[d]
  /\ pc = "listed" => \E v \in seen : page.ssids = v.visible

(* The page of a profile says that the profile is active only if it was,   *)
(* and that it is not only if it was not, or if an error, or connections   *)
(* that vanished meanwhile, be they its own or not, kept the others from   *)
(* being read.                                                             *)
ActivityWasTrue ==
  pc = "shown" =>
    \A p \in Profiles :
      \/ \E v \in seen : page.activeOf[p] = v.activeOf[p]
      \/ (vanished \/ errored) /\ ~page.activeOf[p]

(* A whole page fails if one object cannot be read, so that nothing is     *)
(* shown while connections come and go, nor as long as there is a profile  *)
(* which cannot be parsed; but it fails of nothing else: an object that is *)
(* listed and that stays is found.                                         *)
Asked == {current} \cup page.profiles \cup UNION {page.available[d] : d \in Devs}
FailureHasACause == pc = "failed" => vanished \/ errored \/ Unparsable \cap Asked # {}

(* However much changes, a page is read to its end, or fails.              *)
ReadEnds == pc \in Stages ~> pc \in Ends
=============================================================================
