--------------------------- MODULE MCConnSettings ---------------------------
(* ConnSettings with profiles and edits for TLC. *)
EXTENDS ConnSettings, TLC

CONSTANTS r1, r2

OneRequest == {r1}
TwoRequests == {r1, r2}

AllTexts == STRING
Numerals == ("0" :> 0) @@ ("00" :> 0) @@ ("6" :> 6) @@ ("1000" :> 1000) @@ ("2147483647" :> 2147483647)

Plain == ("connection.zone" :> "") @@ ("ipv4.method" :> "auto")
Wired == Plain @@ (TypeKey :> "802-3-ethernet")
Wifi(keyMgmt) == Plain @@ (TypeKey :> "802-11-wireless") @@ ("802-11-wireless.ssid" :> "net")
  @@ (KeyMgmt :> keyMgmt)
(* A hotspot, a network found open, and one for each irregularity. *)
Hotspot == Wifi("wpa-psk") @@ (PSK :> "pw0") @@ (Mode :> "ap") @@ (Band :> "bg") @@ (Channel :> 6)
  @@ ("802-11-wireless-security.group" :> "some")
  @@ ("802-11-wireless-security.proto" :> "all") @@ ("ipv4.addresses" :> "legacy")
Open == Plain @@ (TypeKey :> "802-11-wireless") @@ ("802-11-wireless.ssid" :> "net")
AdHoc == Open @@ (Mode :> "adhoc")
NullZone == ("connection.zone" :> "NULL") @@ Open
Enhanced == Wifi("owe")
NeverGivesUp == Wifi("sae") @@ (Timeout :> 2147483647) @@ (PSK :> "pw0")

AllProfiles == {Hotspot, Open, AdHoc, NullZone, Enhanced, NeverGivesUp, Wired}
WiredOnly == {Wired}
AdHocOnly == {AdHoc}
NullZoneOnly == {NullZone}

Unchanged == [k \in {} |-> ""]
SomeEdits == {Unchanged, Band :> "", (Band :> "") @@ (Channel :> "0"), (Band :> "") @@ (Channel :> "00"),
              Channel :> "6",
              (Band :> "bg") @@ (Channel :> "1000"), KeyMgmt :> "", KeyMgmt :> "wpa-psk",
              PSK :> "pw1", "connection.autoconnect-priority" :> "", LinkLocal :> "fallback"}
SomeBriefEdits == {Unchanged, KeyMgmt :> "", (KeyMgmt :> "wpa-psk") @@ (PSK :> "pw2"),
                   "802-11-wireless.ssid" :> "longer-than-32-bytes"}
NoEdits == {Unchanged}
=============================================================================
