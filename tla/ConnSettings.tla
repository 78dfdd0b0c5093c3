---------------------------- MODULE ConnSettings ----------------------------
(***************************************************************************)
(* The settings of ONE connection profile as the web pages show, submit    *)
(* and change them: the dump of NetworkManager's settings                  *)
(* (src/internal/clients/networkmanager/conn-profiles-settings*.go), the   *)
(* form made of the dump (src/web/templates/internet), the parser of the   *)
(* submitted form (src/internal/app/server/routes/internet/                *)
(* conn-profiles.go), and UpdateConnProfileByUUID, which reads all         *)
(* settings, merges the parsed ones into them and writes all of them back. *)
(*                                                                         *)
(* A setting that is absent is not in the domain of the settings.  A       *)
(* whitelist of ciphers is "any" (empty), "some" or "all".  The names of   *)
(* the specification differ from those of RescanNetworks, the other        *)
(* operation of the client, so that one module can prove about both.       *)
(***************************************************************************)
EXTENDS Integers

CONSTANTS
  Requests,    \* the pages opened and submitted, each once
  Profiles,    \* what the profile's settings may be at first
  Edits,       \* what a user may change in the settings form
  BriefEdits,  \* and in the form of the external network
  Texts,       \* what may be typed or stored as a text
  Atoi         \* the decimal numerals which occur, and their values

ASSUME TextsAssumption == "" \in Texts
(* What has an exponent or nothing at all is no decimal numeral.           *)
ASSUME AtoiAssumption ==
  /\ DOMAIN Atoi \cap {"", "with-an-exponent"} = {}
  /\ \A text \in DOMAIN Atoi : Atoi[text] \in Int
  /\ "0" \in DOMAIN Atoi /\ Atoi["0"] = 0

VARIABLES
  settings,  \* NetworkManager's settings in memory, its secret included
  saved,     \* the settings in the profile's file
  at,        \* where each request is
  form,      \* the fields it submits
  disk,      \* it is to update the profile's file, too
  shown,     \* the settings its page was made of (history)
  update,    \* the fields, parsed
  read,      \* the settings it has read to merge the update into
  raced      \* the settings have changed since it read them (history)

storeVars == <<settings, saved>>
requestVars == <<at, form, disk, shown, update, read>>
settingsVars == <<settings, saved, at, form, disk, shown, update, read, raced>>

-----------------------------------------------------------------------------
(* The keys the handler implements, by section, and the enumerations.      *)
ConnKeys == {"connection.autoconnect", "connection.autoconnect-priority", "connection.zone"}
WifiKeys == {"802-11-wireless.band", "802-11-wireless.channel", "802-11-wireless.hidden",
             "802-11-wireless.mode", "802-11-wireless.ssid"}
Whitelists == {"802-11-wireless-security.group", "802-11-wireless-security.pairwise",
               "802-11-wireless-security.proto"}
WifiSecKeys == Whitelists \cup
  {"802-11-wireless-security.key-mgmt", "802-11-wireless-security.psk"}
IPv4Keys == {"ipv4.dhcp-timeout", "ipv4.link-local", "ipv4.may-fail", "ipv4.method"}
Keys == ConnKeys \cup WifiKeys \cup WifiSecKeys \cup IPv4Keys
LegacyKeys == {"ipv4.addresses", "ipv4.routes", "ipv6.addresses", "ipv6.routes"}
TypeKey == "connection.type"

Band == "802-11-wireless.band"
Channel == "802-11-wireless.channel"
Mode == "802-11-wireless.mode"
KeyMgmt == "802-11-wireless-security.key-mgmt"
PSK == "802-11-wireless-security.psk"
Timeout == "ipv4.dhcp-timeout"
Zone == "connection.zone"
LinkLocal == "ipv4.link-local"
Method == "ipv4.method"

MaxInt32 == 2147483647
Bands == {"a", "bg", ""}
(* The short name of each mode is what the page compares. *)
ModeInfo ==
  [mode \in {"", "infrastructure", "mesh", "adhoc", "ap"} |->
     IF mode = "" THEN "infrastructure" ELSE IF mode = "adhoc" THEN "ad-hoc" ELSE mode]
KeyMgmts == {"", "none", "ieee8021x", "owe", "wpa-psk", "wpa-eap", "sae",
             "wpa-eap-suite-b-192"}
LinkLocalInfo ==
  [n \in 0..4 |-> <<"default", "auto", "disabled", "enabled", "fallback">>[n + 1]]
LinkLocalNames == {LinkLocalInfo[n] : n \in 0..4}
Methods == {"disabled", "auto", "manual", "link-local", "shared"}

-----------------------------------------------------------------------------
(* What a dump returns for a key that is absent; the method must be there. *)
ConnDefaults ==
  [k \in ConnKeys |-> IF k = "connection.autoconnect" THEN TRUE
                      ELSE IF k = "connection.autoconnect-priority" THEN 0 ELSE ""]
WifiDefaults ==
  [k \in WifiKeys |-> IF k = Channel THEN 0
                      ELSE IF k = "802-11-wireless.hidden" THEN FALSE
                      ELSE IF k = Mode THEN "infrastructure" ELSE ""]
WifiSecDefaults == [k \in WifiSecKeys |-> IF k \in Whitelists THEN "any" ELSE ""]
IPv4Defaults ==
  [k \in IPv4Keys \ {Method} |-> IF k = "ipv4.may-fail" THEN TRUE ELSE 0]
Default(k) ==
  IF k \in ConnKeys THEN ConnDefaults[k]
  ELSE IF k \in WifiKeys THEN WifiDefaults[k]
  ELSE IF k \in WifiSecKeys THEN WifiSecDefaults[k]
  ELSE IPv4Defaults[k]

EnsureVar(s, k) == IF k \in DOMAIN s THEN s[k] ELSE Default(k)

IsWifi(s) == s[TypeKey] = "802-11-wireless"

(* The sections of Wi-Fi are read for a Wi-Fi connection only. *)
DumpedKeys(s) == IF IsWifi(s) THEN Keys ELSE ConnKeys \cup IPv4Keys
Dump(s) ==
  [k \in DumpedKeys(s) |->
     IF k = Mode /\ EnsureVar(s, k) = "" THEN "infrastructure" ELSE EnsureVar(s, k)]

-----------------------------------------------------------------------------
(* A form is made of the dump.  Each kind of field prints its value in its *)
(* own way: the timeout goes through a floating-point number, whose        *)
(* decimal numeral has an exponent from a million on; of the modes the     *)
(* option with the short name of the present mode is selected, and the     *)
(* first option if there is none; a whitelist that allows everything has   *)
(* all its boxes checked; a zone named NULL is shown as none, and the      *)
(* password never.                                                         *)
Checkboxes == {"connection.autoconnect", "802-11-wireless.hidden", "ipv4.may-fail"}
Checked ==
  [k \in Checkboxes |-> IF k = "connection.autoconnect" THEN "on"
                        ELSE IF k = "802-11-wireless.hidden" THEN "true" ELSE "optional"]
Unchecked ==
  [k \in Checkboxes |-> IF k = "connection.autoconnect" THEN "off"
                        ELSE IF k = "802-11-wireless.hidden" THEN "false" ELSE "required"]
ExponentFrom == 1000000
Numbers == {"connection.autoconnect-priority", Channel, Timeout}

Numeral(n) == IF n = 0 THEN "0" ELSE CHOOSE text \in DOMAIN Atoi : Atoi[text] = n
OfferedModes == {"infrastructure", "ap", "mesh", "adhoc"}
SelectedMode(mode) == IF ModeInfo[mode] \in OfferedModes THEN ModeInfo[mode] ELSE "infrastructure"

Shown(k, v) ==
  IF k \in Checkboxes THEN IF v THEN Checked[k] ELSE Unchecked[k]
  ELSE IF k = Timeout /\ v >= ExponentFrom THEN "with-an-exponent"
  ELSE IF k \in Numbers THEN Numeral(v)
  ELSE IF k = Mode THEN SelectedMode(v)
  ELSE IF k \in Whitelists /\ v = "any" THEN "all"
  ELSE IF k = LinkLocal THEN LinkLocalInfo[v]
  ELSE IF k = PSK \/ (k = Zone /\ v = "NULL") THEN "" ELSE v

SettingsForm(s) == [k \in DumpedKeys(s) |-> Shown(k, Dump(s)[k])]

(* The form of the external network has four of the fields, and offers a   *)
(* password or none.                                                       *)
BriefKeys == {"802-11-wireless.ssid", KeyMgmt, PSK, "connection.autoconnect"}
BriefForm(s) ==
  LET shownIn == SettingsForm(s)
  IN  [k \in BriefKeys |->
         IF k = KeyMgmt /\ shownIn[k] # "" THEN "wpa-psk" ELSE shownIn[k]]

-----------------------------------------------------------------------------
(* The parsers of the submitted fields, one per section. *)
InRange(text, low, high) ==
  text \in DOMAIN Atoi /\ low <= Atoi[text] /\ Atoi[text] <= high
IsCheckbox(k, text) == text \in {Checked[k], Unchecked[k]}
ValidConn(k, text) ==
  \/ k = "connection.autoconnect" /\ IsCheckbox(k, text)
  \/ k = "connection.autoconnect-priority" /\ InRange(text, -999, 999)
  \/ k = "connection.zone"
(* Mutant: the channel is any number. *)
ValidWifiUnbounded(k, text) ==
  \/ k = Band /\ text \in Bands
  \/ k = Channel /\ text \in DOMAIN Atoi
  \/ k = "802-11-wireless.hidden" /\ IsCheckbox(k, text)
  \/ k = Mode /\ text \in DOMAIN ModeInfo
  \/ k = "802-11-wireless.ssid" /\ text # "longer-than-32-bytes"
ValidWifi(k, text) ==
  \/ k = Band /\ text \in Bands
  \/ k = Channel /\ InRange(text, -999, 999)
  \/ k = "802-11-wireless.hidden" /\ IsCheckbox(k, text)
  \/ k = Mode /\ text \in DOMAIN ModeInfo
  \/ k = "802-11-wireless.ssid" /\ text # "longer-than-32-bytes"
ValidWifiSec(k, text) ==
  \/ k \in Whitelists /\ text \in {"any", "some", "all"}
  \/ k = KeyMgmt /\ text \in KeyMgmts
  \/ k = PSK
ValidIPv4(k, text) ==
  \/ k = Timeout /\ InRange(text, 0, MaxInt32)
  \/ k = LinkLocal /\ text \in LinkLocalNames
  \/ k = "ipv4.may-fail" /\ IsCheckbox(k, text)
  \/ k = Method /\ text \in Methods

(* A field of a section or with a key which is not implemented is an error.*)
Valid(k, text) ==
  ValidConn(k, text) \/ ValidWifi(k, text) \/ ValidWifiSec(k, text) \/ ValidIPv4(k, text)

(* Mutant: checked and unchecked are swapped. *)
SwappedCheckbox(k, text) == text # Checked[k]
ParseCheckbox(k, text) == text = Checked[k]
NewLinkLocal(text) == CHOOSE n \in 0..4 : LinkLocalInfo[n] = text

Parsed(k, text) ==
  IF k \in Checkboxes THEN ParseCheckbox(k, text)
  ELSE IF k \in Numbers THEN Atoi[text]
  ELSE IF k \in Whitelists /\ text = "all" THEN "any"
  ELSE IF k = LinkLocal THEN NewLinkLocal(text) ELSE text

(* Mutant: every submitted password is taken. *)
KeepsBlank(f) == FALSE
(* In the modes which need a password, an empty field keeps the present    *)
(* one.                                                                    *)
KeepsPSK(f) == f[PSK] = "" /\ f[KeyMgmt] \notin {"none", "owe"}

ParsedForm(f) ==
  [k \in IF KeepsPSK(f) THEN DOMAIN f \ {PSK} ELSE DOMAIN f |-> Parsed(k, f[k])]

(* Mutant: the band is not looked at. *)
UncheckedProfile(f) == Channel \in DOMAIN f => Band \in DOMAIN f
CheckConnProfile(f) == Channel \in DOMAIN f => (f[Channel] = "0" \/ f[Band] # "")

-----------------------------------------------------------------------------
(* Some values put over others. *)
Over(new, old) ==
  [k \in DOMAIN new \cup DOMAIN old |-> IF k \in DOMAIN new THEN new[k] ELSE old[k]]

(* UpdateConnProfileByUUID on the settings it has read, which come without *)
(* the secret.                                                             *)
WithoutKeys(s, gone) == [k \in DOMAIN s \ gone |-> s[k]]

GetSettings(s) == WithoutKeys(s, {PSK})

(* Mutant: an open network keeps its security section. *)
MergedSecure(s, u) ==
  WithoutKeys(Over(u, s), LegacyKeys \cup (IF Band \in DOMAIN u /\ u[Band] = "" THEN {Band} ELSE {}))
(* An empty band is left out, which NetworkManager wants; the deprecated   *)
(* addresses would override the others; a network without key management   *)
(* has no security section.                                                *)
Merged(s, u) ==
  WithoutKeys(Over(u, s),
    LegacyKeys
    \cup (IF Band \in DOMAIN u /\ u[Band] = "" THEN {Band} ELSE {})
    \cup (IF KeyMgmt \in DOMAIN u /\ u[KeyMgmt] = "" THEN WifiSecKeys ELSE {}))

(* NetworkManager rejects an empty password (so conn-profiles.go:250). *)
Acceptable(s) == PSK \in DOMAIN s => s[PSK] # ""
(* It keeps the secret it has if an update with security comes without.    *)
KeepSecret(s, old) ==
  IF PSK \in DOMAIN old /\ PSK \notin DOMAIN s /\ KeyMgmt \in DOMAIN s
  THEN [k \in DOMAIN s \cup {PSK} |-> IF k = PSK THEN old[PSK] ELSE s[k]]
  ELSE s

-----------------------------------------------------------------------------
(* The values of each key which a dump can read and a form can show. *)
TextKeys == LegacyKeys \cup {TypeKey, "connection.zone", "802-11-wireless.ssid", PSK}
Fits(k, v) ==
  /\ k \in Checkboxes => v \in BOOLEAN
  /\ k \in Numbers \ {Timeout} => v \in Int /\ -999 <= v /\ v <= 999
  /\ k = Timeout => v \in Nat /\ v <= MaxInt32
  /\ k = LinkLocal => v \in 0..4
  /\ k \in Whitelists => v \in {"any", "some", "all"}
  /\ k = Band => v \in Bands
  /\ k = Mode => v \in DOMAIN ModeInfo
  /\ k = KeyMgmt => v \in KeyMgmts
  /\ k = Method => v \in Methods
  /\ k \in TextKeys => v \in Texts
  /\ k = "802-11-wireless.ssid" => v # "longer-than-32-bytes"
WellTyped(s) ==
  /\ DOMAIN s \subseteq Keys \cup LegacyKeys \cup {TypeKey}
  /\ \A k \in DOMAIN s : Fits(k, s[k])

NamesBand(s) == EnsureVar(s, Channel) # 0 => EnsureVar(s, Band) # ""
OpenIsBare(s) == EnsureVar(s, KeyMgmt) = "" => DOMAIN s \cap WifiSecKeys = {}
HasNumerals(s) == \A k \in Numbers \cap DOMAIN s : \E text \in DOMAIN Atoi : Atoi[text] = s[k]

(* The settings NetworkManager accepts of a profile that a dump can read:  *)
(* it has a type and a method for IPv4; a channel needs a band; without    *)
(* key management there is no section for security.                        *)
Sound(s) ==
  /\ WellTyped(s)
  /\ {TypeKey, Method} \subseteq DOMAIN s
  /\ NamesBand(s) /\ OpenIsBare(s)
  /\ HasNumerals(s)

ASSUME ProfilesAssumption == \A s \in Profiles : Sound(s)

(* What is typed into a field is text, and each form has its fields only.  *)
ASSUME EditsAssumption ==
  /\ \A edit \in Edits \cup BriefEdits : \A k \in DOMAIN edit \cap TextKeys :
       edit[k] \in Texts
  /\ \A edit \in BriefEdits : DOMAIN edit \subseteq BriefKeys

-----------------------------------------------------------------------------
NoForm == [k \in {} |-> ""]

SettingsInit ==
  /\ settings \in Profiles
  /\ saved = settings
  /\ at = [r \in Requests |-> "idle"]
  /\ form = [r \in Requests |-> NoForm]
  /\ disk = [r \in Requests |-> FALSE]
  /\ shown = [r \in Requests |-> settings]
  /\ update = [r \in Requests |-> NoForm]
  /\ read = [r \in Requests |-> NoForm]
  /\ raced = [r \in Requests |-> FALSE]

Goto(r, from, to) == at[r] = from /\ at' = [at EXCEPT ![r] = to]

(* A user opens a page, and changes some fields of one of its forms.  Of   *)
(* the two buttons of the settings form, one saves.                        *)
OpenSettings(r) ==
  /\ Goto(r, "idle", "page")
  /\ shown' = [shown EXCEPT ![r] = settings]
  /\ \E edit \in Edits :
       /\ DOMAIN edit \subseteq DumpedKeys(settings)
       /\ form' = [form EXCEPT ![r] = Over(edit, SettingsForm(settings))]
  /\ \E save \in BOOLEAN : disk' = [disk EXCEPT ![r] = save]
  /\ UNCHANGED <<storeVars, update, read, raced>>

OpenExternalNetwork(r) ==
  /\ IsWifi(settings)
  /\ Goto(r, "idle", "page")
  /\ shown' = [shown EXCEPT ![r] = settings]
  /\ \E edit \in BriefEdits : form' = [form EXCEPT ![r] = Over(edit, BriefForm(settings))]
  /\ disk' = [disk EXCEPT ![r] = TRUE]
  /\ UNCHANGED <<storeVars, update, read, raced>>

(* updateConnProfile: parse the fields, decide on the password, check.     *)
(* The fields of key management and password are indexed whether or not    *)
(* they were submitted, and a panic ends the request.                      *)
Parse(r) ==
  /\ at[r] = "page"
  /\ LET f == form[r]
         wellFormed == \A k \in DOMAIN f : Valid(k, f[k])
         hasSecurity == {KeyMgmt, PSK} \subseteq DOMAIN f
     IN  \/ /\ ~wellFormed
            /\ Goto(r, "page", "invalid") /\ UNCHANGED update
         \/ /\ wellFormed /\ ~hasSecurity
            /\ Goto(r, "page", "panicked") /\ UNCHANGED update
         \/ /\ wellFormed /\ hasSecurity /\ ~CheckConnProfile(f)
            /\ Goto(r, "page", "invalid") /\ UNCHANGED update
         \/ /\ wellFormed /\ hasSecurity /\ CheckConnProfile(f)
            /\ Goto(r, "page", "parsed")
            /\ update' = [update EXCEPT ![r] = ParsedForm(f)]
  /\ UNCHANGED <<storeVars, form, disk, shown, read, raced>>

(* Mutant: the settings the page was made of are taken for the present.    *)
ReadShown(r) ==
  /\ Goto(r, "parsed", "read")
  /\ read' = [read EXCEPT ![r] = GetSettings(shown[r])]
  /\ raced' = [raced EXCEPT ![r] = FALSE]
  /\ UNCHANGED <<storeVars, form, disk, shown, update>>

Read(r) ==
  /\ Goto(r, "parsed", "read")
  /\ read' = [read EXCEPT ![r] = GetSettings(settings)]
  /\ raced' = [raced EXCEPT ![r] = FALSE]
  /\ UNCHANGED <<storeVars, form, disk, shown, update>>

Races == raced' = [r \in Requests |-> raced[r] \/ settings' # settings]

(* Update2 replaces all settings, in memory or also in the file; that it   *)
(* has done so may not be heard of.                                        *)
Write(r) ==
  /\ Acceptable(Merged(read[r], update[r]))
  /\ Goto(r, "read", "redirected") \/ Goto(r, "read", "failed")
  /\ settings' = KeepSecret(Merged(read[r], update[r]), settings)
  /\ saved' = IF disk[r] THEN settings' ELSE saved
  /\ Races
  /\ UNCHANGED <<form, disk, shown, update, read>>

WriteRejected(r) ==
  /\ ~Acceptable(Merged(read[r], update[r]))
  /\ Goto(r, "read", "rejected")
  /\ UNCHANGED <<storeVars, form, disk, shown, update, read, raced>>

(* NetworkManager does not know the profile any more, or does not answer.  *)
UpdateFails(r) ==
  /\ at[r] \in {"parsed", "read"}
  /\ at' = [at EXCEPT ![r] = "failed"]
  /\ UNCHANGED <<storeVars, form, disk, shown, update, read, raced>>

(* Somebody has NetworkManager load the profile's file again. *)
Reload == settings' = saved /\ Races /\ UNCHANGED <<saved, requestVars>>

Step(r) ==
  \/ OpenSettings(r) \/ OpenExternalNetwork(r) \/ Parse(r) \/ Read(r)
  \/ Write(r) \/ WriteRejected(r) \/ UpdateFails(r)

SettingsNext == (\E r \in Requests : Step(r)) \/ Reload

SettingsSpec == SettingsInit /\ [][SettingsNext]_settingsVars

-----------------------------------------------------------------------------
(* PROPERTIES *)

(* The settings in every place have the keys and the types of values that  *)
(* the pages and the parsers know.                                         *)
SettingsTypeOK ==
  /\ WellTyped(settings) /\ WellTyped(saved)
  /\ at \in [Requests -> {"idle", "page", "parsed", "read", "redirected", "invalid",
                          "panicked", "rejected", "failed"}]
  /\ DOMAIN form = Requests
  /\ disk \in [Requests -> BOOLEAN] /\ raced \in [Requests -> BOOLEAN]
  /\ DOMAIN shown = Requests /\ DOMAIN update = Requests /\ DOMAIN read = Requests
  /\ \A r \in Requests : WellTyped(shown[r]) /\ WellTyped(update[r]) /\ WellTyped(read[r])

(* checkConnProfile looks at one form only, but through any interleaving   *)
(* of partial and whole updates no settings require a channel without      *)
(* naming its band.                                                        *)
ChannelHasBand ==
  NamesBand(settings) /\ NamesBand(saved)

(* A network without key management keeps no password and no ciphers,      *)
(* however the updates which opened and closed it interleave.              *)
OpenHasNoSecret ==
  OpenIsBare(settings) /\ OpenIsBare(saved)

Unedited(r) == form[r] = SettingsForm(shown[r])

(* The form as the page shows it is accepted, unless the connection is     *)
(* wired, which panics, or its DHCP timeout is printed with an exponent,   *)
(* or it uses WEP or OWE, in which an empty field means an empty password. *)
KnownToBeRefused(s) ==
  \/ ~IsWifi(s)
  \/ EnsureVar(s, Timeout) >= ExponentFrom
  \/ EnsureVar(s, KeyMgmt) \in {"none", "owe"}
UnmodifiedFormIsAccepted ==
  \A r \in Requests :
    (at[r] \in {"invalid", "panicked", "rejected"} /\ Unedited(r)) => KnownToBeRefused(shown[r])

(* A whitelist that names every cipher allows what an empty one does.      *)
Meaning(s) ==
  [k \in DumpedKeys(s) |->
     IF k \in Whitelists /\ Dump(s)[k] = "all" THEN "any" ELSE Dump(s)[k]]

(* Of these the page shows another value: ad-hoc mode passes for the first *)
(* of the modes, and a zone named NULL for none.                           *)
Misprinted(s) ==
  {k \in {Mode} : EnsureVar(s, k) = "adhoc"} \cup {k \in {Zone} : EnsureVar(s, k) = "NULL"}

(* A request whose page is still up to date ends as the page shows it.     *)
EndsUnedited(r) ==
  at[r] = "read" /\ at'[r] # "read" /\ Unedited(r) /\ shown[r] = settings

(* Submitting the form as the page shows it leaves the settings as they    *)
(* are, the password which the form does not show included, but for those  *)
(* which it misprints (settings-form.partial.tmpl:189).                    *)
UnmodifiedFormChangesNothing ==
  [][\A r \in Requests : EndsUnedited(r) =>
       \A k \in DumpedKeys(settings) \ Misprinted(settings) :
         Meaning(settings')[k] = Meaning(settings)[k]]_settingsVars

(* A request that writes back all settings destroys another's change of a  *)
(* key that it did not submit only if the change came between its reading  *)
(* and its writing.                                                        *)
NotSubmitted(r, k) ==
  k \notin DOMAIN update[r] /\ ~(k \in WifiSecKeys /\ update[r][KeyMgmt] = "")
LossesNeedARace ==
  [][\A r \in Requests :
       (at[r] = "read" /\ at'[r] # "read" /\ ~raced[r])
       => \A k \in Keys : NotSubmitted(r, k) => EnsureVar(settings', k) = EnsureVar(settings, k)]_settingsVars

(* The pages of a profile say "Save and apply" of every profile they show. *)
EveryFormIsHandled == \A r \in Requests : at[r] # "panicked"

(* The page shows the settings the profile has: what it shows may be       *)
(* saved without changing anything.                                        *)
PageShowsTheSettings ==
  [][\A r \in Requests : EndsUnedited(r) => Meaning(settings') = Meaning(settings)]_settingsVars
=============================================================================
