# Specifications of device-admin

device-admin is the web interface for the administration of a device that runs
openUC2's OS: its Wi-Fi hotspot and networks, drives, remote access and reboot.
These modules specify the parts whose correctness depends on the order of steps
taken by several actors. They are written from the Go code under `src/`.

## The system

```
 browser ──HTTP / websocket──> web server ──varlink──> sidecar (root)
                                   │                      │  files in /etc/NetworkManager
                                   │ D-Bus                │ D-Bus
                                   ▼                      ▼
                       NetworkManager, UDisks2     systemd, NetworkManager
                       Tailscale (local socket)
```

Two processes. The *web server* (`server.go`, `internal/app/server`) serves each
request and each live page in its own goroutine. The *sidecar* (`sidecar.go`,
`internal/app/sidecar`) has the privileges and serves each varlink connection in
its own goroutine. Neither takes a lock around anything described below; they
share the file system, systemd's job queue and NetworkManager's settings.

| Component | State | Operations | What is hard | Correct when | Modules |
|---|---|---|---|---|---|
| Drop-in password file (`sidecar/routes/openuc2`) | `51-wifi-security-password.nmconnection` and its `.swp` | `UpdatePSKDropInFile` | concurrent calls share the swap file; crash between write and rename; lost reply | readers see the old or the new file; damage is never silent | `PSKDropIn`, `PSKStore` |
| Regeneration (`sidecar/routes/openuc2`, `clients/systemd`) | systemd units `assemble-networkmanager-connection…@` | `RegenerateDropInConnProfile` | `RestartUnit` only queues a job | a drop-in that was updated reaches the profile's file | `ConnProfilePost` |
| Connection profile requests (`server/routes/internet/conn-profiles.go`) | none of its own; moves a password from the drop-in to the file, to NetworkManager, to the air | five optional stages, the parsers of the settings form | stops at the first error without rollback; requests overlap with each other and with the assembly | what is on the air or in the file can be accounted for; the form round-trips | `ConnProfilePost`, `ConnSettings` |
| NetworkManager client, profiles (`clients/networkmanager/conn-profiles*.go`) | NetworkManager's settings | reload, update, activate, dump | read-modify-write of all settings; a secret that is not read | an update changes only what was submitted | `ConnSettings`, `ConnProfilePost` |
| NetworkManager client, scans (`accesspoints.go`) | `LastScan` of the device | `RescanNetworks`, `ScanNetworks` | polls a wrapping timestamp while other calls and the device itself scan | success follows a scan; the call ends | `RescanNetworks`, `NetworkPage` |
| NetworkManager client, devices (`devices*.go`, `ipconfigs.go`, `active-conns.go`, …) | none; reads NetworkManager's objects | `GetDevices`, `Get`, `ListActiveConns`, `ListConnProfiles` | dozens of D-Bus calls for one page, paths followed later | a page shows nothing that was never true | `NetworkPage` |
| Live pages (`HandleXPub`, `handling/turbostreams.go`) | subscriptions in the broker (godest) | publish every few seconds | an error ends the publisher; publishers start and stop with subscriptions | a page that is open keeps being updated, as itself | `LivePages` |
| UDisks2 client (`clients/udisks2`) | block devices and mounts | list, mount, unmount, unmount a whole drive | concurrent unmounts over a stale snapshot | a failure of one device does not spare the others | `UnmountDrive`, `StoragePage` |
| Storage page (`server/routes/storage`, `clients/diskusage`) | none | `getStorageViewData` | snapshots of drives, devices, mounts and usages taken one after the other; maps keyed by drive | a system drive is not shown as removable; usages are of the right file system | `StoragePage` |
| Lifecycle (`server.go`, `sidecar.go`, `Run`, `Shutdown`) | D-Bus connections of the clients | open in the background, serve, shut down | requests arrive before the bus is open; websockets at shutdown | what was opened stays; a shutdown ends | `LivePages`, `SidecarIPC` |
| Sidecar IPC (`internal/app/ipc`, `clients/sidecar`, `sidecar/routes`) | the sidecar's process and buses, varlink connections | connect, send, dispatch, reply | the sidecar panics, stops, restarts; replies get lost | nothing is done twice; success is earned | `SidecarIPC`, `AtMostOnce` |
| Boot requests (`server/routes/boot`, `sidecar/routes/boot`) | none | reboot, soft reboot, power off | the answer races the end of the process | as for the IPC | `SidecarIPC` |
| Tailscale (`clients/tailscale`) | preferences of tailscaled | provision, deprovision | read-modify-write of the preferences | a deprovisioned device stays so | page in `LivePages` |
| Overlay file system (`server/overlayfs.go`) | none | `Open`, `ReadDir`, `Sub` … | merging two trees, nil upper tree | upper hides lower, nothing else is lost | – |
| Static pages, templates, browser code | what a page shows | render; replace parts of a page | only marked frames are replaced | | the replacement in `LivePages` |

`PROJECT.json` lists every component with its sources and status, the hazards at
their lines, the runs, the mutants that break each property, the findings, the theorems and
the mapping of definitions to source lines.

## Modules

### PSKDropIn: one drop-in file and its writers

An action is one file-system operation of one call of `UpdatePSKDropInFile`:

| Action | Code |
|---|---|
| `OpenDropIn`, `OpenDropInFails` | `os.OpenRoot`, the open in `ReadFile`; a missing directory returns *without* a reply |
| `ReadDropIn` | the read, then `setKey` on the local lines |
| `OpenSwap` | `WriteFile`: open with `O_CREATE`, `O_TRUNC` |
| `WriteSwap`, `WriteSwapFails` | `WriteFile`: write; a failure leaves the truncated swap file |
| `RenameSwap`, `RenameSwapFails` | `Rename`, of whatever has the swap file's name now |
| `ReplyOK` | the answer |
| `Crash` | the process ends (`sidecarMain` does not wait for calls); files stay |

State: `dropIn` and `swap` are what the two *names* refer to, `inode` is the
contents of files. This distinction is needed: `rename` moves a name while
another call keeps an open descriptor to the same file. Contents are the set of psk values and the
set of other lines; order of lines, quoting and the repetition of equal psk lines
are abstracted. Data written over longer data leaves a tail (`Overwrite`): whole lines, or bytes
that are glued to the last line written (`Glued`), which is the password's, since `setKey` appends
it without a newline. `Leftover` stands for a line that is spoiled in this way, be it a psk or not.
`Serialized` is an assumption about clients: `TRUE` when no two calls are made at
once. The code does not enforce it, so both values are checked.

Other assumptions: a name refers to a local file system with POSIX semantics; a
single `write` transfers all data or fails before any; no two reads of one
`ReadFile` are separated by another call's write. A power failure without `fsync`
is not modelled.

**PSKStore** is the abstract specification: the drop-in as a register that
`Update` replaces at once; `Acknowledge`, `Reject` and `Disconnect` tell the
client. `PSKDropIn` refines it (`StoreSpec`, with the state function
`StoreStatus` and the file behind the name as the mapping) if calls are
serial: `RenameSwap` is `Update`, everything before it is a stutter.

### ConnProfilePost: from a form to the air

One connection profile, several requests to `HandleConnProfilePostByUUID`. A request is at a
*stage*; the form it submits says which stages are run, exactly as the hidden fields of the
templates do (`HotspotForm`, `ExternalNetworkForm`, …). Each stage is one action for the whole
call: `UpdateDropIn` (as `PSKStore` promises), `RestartTemplated` and `RestartAssembly` (the two
`RestartUnit` calls of the sidecar), `Reload`, `Update`, `Activate`, `Redirect`; `Skip` passes
over a stage the form does not ask for. `Fail` ends the request wherever it is with the call not
made; a call that was carried out lets the request go on or, its reply being an error or lost,
ends it as "unconfirmed" (`Called`). This goes for `Update2` and the reload as well as for the
drop-in. `StartAssembly`, `FinishAssembly` and `AssemblyFails` are systemd's: the unit reads the
drop-in when it starts and replaces the profile's file when it finishes; a restart of a running
unit discards what it read.

`UpdateDropIn` is one step here because `PSKDropIn` refines `PSKStore`, which is
shown for serial calls only. What is said of overlapping requests below therefore
supposes that their calls of `UpdatePSKDropInFile` do not overlap as well; the runs
`psk_concurrent` and `psk_atomic` say what happens when they do.

The state follows a password through four places, `dropIn`, `profileFile`, `loaded`
(NetworkManager's settings) and `active` (the connection). `assembled` and `savedOver` are
history variables: the passwords that some assembly has put in the file, and whether an update
has saved settings over the last of them. Other settings, and the removal of the password by an
empty key management, are left to `ConnSettings`.

External behaviour, taken from how the code uses it: a queued job is merged with a
new restart; settings updated in memory hide the file until it is loaded again;
an update without a psk leaves NetworkManager's secret in place.

### RescanNetworks: waiting for a scan

Calls of `RescanNetworks` for one device: `ReadLastScan`, `RequestScan`, `Poll`
once a second until the timestamp differs, `Fail` for cancellation and D-Bus errors.
The device begins and ends scans (`BeginScan`, `FinishScan`) on request
and of its own accord, and `Tick` advances a clock of `Width` values that
wraps around. The variables `finished`, `inProgress` and `served` are history
variables for the properties. Time is counted in polling periods, and a D-Bus
call takes less than one of them.

### UnmountDrive: safe removal

One call of `UnmountDrive` for a drive, and everybody else. The call lists the block
devices (`List`) and reads them one by one (`Dump`, in any order, since nothing depends on it); the
goroutines it starts (`Spawn`) each search for their device from the beginning
(`WorkerLists`, `WorkerDumps`) and unmount it (`Unmount`, `UnmountRefused`). Any call may have an
error for its answer, of a device that has gone or not. A dump fails of it, but for the reading of
the file system, where `dumpFilesystem` takes any error for the answer of a device without one and
the device is passed over (`DumpOverlooked`). A device may be mounted in several places (`Mounts`
are pairs of a device and a place); it is unmounted once, which clears one of them
(`UnmountedOnce`). `Wait` returns the first error.
Others mount, unmount, pull out and plug in devices at any time, and the user may leave
(`Cancel`). History variables: `remounted`, `spared` (the mounts of a device that was passed over,
and those besides the one that was cleared), `refused`, `vanished`. IDs are distinct where they
are not empty.

What a success means is therefore `OnlyKnownMountsRemain`. The stronger `SafeToPullOut`, which the
page's text would need, does not hold; see "Disagreements".

### ConnSettings: the settings form and the read-modify-write behind it

One profile, its settings in memory and in its file, and requests that open a page
(`OpenSettings`, `OpenExternalNetwork`), have the form parsed (`Parse`:
`parseConnProfileSettingsField`, the decision on the password, `checkConnProfile`, and the panic
when the two security fields are absent), read all settings (`Read`: `GetSettings`, which omits
the secret), and write the merge back (`Write`, `WriteRejected`: `Update2`, in memory or also to
disk, after which the request is redirected or, its reply being lost, fails). `Reload` is
somebody else's reload of the file. The three conversions are modelled by what they do, field by
field: `Dump` with the defaults of absent keys, `SettingsForm` and `BriefForm` for what the
templates print and select, and `Valid`/`Parsed` for the parsers. Numbers keep the ranges of the
code; `Atoi` gives the decimal numerals that occur and their values (`strconv.Atoi` reads "00" as
0, which `checkConnProfile`, comparing the text with "0", does not take for it). `Texts` is what
may be typed or stored as a text. A whitelist of ciphers is "any" (empty), "some" or "all";
`Meaning` identifies "any" and "all", which allow the same.

`Sound` says which settings the profile may have at first: those that a dump can read and that
NetworkManager accepts, that is, with a method for IPv4, a band if there is a channel, and no
security section without key management. The definitions are called `SettingsInit`,
`SettingsNext`, `SettingsSpec` and so on so that one module can extend this and `RescanNetworks`,
the two operations of the same client.

External, as the code's comments use it: NetworkManager refuses an empty password
(`conn-profiles.go:250`) and keeps its secret if an update with key management comes
without one. The IPv6 section is only displayed and left out.

`UnmodifiedFormIsAccepted` names what is refused (`KnownToBeRefused`): wired profiles, whose
form has no security fields; DHCP timeouts from 1 000 000 s, which are printed with an exponent;
WEP and OWE, in which an empty field stands for an empty password.
`UnmodifiedFormChangesNothing` is stated key by key and excepts the two settings that the page
shows otherwise than they are (`Misprinted`): ad-hoc mode, and a zone named NULL, which is shown as
none. See "Disagreements" for both.

### SidecarIPC: a request through the sidecar to systemd

The handlers of boot requests and of profile requests in the web server, a varlink call each, and
the sidecar's process.

| Action | Code |
|---|---|
| `Arrive`, `RejectState` | `HandleBootPost`, `HandleConnProfilesPost` and their switch over the state |
| `Connect`, `ConnectFails`, `Send`, `SendFails`, `Receive` | `clients/sidecar`, the generated client of the three interfaces |
| `Serve` | `VarlinkDispatch` of the interface and the handler in `sidecar/routes`, up to the call it makes |
| `ServePanics` | the same with a nil bus: the opening is not over, or has failed |
| `Finish`, `Reply` | the operation ends; the reply reports it |
| `StartSidecar`, `Open`, `StopSidecar` | `sidecarMain`, `Run` and its openers, the signal |
| `Leave`, `WebServerEnds` | the request's context is cancelled; the web server goes |

`MethodOf` and `Dispatch` are the tables of methods, bus and operation; `asked` records, for each
request, the operations started for it. systemd and NetworkManager finish what they were asked
even if the sidecar has gone. Of the methods, one of each bus and kind stands for the others;
the generated `Upgrade` methods are used by nobody.

**AtMostOnce** is the abstract specification: what whoever submits such a form is entitled to
believe. An operation is carried out once or not at all (`Begin`, `End`); a redirection
(`Redirect`) follows it; after a failure (`Fail`) nothing begins any more; only a request that was
abandoned may still begin. There is no sidecar, no connection and no call in it. `SidecarIPC`
refines it (`AtMostOnceSpec`) with `Outcome` as the mapping of a request's place in the handler to
what has been made known of it; connecting, sending, receiving, opening buses and the sidecar's
stops and panics are stutters, and the end of the web server is `Abandon` of all that was pending.

### NetworkPage: reading NetworkManager object by object

NetworkManager's side adds and removes devices, activates, configures and ends connections, adds
and removes profiles, and access points come and go. Against this, the three readings of the web
server, in the order of the code: the network's page (`Get`, `ScanNetworks`, `GetDevices`,
`ListConnProfiles`), a device's access points (`ScanNetworks`), and a profile
(`GetConnProfileByUUID`, `ListActiveConns`). One action reads one object; where a property is the
path of another object, following it is an action of its own (`ReadDevice` notes the path of the
active connection, `ReadActiveConn` follows it), and `…Lost` is the error if it has gone. What
fails a page although nothing has gone is in the model, too: a profile may be `Unparsable`
(without a method for IPv4, for instance, `conn-profiles-settings.go:340`), which fails whatever
reads it (`Readable`), and any call may have an error for its answer (`CallErrs`), be it a
timeout, a refusal, a value of another type, a UUID that is none, or a browser that has gone.
Errors that the code passes over are `AccessPointsUnknown` and `ActiveUnknown`, with `NoNames`
and `NoActivity` for what is shown then. The history variable `seen` is the set of all the views
there have been since the reading began; `vanished` says that an object has gone since, `errored`
that a call had an error. Addresses, nameservers and DHCP options of one configuration are one
step; names of enumerated values and further fields read in the same call are left out.

### LivePages: start-up, subscriptions, publishers, shutdown

`server` goes from `starting` over `serving` or `failed` to `draining` and `exited` (`Start`,
`StartFails`, `RunEnds`, `Signal`, `StartReturns`, `ShutdownEnds`, `ShutdownTimesOut`); `Open`,
`OpenFails` and `Close` are the workers of `Run`. A viewer requests a page, loads it, subscribes
to the page's topic, and leaves; the first subscriber starts the topic's publisher and the last
one cancels it. A publisher's turn is `Rescan` (where the page has one), `Read`, `Publish`,
`NextTurn`; `TurnFails` ends it for all subscribers; `PublisherPanics` and `CheckPanics` are
uses of a bus that is not open outside the handlers that the recovery middleware covers, with
both outcomes, since the broker's part is not in the repository. `ReadNothing` is the home page
without data. Publishers, subscribers and cancellation follow the use made of godest (external).

The minimal storage page subscribes to the topic of the full page, whose publisher renders the
full page; `ModeIsKept` names this exception.

A publication does not replace a page. The browser's `streamActionReload` replaces the frames that
are marked for it (`Reloaded`), so that what a viewer sees has two versions, of the frames and of
the forms outside of them, which the hotspot and the profile's settings have (`PagesWithForms`) and
which change only when the page is got (`Got`). `ViewersCatchUp` is about the frames;
`FormsCatchUp` shows that it cannot be said of the forms.

### StoragePage: drives, devices, mounts and usages

`getStorageViewData` in its steps: `ListDrives`, `DumpDrive`, `ListDevices`, `DumpDevice`
(`DumpOverlooked`: a device whose file system cannot be read, for whatever error, looks like one
without, and is `unread`), `Measure`, `BeginDevice` and `PassDevice` (a device's turn in the
loop, which makes the map of its drive anew), `GetUsage` (`statfs` of one place, which may fail,
and tells of the file system on top), `Classify` (`isSystem`). Meanwhile `Mount`, `Unmount`,
`RemoveDevice`, `RemoveDrive` and `PlugIn` happen; `touched` collects what has changed. Several
devices may be mounted at one place, one of them on top (`top`), and one device at several
places; when one is unmounted, any of those below may come to light. Devices without a drive, and
drives that share an ID or have none, are included: the code keys its maps by ID.

## Runs

`CHECK_DEADLOCK FALSE` stands where the system really may stop: each call, request or reading of
`PSKDropIn`, `ConnProfilePost`, `SidecarIPC`, `NetworkPage` and `StoragePage` is made once, and
`LivePages` ends with its process. The other runs keep the check.

| Run | Result | Shows |
|---|---|---|
| `psk_serial` | passes | three serial calls: type invariant, `DropInIntact` in every state, refinement of `PSKStore` |
| `psk_concurrent` | passes | three unrestricted calls: `NoSilentCorruption`; the old password goes when a call succeeds (`PasswordIsReplaced`) |
| `psk_atomic` | **violated** | two concurrent calls expose an empty drop-in (`DropInIntact`) |
| `post_forms` | passes | two requests of any form: type invariant, `AssembledOrOwed`, `OnAirNeedsAssembly`, `EventuallyAssembled` |
| `rescan` | passes | `SuccessMeansAScan`, `FinishedScanIsNoticed`, `EveryCallEnds` |
| `unmount` | passes | `OnlyKnownMountsRemain`: what is mounted after a success came later, could not be read, or was a further place of its device; `FailuresStaySeparate`; `CallReturns` |
| `settings` | passes | the form round-trips (`UnmodifiedFormIsAccepted`, `UnmodifiedFormChangesNothing`); no interleaving leaves a channel without a band (`ChannelHasBand`) or a secret in an open network (`OpenHasNoSecret`); updates are lost to races only (`LossesNeedARace`) |
| `ipc` | passes | nothing is asked of systemd twice (`AskedOnce`), requests are carried out as `AtMostOnce` promises: a success follows its operation, and nothing begins after a failure (`AtMostOnceSpec`); every request ends (`EveryRequestEnds`) |
| `network_page` | passes | a page may mix moments but shows nothing that was never true (`EveryPartWasTrue`, `ActivityWasTrue`), fails only of something that vanished, an error, or a profile that cannot be parsed (`FailureHasACause`), and ends (`ReadEnds`) |
| `live_pages` | passes | buses last until the shutdown (`BusesLastWhileServing`), pages keep their mode (`ModeIsKept`), the reloaded frames of subscribers catch up (`ViewersCatchUp`), a shutdown completes (`ShutdownCompletes`) |
| `storage` | passes | the drive of an untouched system mount that could be read is never shown as removable (`SystemDrivesAreKept`); what did not change is shown as it is (`UntouchedIsShown`) |
| `storage_usages` | **violated** | the usage of a mount point is dropped by the next partition of its drive (`UsagesAreKept`) |

### Disagreements

Where a comment, an error text or a label in the repository says of the program what it does not do,
a configuration exhibits it. Two are runs of `PROJECT.json`, where `findings` quotes
them; the others are kept beside them, and each ends with the violation of its one property:

| Configuration | The repository says | The code does |
|---|---|---|
| `MCPSKDropIn_atomic` | "couldn't atomically write updated drop-in file" (`sidecar/routes/openuc2/routes.go:66`) | one swap file for all calls: the drop-in is visibly empty |
| `MCStoragePage_UsagesAreKept` | "keyed by drive ID, then mount point" (`server/routes/storage/routes.go:75`) | the map of a drive is made anew for each of its devices (line 96) |
| `MCConnProfilePost_UpdateAndRestart` | "Update and restart" (`hotspot-form.partial.tmpl:84`) | nobody waits for the assembly: the hotspot may restart with the old password |
| `MCConnProfilePost_SaveAndConnect` | "Save and connect" (`external-network-form.partial.tmpl:251`) | the form sends `activated`, the handler looks for `state:activated`: never connects |
| `MCConnProfilePost_SidecarIsGivenAName` | "connection with uuid %s is not backed by a file!" (`conn-profiles.go:176`) | `errors.Wrapf` of a nil error is nil: the sidecar gets the base name of an empty path |
| `MCConnProfilePost_TemplateIsOptional` | "if hasTemplatedAssemble {" (`sidecar/routes/openuc2/routes.go:135`) | `UnitExists` returns an error, never false, for a unit that is not loaded |
| `MCRescanNetworks_BlocksUntilItsScan` | "this function call will block until the scan finishes" (`device-access-points.go:147`) | it may return after a scan that began before its request |
| `MCUnmountDrive_SafeToPullOut` | "This drive is safe to unplug now." (`storage/drive-basics.partial.tmpl:81`) | a device whose file system cannot be read is passed over, and one that is mounted twice is unmounted once |
| `MCStoragePage_NoSystemDriveIsRemovable` | "Don't unplug them!" (`storage/index.page.tmpl:69`), of the drives of the system | a drive whose file system cannot be read (`block-devices.go:156`) passes for one that is not mounted |
| `MCLivePages_FormsCatchUp` | a subscribed page is kept up to date | the hotspot's and the profile's forms are outside the frames that `turbo.js:8` replaces |
| `MCConnSettings_zone` | the page shows the zone of the profile (`settings-form.partial.tmpl:189`) | a zone named NULL is shown as none, and saving the page changes it to none |
| `MCUnmountDrive_FailuresAreOwn` | "will not prevent completion of unmounting other block devices" (`clients/udisks2/client.go:148`) | a partition that has gone keeps the search for others from finding them |
| `MCConnSettings_wired` | "Save and apply" (`settings-form.partial.tmpl:37`), on the page of every profile | `formValues[…][0]` of an absent field (`conn-profiles.go:305`, `:306`): submitting a wired profile panics |
| `MCConnSettings_adhoc` | the page shows the mode as selected (`settings-form.partial.tmpl:309`) | it compares "adhoc" with the short name "ad-hoc": saving changes ad-hoc to infrastructure |
| `MCSidecarIPC_optional` | "Even if Systemd is unavailable, other parts of machine-admin are still useful" (`sidecar/sidecar.go:78`) | a call that needs the bus that did not open ends the whole sidecar |

### Bounds

* `PSKDropIn`: three calls, so that one can truncate what a second has written and a third
  rename it; two passwords, so that a stale password differs from a new one; one other line,
  since lines are lost or kept together. Calls and passwords are symmetric in `psk_concurrent`,
  which has no temporal property.
* `ConnProfilePost`: two requests of any of the seven forms pair every form with every other,
  and let one request restart the assembly that the other's restart has started; two passwords
  besides the old one tell the requests apart. More requests are left to the proofs. The
  violated configurations need one request.
* `RescanNetworks`: `Width = 8`, `MaxScan = 2`, `MaxIdle = 3`: the clock wraps around several
  times in a behaviour, and `Width > MaxIdle + MaxScan + 2` says that no two consecutive scans
  are a whole turn of the clock apart. In the code the turn is 2^32 ms, about 50 days. The
  comment in the code assumes only that a *scan* is shorter than a turn; what is needed is that
  the time *since the previous scan* is.
* `UnmountDrive`: a drive of two partitions and one device of another drive, so that a search can
  fail at a device of the same drive and at a foreign one; devices may come and go without limit.
  One partition may be mounted in two places. All have an ID; devices without one (`Nameless`)
  are never chosen, and nothing is promised for them.

* `ConnSettings`: two requests, so that the read of one can come between the read and the write
  of the other, on a profile of one of seven kinds (hotspot, open, ad-hoc, open in a zone named
  NULL, OWE, SAE with the largest timeout, wired), with a dozen edits that cross band and
  channel, opening and closing, and the ends of the ranges. The hotspot allows all ciphers by
  name, and one edit types the channel "00".
* `SidecarIPC`: two requests of different buses and three starts, so that a call can meet an
  opening, an open and a failed bus and lose its sidecar more than once. `MaxStarts` is the only
  counter.
* `NetworkPage`: a Wi-Fi and a wired device with a profile each, two access points, two
  activations and three changes: an object can appear, be followed and vanish, or vanish and be
  replaced, during one reading. The wired device also fits a profile that cannot be parsed, which
  is not there at first (`FirstProfiles`). What changes after the end of a reading is left out,
  since nothing reads it. The proofs are for any `Fits`, `FirstProfiles` and `Unparsable`.
* `LivePages`: two viewers, of the same topic or of two, among the pages of every kind (the two
  that differ from others in nothing but their name occur in one pair); one change, since
  showing what there is to see means the last.
* `StoragePage`: a card with the partitions for firmware and root, a stick without an ID, a
  device without a drive, and two changes per reading: a device may go and another take its
  place, or be mounted over it. `MayHold` says which device may be where: two may be at `/`, two
  at `/media`, and one in two places.

### Fairness

* `ConnProfilePost`: `WF` of the steps of a request that has arrived, since the handler uses
  `context.Background()` and is not cancelled; `WF` of the assembly unit, since systemd runs its
  queue. No fairness for `Arrive`, and none that excludes `Fail` or `AssemblyFails`:
  `EventuallyAssembled` is conditional on them instead.
* `RescanNetworks`: `WF` of a call's own steps (a goroutine with a timer), of `Tick` (time
  passes) and of `BeginScan` and `FinishScan`: NetworkManager does perform a scan that it
  accepted. Nothing in the code times out, so without fairness of the device `EveryCallEnds`
  does not hold; that is hazard `accesspoints.go:138`.
* `UnmountDrive`: `WF` of the call and of what each goroutine does of itself (`Runs`): runnable
  code, and calls that UDisks2 answers. An error that need not come is not forced to. None for
  anybody else.
* `SidecarIPC`: `WF` of each handler, of `Serve` or its panic, of `Finish` (systemd and
  NetworkManager answer) and of `Reply`. None for starts, openings and arrivals:
  `EveryRequestEnds` holds although the sidecar may never come back.
* `NetworkPage`: `WF` of the reading, whose calls NetworkManager answers. None for
  NetworkManager's changes, which are bounded, and none that forces or excludes `CallErrs`.
* `LivePages`: `WF` of the process's steps, of the openings (each succeeds or fails), of loading
  and of a topic's turns; `SF` of reading or failing, against a home page whose file is empty
  whenever it is read. `Signal`, requests and subscriptions have none.
* `ConnSettings` and `StoragePage` state no liveness and assume none.

## Proofs

The proofs hold for every value of the constants under the named assumptions of the modules
(inode names are distinct, `Leftover` is not a line, `Keep` is not a password, the forms are some
of the seven, the clock has more than one value; `None` is no profile or access point, first and
unparsable profiles are profiles, a mount is a device's, Wi-Fi devices are devices, no two block
devices have the same rank; the settings a profile has at first are `Sound`, what is typed into a
text field is a text, and `Atoi` maps numerals to integers and "0" to 0). One theorem,
`FinishedScansAreNoticed`, has a hypothesis besides, on the length of the clock's turn.

* `PSKDropInProofs` — `TypeCorrect`; `SerialCallsKeepDropInIntact` and
  `SerialCallsImplementStore`, which assume `Serialized`; `CorruptionIsReported`, which does not.
  All four follow from `IInv`. Neither property is inductive: that the drop-in is whole after a
  rename needs the swap file to be whole, which needs its writer's lines to be whole (`Clean`),
  which needs that no other call writes the same inode. For serial calls that is `OneAtATime`.
  For concurrent calls the key is that collisions do not go away silently: `Contended` says that
  two calls are writing, or one is about to rename a swap file that is gone; once contended, the
  state stays so until a call has failed, and answers are never taken back (`CalmBefore`). So if
  everything is over without a failure, there never was a collision, and `Clean` held all along;
  `LastRenameWins` then says whose password is in the file. `OldPasswordGoes` follows from
  `Filling` instead: as long as no write fails and no call is cut off, a swap file about to be
  renamed, and whatever has been renamed, is filled with calls' passwords, the last of which the
  end of a longer write may have spoiled (`OverwritePasswords`).
* `ConnProfilePostProofs` — `TypeCorrect` (with `HasPassword`, that the hotspot form's password
  is never empty) and `IdleMeansAssembled`. The strengthening, `AssemblyInv`, adds that a
  *running* assembly has read the drop-in's current password or somebody owes a restart, which a
  restart that let a running unit go on would break; a request that ended unconfirmed owes or
  has made its restart according to where it stopped. `NothingBypassesAssembly` needs `OnAirInv`:
  until a request has restarted the assembly the unit is inactive and nothing new has been
  assembled, and every password past the drop-in, also in the profile's file, has been assembled
  or came with an update.
* `NetworkManagerProofs`, first part — `TypeCorrect` and `SuccessFollowsAScan` of
  `RescanNetworks`, from `NewerScanFinished`: while a call is waiting, a timestamp that differs
  from the one noted means that a scan finished. The wrap-around can only make a call wait longer.
  That it does not do so for ever is `FinishedScansAreNoticed`: once a scan has finished after the
  call noted the timestamp, the next poll succeeds. Its hypothesis is
  `Width > MaxIdle + MaxScan + 2`, and it is exact: with the clock one value shorter
  (`Width = 7` in the configuration) TLC finds a call that sleeps through a scan. The
  argument measures distances on the clock (`Ahead`): `DeviceTimes` says how far the present is
  from the last scan, `CallTimes` how far the last scan is from the noted one, and both together
  stay less than a turn as long as the call has not polled since, so that the two timestamps
  cannot coincide (`FinishedScanShows`). The lemmas on `Ahead` are the modular arithmetic of it.
* `NetworkManagerProofs`, second part — the six theorems of `ConnSettings`. `SettingsInv` says that
  the settings in memory and in the file, and those that a page was made of, are `Sound`, that
  what was read is `Sound` (without its secret), and that each update is parsed from a form that
  was accepted, which makes it a `SoundUpdate` (`ParsedFormSound`): of values that fit their keys,
  with a band if it has a channel. `ChannelsHaveBands` and
  `OpenNetworksAreBare` are conjuncts of `Sound`, and the work is that `Merged` preserves it
  (`MergedSound`, `KeepSecretSound`): neither the check of one form alone nor the deletion of empty
  bands and security sections would do it for a merge with whatever another request left there.
  `UnmodifiedFormsAreAccepted` and `UnmodifiedFormsChangeNothing` rest on the round trip, proved
  key by key: what `Shown` prints of a value is `Valid`, and `Parsed` gives the value back, with
  the exceptions the properties name. `OnlyRacesLoseUpdates` needs that a request which was not
  raced has read the present settings.
* `UnmountDriveProofs` — `TypeCorrect`, `RemovalLeavesKnownMounts`, `FailuresAreSeparate`. The
  invariant accounts for every mount (`Accounted`): it is new since the call last saw or
  unmounted the device, or is known to be spared, or the device is still to be dumped, chosen and
  not yet unmounted, or the call ends with an error. `Found` says that while no device goes, a
  goroutine still has its own device ahead of it.
* `SidecarIPCProofs` — `TypeCorrect`, `NothingIsAskedTwice`, `SuccessIsEarned`, and
  `RequestsAreCarriedOutOnce`, the refinement of `AtMostOnce`. `Orderly` ties the
  call, its operation and what was asked together for each request: nothing has been asked before
  the sidecar serves the call, at most the one operation of `DispatchIsMeant` afterwards, and a
  reply of success means it is done. For the refinement it adds that a call is pending only while
  its handler waits for it or has abandoned it, for otherwise an operation could begin after the
  failure was shown. `SidecarIsPromised`, `HandlersArePromised` and `LeavingIsPromised` map the
  steps of the sidecar, of the handlers, and of those who leave to the abstract ones.
* `NetworkPageProofs` — `TypeCorrect`, `FailuresHaveACause`, `PartsWereTrue`, `ActivityWas`. The
  invariant says that the present view is among those seen (`Seen`), that until something
  vanishes all that is still to be read is there (`NoLoss`), and of each stage what the page and
  the path noted have been (`PageWas`, `CurrentWas`, `OtherPagesWere`). A change of
  NetworkManager only adds a view and either loses something or keeps what was there
  (`ChangeKeepsIInv`); a step of the reading changes no view (`ReadingFacts`), nor does an error
  (`SteadyFacts`, `ErrorsKeepIInv`). Why a page has failed is kept from step to step by
  `FailureKeepsItsCause`: without a loss or an error, only profiles that were asked for can fail
  it. That the primary connection is a device's needs a least element, by well-foundedness of the
  naturals.
* `LivePagesProofs` — `TypeCorrect`, `ConnectionsLast`, `PagesKeepTheirMode`. `BusesHeld` adds
  that the workers' context is not cancelled while the server starts or serves. `GotIsShowing` and
  `ReloadedIsShowing` say what a viewer sees after either.
  `ViewersAreServed` is the part of `ViewersCatchUp` that needs no fairness: whoever comes and
  goes, in any order, and whichever turns fail, a topic with an audience has a publisher, running
  or failed, until the workers are cancelled. With the last conjunct of `TypeOK` a topic then has
  a publisher exactly while it has an audience.
* `StoragePageProofs` — `TypeCorrect`, `SystemDrivesStay`, `UntouchedIsOnThePage`. The invariant
  accounts for each drive, device and usage in turn (`DrivesAccounted`, `DevicesAccounted`,
  `UsagesAccounted`): it has been touched, is still to be read, or is on the page as it is;
  `Classified` carries this over the division into system and removable drives. Devices whose
  file system could not be read are `unread`, and are on the page without their places.

Only model-checked: the liveness properties (`EventuallyAssembled`, `EveryCallEnds`, `CallReturns`,
`EveryRequestEnds`, `ReadEnds`, `ViewersCatchUp`, `ShutdownCompletes`). Every other property of a
passing run is stated by a theorem. Liveness under
fairness, `ENABLED`, what a recursive definition computes for every input, and `RECURSIVE`
operators are out of the prover's reach; the modules with proofs use none of these.

## Plan

What the modules above leave, most important first:

1. `Tailscale`: `Provision` against `Deprovision`, as soon as the repository says what becomes
   of preferences that were changed between the reading and the start.
2. `ConnProfilePost` composed with `ConnSettings`, so that settings other than the password go
   through the stages.
3. An abstract specification of `NetworkPage` or `UnmountDrive`, as `PSKStore` is of `PSKDropIn`
   and `AtMostOnce` of `SidecarIPC`.
4. The hotspot form's wireless fields, and the IPv6 section once it can be submitted.

## Not modelled

* Tailscale's `Provision` and `Deprovision`: whether a start with preferences that have changed
  meanwhile undoes the change is decided in tailscaled, of which the repository says nothing.
* The overlay file system: it reads two trees that do not change while the server runs; it has
  no steps to interleave, the upper tree exists in development only, and unit tests reach all of
  it.
* Static and read-only pages, template helpers, styles and the browser's code, but for
  `streamActionReload`.
* IPv6 settings, the tables that give the values of enumerations their names, sorting and
  grouping for display, and D-Bus marshalling.
* Texts: an SSID or a UUID is text as the bus has it, and whether a profile can be parsed does not
  change while a page is read.
* What Turbo makes of a marked frame that is missing from a publication.
* Whether a request that is still being drained when the buses close should have succeeded: the
  model has it fail (`Close`, `LoadFails`), and no property forbids it.
* A power failure: what reaches the disk without `fsync` needs a model of the page cache.
* The inner workings of systemd, NetworkManager, UDisks2, tailscaled and godest, of which the
  modules have only what the code relies on.
