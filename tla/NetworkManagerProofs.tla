------------------------ MODULE NetworkManagerProofs ------------------------
(***************************************************************************)
(* Proofs about the two operations of the NetworkManager client:           *)
(* RescanNetworks, for any calls and any width of the clock, and then      *)
(* ConnSettings, for any requests, any sound profiles and any edits.       *)
(***************************************************************************)
EXTENDS RescanNetworks, ConnSettings, TLAPS

-----------------------------------------------------------------------------
(* RescanNetworks: a call does not return before a scan.                   *)

(* While a call is under way the device's last scan can differ from the    *)
(* one the call has noted only if a scan has finished since.  This is what *)
(* makes SuccessMeansAScan inductive.                                      *)
NewerScanFinished ==
  \A c \in Calls :
    pc[c] \in {"request", "poll"} /\ lastScan # prev[c] => finished[c]

Inv == TypeOK /\ NewerScanFinished /\ SuccessMeansAScan

-----------------------------------------------------------------------------
(* Timestamps contain -1, and the clock stays in them when it wraps around. *)
LEMMA TimestampsWrap ==
  /\ Never \in Timestamps
  /\ \A t \in Timestamps : (t + 1) % Width \in Timestamps
BY WidthAssumption DEF Never, Timestamps

(* The invariant holds initially. *)
LEMMA InitInv == Init => Inv
<1> SUFFICES ASSUME Init PROVE Inv
    OBVIOUS
<1>1. TypeOK
    BY TimestampsWrap DEF Init, TypeOK
<1>2. NewerScanFinished /\ SuccessMeansAScan
    BY DEF Init, NewerScanFinished, SuccessMeansAScan
<1> QED BY <1>1, <1>2 DEF Inv

(* Every step of a call, of the device and of the clock keeps it. *)
LEMMA NextInv == Inv /\ [Next]_vars => Inv'
<1> SUFFICES ASSUME Inv, [Next]_vars PROVE Inv'
    OBVIOUS
<1> USE DEF Inv, TypeOK, NewerScanFinished, SuccessMeansAScan,
            deviceVars, callVars, historyVars
<1>1. ASSUME NEW c \in Calls, ReadLastScan(c) PROVE Inv'
    BY <1>1 DEF ReadLastScan
<1>2. ASSUME NEW c \in Calls, RequestScan(c) PROVE Inv'
    BY <1>2 DEF RequestScan
<1>3. ASSUME NEW c \in Calls, Poll(c) PROVE Inv'
  <2>1. CASE lastScan = prev[c]
    BY <1>3, <2>1 DEF Poll, PollTurn
  <2>2. CASE lastScan # prev[c]
    <3>1. finished[c]
        BY <1>3, <2>2 DEF Poll, PollTurn
    <3> QED BY <1>3, <2>2, <3>1 DEF Poll, PollTurn
  <2> QED BY <2>1, <2>2
<1>4. ASSUME NEW c \in Calls, Fail(c) PROVE Inv'
    BY <1>4 DEF Fail
<1>5. CASE BeginScan
    BY <1>5 DEF BeginScan
<1>6. CASE FinishScan
  <2>1. \A c \in Calls : pc[c] \in {"request", "poll"} => finished'[c]
    BY <1>6 DEF FinishScan
  <2>2. \A c \in Calls : finished[c] => finished'[c]
    BY <1>6 DEF FinishScan
  <2>3. TypeOK'
    BY <1>6 DEF FinishScan
  <2> QED BY <1>6, <2>1, <2>2, <2>3 DEF FinishScan
<1>7. CASE Tick
  <2>1. now' \in Timestamps
    BY <1>7, TimestampsWrap DEF Tick
  <2>2. age' \in Nat
    BY <1>7 DEF Tick
  <2> QED BY <1>7, <2>1, <2>2 DEF Tick
<1>8. CASE UNCHANGED vars
    BY <1>8 DEF vars
<1> QED BY <1>1, <1>2, <1>3, <1>4, <1>5, <1>6, <1>7, <1>8 DEF Next

(* Every reachable state is well typed, whatever the width of the clock.   *)
THEOREM TypeCorrect == Spec => []TypeOK
<1>1. Inv => TypeOK
    BY DEF Inv
<1> QED BY <1>1, InitInv, NextInv, PTL DEF Spec

(* A call of RescanNetworks which returns nil has lasted until some scan    *)
(* of the device finished, for any number of concurrent calls and whether  *)
(* or not the timestamps wrap around: what the wrap-around can do is make  *)
(* a call miss a scan, never make it return too soon.                      *)
THEOREM SuccessFollowsAScan == Spec => []SuccessMeansAScan
<1>1. Inv => SuccessMeansAScan
    BY DEF Inv
<1> QED BY <1>1, InitInv, NextInv, PTL DEF Spec

-----------------------------------------------------------------------------
(* RescanNetworks: a poll does not miss a scan.                            *)

(* The time t is d seconds after the time s. *)
Ahead(s, t, d) == t = s + d \/ t = s + d - Width

(* The longest time between the ends of two scans. *)
LongestGap == MaxIdle + 1 + MaxScan

(* How long ago the device finished its last scan. *)
DeviceTimes ==
  \E d \in 0..LongestGap :
    /\ Ahead(lastScan, now, d)
    /\ IF scanning THEN age <= MaxScan /\ age <= d /\ d <= age + MaxIdle + 1
                   ELSE age <= MaxIdle /\ d <= age + 1

(* What a call has seen of the scans since it began: none; one, which      *)
(* finished in this second; or one which finished in the last second and   *)
(* perhaps one more in this, and then the call is about to poll.           *)
NoScanYet(c) == ~finished[c] /\ lastScan = prev[c]
ScanJustNow(c) ==
  /\ finished[c] /\ ~due[c] /\ lastScan = now
  /\ \E d \in 1..LongestGap : Ahead(prev[c], lastScan, d)
ScansBeforePoll(c) ==
  /\ finished[c] /\ due[c]
  /\ \/ Ahead(lastScan, now, 1) /\ \E d \in 1..LongestGap : Ahead(prev[c], lastScan, d)
     \/ lastScan = now /\ \E d \in 1..(LongestGap + 1) : Ahead(prev[c], lastScan, d)

CallTimes ==
  \A c \in Calls :
    /\ due[c] => pc[c] = "poll"
    /\ finished[c] => pc[c] # "idle"
    /\ pc[c] \in {"request", "poll"} =>
         NoScanYet(c) \/ ScanJustNow(c) \/ ScansBeforePoll(c)

TimesInv == Inv /\ DeviceTimes /\ CallTimes

-----------------------------------------------------------------------------
(* The clock goes on by one, back to zero at the last timestamp. *)
LEMMA NextSecond ==
  \A t \in Timestamps : (t + 1) % Width = IF t = Never THEN 0 ELSE t + 1
<1> SUFFICES ASSUME NEW t \in Timestamps
             PROVE  (t + 1) % Width = IF t = Never THEN 0 ELSE t + 1
  OBVIOUS
<1>1. CASE t = Never
  BY <1>1, WidthAssumption DEF Never
<1>2. CASE t # Never
  BY <1>2, WidthAssumption DEF Never, Timestamps
<1> QED BY <1>1, <1>2

(* A second later every distance has grown by one. *)
LEMMA AheadGrows ==
  ASSUME NEW s \in Timestamps, NEW t \in Timestamps, NEW d \in Nat,
         Ahead(s, t, d), d + 1 < Width
  PROVE  Ahead(s, (t + 1) % Width, d + 1)
<1>1. t = Never => t + 1 - Width = 0
  BY WidthAssumption DEF Never
<1> QED BY <1>1, NextSecond, WidthAssumption DEF Ahead, Timestamps, Never

(* Within one turn of the clock a time which is ahead is a different one.  *)
LEMMA AheadDiffers ==
  ASSUME NEW s \in Timestamps, NEW d \in Nat, 0 < d, d < Width
  PROVE  ~Ahead(s, s, d)
BY WidthAssumption DEF Ahead, Timestamps

(* Distances add up. *)
LEMMA AheadAdds ==
  ASSUME NEW r \in Timestamps, NEW s \in Timestamps, NEW t \in Timestamps,
         NEW d \in Nat, d < Width, Ahead(r, s, d), Ahead(s, t, 1)
  PROVE  Ahead(r, t, d + 1)
BY WidthAssumption DEF Ahead, Timestamps

(* The times are numbers. *)
LEMMA GapIsNat == LongestGap \in Nat /\ MaxScan \in Nat /\ MaxIdle \in Nat
BY TimesAssumption DEF LongestGap

(* The device has just scanned, or has never done. *)
LEMMA InitTimes == Init => TimesInv
<1> SUFFICES ASSUME Init PROVE TimesInv
  OBVIOUS
<1>1. Inv /\ CallTimes
  BY InitInv DEF Init, CallTimes
<1>2. DeviceTimes
  <2>1. CASE lastScan = now
    <3>1. Ahead(lastScan, now, 0)
      BY <2>1, WidthAssumption DEF Ahead, Init, Timestamps
    <3> QED BY <3>1, GapIsNat DEF DeviceTimes, Init
  <2>2. CASE lastScan = Never /\ now = 0
    <3>1. Ahead(lastScan, now, 1)
      BY <2>2, WidthAssumption DEF Ahead, Never
    <3>2. 1 \in 0..LongestGap
      BY GapIsNat DEF LongestGap
    <3> QED BY <3>1, <3>2, GapIsNat DEF DeviceTimes, Init
  <2> QED BY <2>1, <2>2 DEF Init
<1> QED BY <1>1, <1>2 DEF TimesInv

(* A call whose poll is due sees the scan which has finished meanwhile.    *)
LEMMA FinishedScanShows ==
  ASSUME TimesInv, Width > LongestGap + 1,
         NEW c \in Calls, pc[c] = "poll", due[c], finished[c]
  PROVE  lastScan # prev[c]
<1>1. ScansBeforePoll(c)
  BY DEF TimesInv, CallTimes, NoScanYet, ScanJustNow
<1>2. PICK d \in 1..(LongestGap + 1) : Ahead(prev[c], lastScan, d)
  BY <1>1, GapIsNat DEF ScansBeforePoll
<1>3. d \in Nat /\ 0 < d /\ d < Width
  BY <1>2, GapIsNat, WidthAssumption
<1> QED BY <1>2, <1>3, AheadDiffers DEF TimesInv, Inv, TypeOK

(* A step of a call leaves the device and the other calls alone.           *)
LEMMA CallKeepsTimes ==
  ASSUME TimesInv, Width > LongestGap + 1, NEW c \in Calls,
         ReadLastScan(c) \/ RequestScan(c) \/ Poll(c) \/ Fail(c)
  PROVE  DeviceTimes' /\ CallTimes'
<1>1. /\ UNCHANGED <<deviceVars, finished>>
      /\ \A o \in Calls \ {c} : pc'[o] = pc[o] /\ prev'[o] = prev[o] /\ due'[o] = due[o]
  BY DEF TimesInv, Inv, TypeOK, ReadLastScan, RequestScan, Poll, PollTurn, Fail,
         callVars, historyVars, deviceVars
<1>2. DeviceTimes'
  BY <1>1 DEF TimesInv, DeviceTimes, deviceVars
<1> DEFINE Times(o) ==
      /\ due[o] => pc[o] = "poll"
      /\ finished[o] => pc[o] # "idle"
      /\ pc[o] \in {"request", "poll"} =>
           NoScanYet(o) \/ ScanJustNow(o) \/ ScansBeforePoll(o)
<1>3. \A o \in Calls : Times(o)
  BY DEF TimesInv, CallTimes
<1>4. ASSUME NEW o \in Calls \ {c} PROVE Times(o)'
  BY <1>1, <1>3 DEF deviceVars, NoScanYet, ScanJustNow, ScansBeforePoll
<1>5. Times(c)'
  <2> USE DEF TimesInv, Inv, TypeOK, callVars, historyVars, deviceVars
  <2>1. CASE ReadLastScan(c)
    BY <1>3, <2>1 DEF ReadLastScan, NoScanYet
  <2>2. CASE RequestScan(c)
    BY <1>3, <2>2 DEF RequestScan, NoScanYet, ScanJustNow, ScansBeforePoll
  <2>3. CASE Poll(c)
    <3>1. due[c] /\ pc[c] = "poll" /\ pc'[c] = (IF lastScan = prev[c] THEN "poll" ELSE "done")
      BY <2>3 DEF Poll, PollTurn
    <3>2. ~due'[c] /\ prev' = prev /\ finished' = finished /\ lastScan' = lastScan /\ now' = now
      BY <2>3 DEF Poll, PollTurn
    <3>3. CASE ~finished[c]
      BY <1>3, <3>1, <3>2, <3>3 DEF NoScanYet, ScanJustNow, ScansBeforePoll
    <3>4. CASE finished[c]
      <4>1. lastScan # prev[c]
        BY <3>1, <3>4, FinishedScanShows
      <4> QED BY <1>3, <3>1, <3>2, <3>4, <4>1
    <3> QED BY <3>3, <3>4
  <2>4. CASE Fail(c)
    BY <1>3, <2>4 DEF Fail
  <2> QED BY <2>1, <2>2, <2>3, <2>4
<1> QED BY <1>2, <1>4, <1>5 DEF CallTimes

(* The beginning of a scan. *)
LEMMA BeginKeepsTimes ==
  ASSUME TimesInv, BeginScan
  PROVE  DeviceTimes' /\ CallTimes'
<1> USE DEF TimesInv, Inv, TypeOK, BeginScan, callVars, historyVars
<1>1. PICK d \in 0..LongestGap : Ahead(lastScan, now, d) /\ age <= MaxIdle /\ d <= age + 1
  BY DEF DeviceTimes
<1>2. age' <= MaxScan /\ age' <= d /\ d <= age' + MaxIdle + 1
  BY <1>1, GapIsNat
<1>3. DeviceTimes'
  BY <1>1, <1>2 DEF DeviceTimes, Ahead
<1>4. CallTimes'
  BY DEF CallTimes, NoScanYet, ScanJustNow, ScansBeforePoll, Ahead
<1> QED BY <1>3, <1>4

(* The end of a scan, which can be a call's first, or its second if the    *)
(* poll is due.                                                            *)
LEMMA FinishKeepsTimes ==
  ASSUME TimesInv, Width > LongestGap + 1, FinishScan
  PROVE  DeviceTimes' /\ CallTimes'
<1> USE DEF TimesInv, Inv, TypeOK, callVars
<1>1. /\ lastScan' = now /\ now' = now /\ age' = 0 /\ ~scanning' /\ scanning /\ age > 0
      /\ pc' = pc /\ prev' = prev /\ due' = due
      /\ \A c \in Calls : finished'[c] <=> finished[c] \/ pc[c] \in {"request", "poll"}
  BY DEF FinishScan
<1>2. PICK d \in 0..LongestGap : Ahead(lastScan, now, d) /\ age <= d
  BY <1>1 DEF DeviceTimes
<1>3. d \in 1..LongestGap
  BY <1>1, <1>2, GapIsNat
<1>4. DeviceTimes'
  <2>1. Ahead(lastScan', now', 0)
    BY <1>1, WidthAssumption DEF Ahead, Timestamps
  <2> QED BY <1>1, <2>1, GapIsNat DEF DeviceTimes
<1>5. ASSUME NEW c \in Calls, pc[c] \in {"request", "poll"}
      PROVE  ScanJustNow(c)' \/ ScansBeforePoll(c)'
  <2>1. lastScan # now
    BY <1>2, <1>3, GapIsNat, AheadDiffers, WidthAssumption
  <2>2. CASE NoScanYet(c)
    <3>1. Ahead(prev'[c], lastScan', d)
      BY <1>1, <1>2, <2>2 DEF NoScanYet
    <3> QED BY <1>1, <1>3, <1>5, <3>1, GapIsNat DEF ScanJustNow, ScansBeforePoll
  <2>3. CASE ScansBeforePoll(c)
    <3>1. PICK e \in 1..LongestGap : Ahead(prev[c], lastScan, e)
      BY <2>1, <2>3 DEF ScansBeforePoll
    <3>2. Ahead(prev[c], now, e + 1)
      BY <2>1, <2>3, <3>1, AheadAdds, GapIsNat, WidthAssumption DEF ScansBeforePoll
    <3> QED BY <1>1, <1>5, <2>3, <3>1, <3>2, GapIsNat DEF ScansBeforePoll
  <2> QED BY <1>5, <2>1, <2>2, <2>3 DEF CallTimes, ScanJustNow
<1>6. CallTimes'
  BY <1>1, <1>5 DEF CallTimes
<1> QED BY <1>4, <1>6

(* A second passes, and the polls are due. *)
LEMMA TickKeepsTimes ==
  ASSUME TimesInv, Width > LongestGap + 1, Tick
  PROVE  DeviceTimes' /\ CallTimes'
<1> USE DEF TimesInv, Inv, TypeOK, historyVars
<1>1. /\ age < (IF scanning THEN MaxScan ELSE MaxIdle)
      /\ age' = age + 1
      /\ now' = (now + 1) % Width
      /\ UNCHANGED <<lastScan, scanning, pc, prev, finished>>
      /\ \A c \in Calls : pc[c] # "request" /\ ~due[c] /\ due'[c] = (pc[c] = "poll")
  BY DEF Tick
<1>2. PICK d \in 0..LongestGap :
        /\ Ahead(lastScan, now, d)
        /\ IF scanning THEN age <= MaxScan /\ age <= d /\ d <= age + MaxIdle + 1
                       ELSE age <= MaxIdle /\ d <= age + 1
  BY DEF DeviceTimes
<1>3. d + 1 \in 0..LongestGap
  BY <1>1, <1>2, GapIsNat DEF LongestGap
<1>4. Ahead(lastScan', now', d + 1)
  BY <1>1, <1>2, <1>3, AheadGrows, GapIsNat, WidthAssumption
<1>5. DeviceTimes'
  <2>1. IF scanning' THEN age' <= MaxScan /\ age' <= d + 1 /\ d + 1 <= age' + MaxIdle + 1
                     ELSE age' <= MaxIdle /\ d + 1 <= age' + 1
    BY <1>1, <1>2, GapIsNat
  <2> QED BY <1>3, <1>4, <2>1 DEF DeviceTimes
<1>6. ASSUME NEW c \in Calls, pc[c] = "poll"
      PROVE  NoScanYet(c)' \/ ScansBeforePoll(c)'
  <2>1. CASE NoScanYet(c)
    BY <1>1, <2>1 DEF NoScanYet
  <2>2. CASE ScanJustNow(c)
    <3>1. Ahead(lastScan, now, 0)
      BY <2>2, WidthAssumption DEF ScanJustNow, Ahead, Timestamps
    <3>2. Ahead(lastScan', now', 1)
      BY <1>1, <3>1, AheadGrows, WidthAssumption
    <3> QED BY <1>1, <1>6, <2>2, <3>2 DEF ScanJustNow, ScansBeforePoll
  <2> QED BY <1>1, <1>6, <2>1, <2>2 DEF CallTimes, ScansBeforePoll
<1>7. CallTimes'
  BY <1>1, <1>6 DEF CallTimes
<1> QED BY <1>5, <1>7

(* Every step keeps the invariant. *)
LEMMA NextTimes ==
  ASSUME Width > LongestGap + 1
  PROVE  TimesInv /\ [Next]_vars => TimesInv'
<1> SUFFICES ASSUME TimesInv, [Next]_vars PROVE TimesInv'
  OBVIOUS
<1>1. Inv'
  BY NextInv DEF TimesInv
<1>2. DeviceTimes' /\ CallTimes'
  <2>1. CASE \E c \in Calls : ReadLastScan(c) \/ RequestScan(c) \/ Poll(c) \/ Fail(c)
    BY <2>1, CallKeepsTimes
  <2>2. CASE BeginScan
    BY <2>2, BeginKeepsTimes
  <2>3. CASE FinishScan
    BY <2>3, FinishKeepsTimes
  <2>4. CASE Tick
    BY <2>4, TickKeepsTimes
  <2>5. CASE UNCHANGED vars
    BY <2>5 DEF vars, deviceVars, callVars, historyVars, TimesInv, DeviceTimes, CallTimes,
                NoScanYet, ScanJustNow, ScansBeforePoll
  <2> QED BY <2>1, <2>2, <2>3, <2>4, <2>5 DEF Next
<1> QED BY <1>1, <1>2 DEF TimesInv

(* A poll notices every scan which has finished since the call began, if   *)
(* the clock has more timestamps than seconds can pass between the ends of *)
(* two scans of the device, and one more: then the time of a new scan is   *)
(* never taken for that of the old one, wherever the clock wraps around.   *)
THEOREM FinishedScansAreNoticed ==
  ASSUME Width > MaxIdle + MaxScan + 2
  PROVE  Spec => FinishedScanIsNoticed
<1>1. Width > LongestGap + 1
  BY GapIsNat, WidthAssumption DEF LongestGap
<1>2. TimesInv /\ [Next]_vars =>
        [\A c \in Calls : Poll(c) /\ finished[c] => pc'[c] = "done"]_vars
  <2> SUFFICES ASSUME TimesInv, NEW c \in Calls, Poll(c), finished[c] PROVE pc'[c] = "done"
    OBVIOUS
  <2>1. pc[c] = "poll" /\ due[c]
    BY DEF Poll, PollTurn
  <2>2. lastScan # prev[c]
    BY <1>1, <2>1, FinishedScanShows
  <2> QED BY <2>2 DEF Poll, PollTurn, TimesInv, Inv, TypeOK
<1>3. TimesInv /\ [Next]_vars => TimesInv'
  BY <1>1, NextTimes
<1> QED BY <1>2, <1>3, InitTimes, PTL DEF Spec, FinishedScanIsNoticed

-----------------------------------------------------------------------------
(* ConnSettings: the keys, and the values of each.                         *)

USE DEF Band, Channel, Mode, KeyMgmt, PSK, Timeout, LinkLocal, Method, Zone, TypeKey

(* The bounds of the numbers, which the provers need not expand. *)
LEMMA BoundsFit == MaxInt32 \in Nat /\ ExponentFrom \in Nat /\ ExponentFrom > 999
BY SMT DEF MaxInt32, ExponentFrom

(* What is returned for an absent key. *)
LEMMA DefaultValues ==
  /\ Default("connection.autoconnect") \in BOOLEAN
  /\ Default("802-11-wireless.hidden") \in BOOLEAN
  /\ Default("ipv4.may-fail") \in BOOLEAN
  /\ Default("connection.autoconnect-priority") = 0
  /\ Default(Channel) = 0
  /\ Default(Timeout) = 0
  /\ Default(LinkLocal) = 0
  /\ Default(Mode) = "infrastructure"
  /\ \A k \in Whitelists : Default(k) = "any"
  /\ \A k \in {"connection.zone", "802-11-wireless.ssid", Band, KeyMgmt, PSK} : Default(k) = ""
<1> USE DEF ConnKeys, WifiKeys, WifiSecKeys, IPv4Keys, Whitelists, Default
<1>1. /\ Default("connection.autoconnect") \in BOOLEAN
      /\ Default("connection.autoconnect-priority") = 0
      /\ Default("connection.zone") = ""
  BY DEF ConnDefaults
<1>2. /\ Default("802-11-wireless.hidden") \in BOOLEAN
      /\ Default(Channel) = 0
      /\ Default(Mode) = "infrastructure"
      /\ Default(Band) = ""
      /\ Default("802-11-wireless.ssid") = ""
  BY DEF WifiDefaults
<1>3. /\ \A k \in Whitelists : Default(k) = "any"
      /\ Default(KeyMgmt) = ""
      /\ Default(PSK) = ""
  BY DEF WifiSecDefaults
<1>4. /\ Default("ipv4.may-fail") \in BOOLEAN
      /\ Default(Timeout) = 0
      /\ Default(LinkLocal) = 0
  BY DEF IPv4Defaults
<1> QED BY <1>1, <1>2, <1>3, <1>4

(* The kind of each key. *)
LEMMA FitsByKind ==
  ASSUME NEW k, NEW v
  PROVE  /\ k \in Checkboxes => (Fits(k, v) <=> v \in BOOLEAN)
         /\ k \in {Channel, "connection.autoconnect-priority"} =>
              (Fits(k, v) <=> v \in Int /\ -999 <= v /\ v <= 999)
         /\ k = Timeout => (Fits(k, v) <=> v \in Nat /\ v <= MaxInt32)
         /\ k = LinkLocal => (Fits(k, v) <=> v \in 0..4)
         /\ k \in Whitelists => (Fits(k, v) <=> v \in {"any", "some", "all"})
         /\ k = Band => (Fits(k, v) <=> v \in Bands)
         /\ k = Mode => (Fits(k, v) <=> v \in DOMAIN ModeInfo)
         /\ k = KeyMgmt => (Fits(k, v) <=> v \in KeyMgmts)
         /\ k = Method => (Fits(k, v) <=> v \in Methods)
         /\ k = "802-11-wireless.ssid" =>
              (Fits(k, v) <=> v \in Texts /\ v # "longer-than-32-bytes")
         /\ k \in TextKeys \ {"802-11-wireless.ssid"} => (Fits(k, v) <=> v \in Texts)
<1> USE DEF Whitelists, Numbers,
            Checkboxes, TextKeys, LegacyKeys, Fits
<1>1. k \in Checkboxes => (Fits(k, v) <=> v \in BOOLEAN)
  OBVIOUS
<1>2. k \in {Channel, "connection.autoconnect-priority"} =>
              (Fits(k, v) <=> v \in Int /\ -999 <= v /\ v <= 999)
  OBVIOUS
<1>3. k = Timeout => (Fits(k, v) <=> v \in Nat /\ v <= MaxInt32)
  OBVIOUS
<1>4. k = LinkLocal => (Fits(k, v) <=> v \in 0..4)
  OBVIOUS
<1>5. k \in Whitelists => (Fits(k, v) <=> v \in {"any", "some", "all"})
  OBVIOUS
<1>6. k = Band => (Fits(k, v) <=> v \in Bands)
  OBVIOUS
<1>7. k = Mode => (Fits(k, v) <=> v \in DOMAIN ModeInfo)
  OBVIOUS
<1>8. k = KeyMgmt => (Fits(k, v) <=> v \in KeyMgmts)
  OBVIOUS
<1>9. k = Method => (Fits(k, v) <=> v \in Methods)
  OBVIOUS
<1>10. k = "802-11-wireless.ssid" =>
              (Fits(k, v) <=> v \in Texts /\ v # "longer-than-32-bytes")
  OBVIOUS
<1>11. k \in TextKeys \ {"802-11-wireless.ssid"} => (Fits(k, v) <=> v \in Texts)
  OBVIOUS
<1> QED BY <1>1, <1>2, <1>3, <1>4, <1>5, <1>6, <1>7, <1>8, <1>9, <1>10, <1>11

(* What is returned for an absent key is a value of the key. *)
LEMMA DefaultFits == \A k \in Keys \ {Method} : Fits(k, Default(k))
<1>1. ASSUME NEW k \in Checkboxes PROVE Fits(k, Default(k))
  <2>1. Default(k) \in BOOLEAN
    BY DefaultValues DEF Checkboxes
  <2> QED BY <2>1, FitsByKind
<1>2. ASSUME NEW k \in {Channel, "connection.autoconnect-priority", Timeout, LinkLocal}
      PROVE  Fits(k, Default(k))
  <2>1. Default(k) = 0
    BY DefaultValues
  <2>2. Fits(k, 0)
    BY FitsByKind, BoundsFit
  <2> QED BY <2>1, <2>2
<1>3. ASSUME NEW k \in Whitelists PROVE Fits(k, Default(k))
  <2>1. Default(k) = "any"
    BY DefaultValues
  <2>2. Fits(k, "any")
    BY FitsByKind
  <2> QED BY <2>1, <2>2
<1>4. ASSUME NEW k \in {Band, KeyMgmt, "connection.zone", "802-11-wireless.ssid", PSK}
      PROVE  Fits(k, Default(k))
  <2>1. Default(k) = ""
    BY DefaultValues
  <2>2. Fits(k, "")
    BY TextsAssumption DEF Fits, Bands, KeyMgmts, Numbers, Checkboxes, TextKeys, LegacyKeys, Whitelists
  <2> QED BY <2>1, <2>2
<1>5. Fits(Mode, Default(Mode))
  <2>1. Default(Mode) = "infrastructure"
    BY DefaultValues
  <2>2. Fits(Mode, "infrastructure")
    BY DEF Fits, ModeInfo, Numbers, Checkboxes, TextKeys, LegacyKeys, Whitelists
  <2> QED BY <2>1, <2>2
<1> QED
  BY <1>1, <1>2, <1>3, <1>4, <1>5
  DEF Keys, ConnKeys, WifiKeys, WifiSecKeys, IPv4Keys, Checkboxes

(* What the parsers accept of each kind of field. *)
LEMMA ValidByKind ==
  ASSUME NEW k, NEW text, Valid(k, text)
  PROVE  /\ k \in Checkboxes => IsCheckbox(k, text)
         /\ k \in {Channel, "connection.autoconnect-priority"} => InRange(text, -999, 999)
         /\ k = Timeout => InRange(text, 0, MaxInt32)
         /\ k = LinkLocal => text \in LinkLocalNames
         /\ k \in Whitelists => text \in {"any", "some", "all"}
         /\ k = Band => text \in Bands
         /\ k = Mode => text \in DOMAIN ModeInfo
         /\ k = KeyMgmt => text \in KeyMgmts
         /\ k = Method => text \in Methods
         /\ k = "802-11-wireless.ssid" => text # "longer-than-32-bytes"
BY DEF Valid, ValidConn, ValidWifi, ValidWifiSec, ValidIPv4, Whitelists, Checkboxes

(* How each kind of field is parsed. *)
LEMMA ParsedByKind ==
  ASSUME NEW k, NEW text
  PROVE  /\ k \in Checkboxes => Parsed(k, text) = ParseCheckbox(k, text)
         /\ k \in Numbers => Parsed(k, text) = Atoi[text]
         /\ k \in Whitelists => Parsed(k, text) = IF text = "all" THEN "any" ELSE text
         /\ k = LinkLocal => Parsed(k, text) = NewLinkLocal(text)
         /\ k \in {Band, Mode, KeyMgmt, Method, "connection.zone", "802-11-wireless.ssid", PSK}
              => Parsed(k, text) = text
BY DEF Parsed, Whitelists,
       Checkboxes, Numbers

(* A valid field is parsed to a value of its key. *)
LEMMA ParsedFits ==
  ASSUME NEW k \in Keys, NEW text, Valid(k, text), k \in TextKeys => text \in Texts
  PROVE  Fits(k, Parsed(k, text))
<1>1. CASE k \in Checkboxes
  <2>1. Parsed(k, text) = ParseCheckbox(k, text)
    BY <1>1, ParsedByKind
  <2>2. ParseCheckbox(k, text) \in BOOLEAN
    BY DEF ParseCheckbox
  <2> QED BY <1>1, <2>1, <2>2, FitsByKind
<1>2. CASE k \in {Channel, "connection.autoconnect-priority"}
  <2>1. InRange(text, -999, 999) /\ Parsed(k, text) = Atoi[text]
    BY <1>2, ValidByKind, ParsedByKind DEF Numbers
  <2>2. Atoi[text] \in Int /\ -999 <= Atoi[text] /\ Atoi[text] <= 999
    BY <2>1, AtoiAssumption DEF InRange
  <2> QED BY <1>2, <2>1, <2>2, FitsByKind
<1>3. CASE k = Timeout
  <2>1. InRange(text, 0, MaxInt32) /\ Parsed(k, text) = Atoi[text]
    BY <1>3, ValidByKind, ParsedByKind DEF Numbers
  <2>2. Atoi[text] \in Int /\ 0 <= Atoi[text] /\ Atoi[text] <= MaxInt32
    BY <2>1, AtoiAssumption DEF InRange
  <2> QED BY <1>3, <2>1, <2>2, FitsByKind
<1>4. CASE k \in Whitelists
  <2>1. Parsed(k, text) \in {"any", "some", "all"}
    BY <1>4, ValidByKind, ParsedByKind
  <2> QED BY <1>4, <2>1, FitsByKind
<1>5. CASE k = LinkLocal
  <2>1. text \in LinkLocalNames /\ Parsed(k, text) = NewLinkLocal(text)
    BY <1>5, ValidByKind, ParsedByKind
  <2>2. NewLinkLocal(text) \in 0..4
    BY <2>1 DEF NewLinkLocal, LinkLocalNames
  <2> QED BY <1>5, <2>1, <2>2, FitsByKind
<1>6. CASE k \in {Band, Mode, KeyMgmt, Method, "connection.zone", "802-11-wireless.ssid", PSK}
  <2>1. Parsed(k, text) = text
    BY <1>6, ParsedByKind
  <2>2. Fits(k, text)
    BY <1>6, ValidByKind, FitsByKind DEF TextKeys
  <2> QED BY <2>1, <2>2
<1> QED
  BY <1>1, <1>2, <1>3, <1>4, <1>5, <1>6
  DEF Keys, ConnKeys, WifiKeys, WifiSecKeys, IPv4Keys, Checkboxes

-----------------------------------------------------------------------------
(* Every key has a value in sound settings, if only the default one. *)
LEMMA EnsureVarFits ==
  ASSUME NEW s, Sound(s), NEW k \in Keys
  PROVE  Fits(k, EnsureVar(s, k))
BY DefaultFits DEF Sound, WellTyped, EnsureVar

(* A dump of sound settings returns a value of each of its keys. *)
LEMMA DumpFits ==
  ASSUME NEW s, Sound(s), NEW k \in DumpedKeys(s)
  PROVE  Fits(k, Dump(s)[k])
<1>1. k \in Keys
  BY DEF DumpedKeys, Keys
<1>2. Fits(k, EnsureVar(s, k))
  BY <1>1, EnsureVarFits
<1>3. Fits(Mode, "infrastructure")
  BY DEF Fits, ModeInfo, Numbers, Checkboxes, TextKeys, LegacyKeys, Whitelists
<1> QED BY <1>2, <1>3 DEF Dump

(* The form of an update which updateConnProfile makes of a valid form. *)
SoundUpdate(u) ==
  /\ DOMAIN u \subseteq Keys
  /\ \A k \in DOMAIN u : Fits(k, u[k])
  /\ KeyMgmt \in DOMAIN u
  /\ Channel \in DOMAIN u <=> Band \in DOMAIN u
  /\ Channel \in DOMAIN u /\ u[Channel] # 0 => u[Band] # ""
  /\ HasNumerals(u)

(* The keys and the values of merged settings. *)
LEMMA MergedDomain ==
  ASSUME NEW s, NEW u, SoundUpdate(u), NEW k
  PROVE  k \in DOMAIN Merged(s, u) <=>
           /\ k \in DOMAIN s \cup DOMAIN u
           /\ k \notin LegacyKeys
           /\ ~(k = Band /\ Band \in DOMAIN u /\ u[Band] = "")
           /\ ~(k \in WifiSecKeys /\ u[KeyMgmt] = "")
BY DEF Merged, WithoutKeys, Over, SoundUpdate

(* What has been submitted goes over what was there. *)
LEMMA MergedAt ==
  ASSUME NEW s, NEW u, NEW k \in DOMAIN Merged(s, u)
  PROVE  Merged(s, u)[k] = IF k \in DOMAIN u THEN u[k] ELSE s[k]
BY DEF Merged, WithoutKeys, Over

(* What a dump returns of merged settings: of a closed section of security *)
(* the defaults, of the other keys what was submitted or else was there.   *)
LEMMA MergedValue ==
  ASSUME NEW s, NEW u, SoundUpdate(u), NEW k \in Keys
  PROVE  EnsureVar(Merged(s, u), k) =
           IF k \in WifiSecKeys /\ u[KeyMgmt] = "" THEN Default(k)
           ELSE IF k \in DOMAIN u THEN u[k] ELSE EnsureVar(s, k)
<1> DEFINE m == Merged(s, u)
<1>1. k \notin LegacyKeys
  BY DEF Keys, ConnKeys, WifiKeys, WifiSecKeys, IPv4Keys, Whitelists, LegacyKeys
<1>2. Default(Band) = ""
  BY DefaultValues
<1>3. CASE k \in DOMAIN m
  BY <1>1, <1>3, MergedDomain, MergedAt DEF EnsureVar
<1>4. CASE k \notin DOMAIN m
  <2>1. EnsureVar(m, k) = Default(k)
    BY <1>4 DEF EnsureVar
  <2>2. CASE k \in WifiSecKeys /\ u[KeyMgmt] = ""
    BY <2>1, <2>2
  <2>3. CASE ~(k \in WifiSecKeys /\ u[KeyMgmt] = "") /\ k = Band /\ Band \in DOMAIN u
    BY <1>1, <1>2, <1>4, <2>1, <2>3, MergedDomain
  <2>4. CASE ~(k \in WifiSecKeys /\ u[KeyMgmt] = "") /\ ~(k = Band /\ Band \in DOMAIN u)
    <3>1. k \notin DOMAIN s \cup DOMAIN u
      BY <1>1, <1>4, <2>4, MergedDomain
    <3> QED BY <2>1, <2>4, <3>1 DEF EnsureVar
  <2> QED BY <2>2, <2>3, <2>4
<1> QED BY <1>3, <1>4

(* A sound update leaves sound settings sound. *)
LEMMA MergedSound ==
  ASSUME NEW s, Sound(s), NEW u, SoundUpdate(u)
  PROVE  Sound(Merged(s, u)) /\ Merged(s, u)[TypeKey] = s[TypeKey]
<1> DEFINE m == Merged(s, u)
<1>1. WellTyped(m)
  <2>1. \A k \in DOMAIN m : k \in DOMAIN s \cup DOMAIN u
    BY MergedDomain
  <2>2. ASSUME NEW k \in DOMAIN m PROVE Fits(k, m[k])
    BY <2>1, MergedAt DEF Sound, WellTyped, SoundUpdate
  <2> QED BY <2>1, <2>2 DEF Sound, WellTyped, SoundUpdate
<1>2. /\ {TypeKey, Method} \subseteq DOMAIN m
      /\ m[TypeKey] = s[TypeKey]
  <2>1. TypeKey \notin DOMAIN u
    BY DEF SoundUpdate, Keys, ConnKeys, WifiKeys, WifiSecKeys, IPv4Keys, Whitelists
  <2>2. TypeKey \in DOMAIN m /\ Method \in DOMAIN m
    BY MergedDomain DEF Sound, LegacyKeys, WifiSecKeys, Whitelists
  <2> QED BY <2>1, <2>2, MergedAt
<1>3. NamesBand(m)
  <2>1. {Channel, Band} \subseteq Keys \ WifiSecKeys
    BY DEF Keys, WifiKeys, WifiSecKeys, Whitelists
  <2>2. EnsureVar(m, Channel) = IF Channel \in DOMAIN u THEN u[Channel] ELSE EnsureVar(s, Channel)
    BY <2>1, MergedValue
  <2>3. EnsureVar(m, Band) = IF Band \in DOMAIN u THEN u[Band] ELSE EnsureVar(s, Band)
    BY <2>1, MergedValue
  <2> QED BY <2>2, <2>3 DEF NamesBand, Sound, SoundUpdate
<1>4. OpenIsBare(m)
  <2>1. KeyMgmt \in Keys /\ KeyMgmt \in WifiSecKeys /\ Default(KeyMgmt) = ""
    BY DefaultValues DEF Keys, WifiSecKeys
  <2>2. EnsureVar(m, KeyMgmt) = u[KeyMgmt]
    BY <2>1, MergedValue DEF SoundUpdate
  <2>3. u[KeyMgmt] = "" => \A k \in DOMAIN m : k \notin WifiSecKeys
    BY MergedDomain
  <2> QED BY <2>2, <2>3 DEF OpenIsBare
<1>5. HasNumerals(m)
  <2> SUFFICES ASSUME NEW k \in Numbers, k \in DOMAIN m
               PROVE  \E text \in DOMAIN Atoi : Atoi[text] = m[k]
    BY DEF HasNumerals
  <2>1. CASE k \in DOMAIN u
    BY <2>1, MergedAt DEF SoundUpdate, HasNumerals
  <2>2. CASE k \notin DOMAIN u
    <3>1. k \in DOMAIN s /\ m[k] = s[k]
      BY <2>2, MergedAt, MergedDomain
    <3> QED BY <3>1 DEF Sound, HasNumerals
  <2> QED BY <2>1, <2>2
<1> QED BY <1>1, <1>2, <1>3, <1>4, <1>5 DEF Sound

(* The secret which NetworkManager keeps, and does not tell. *)
LEMMA KeepSecretSound ==
  ASSUME NEW s, Sound(s), NEW old, Sound(old)
  PROVE  /\ Sound(KeepSecret(s, old))
         /\ KeepSecret(s, old)[TypeKey] = s[TypeKey]
         /\ \A k \in Keys \ {PSK} : EnsureVar(KeepSecret(s, old), k) = EnsureVar(s, k)
<1> DEFINE kept == PSK \in DOMAIN old /\ PSK \notin DOMAIN s /\ KeyMgmt \in DOMAIN s
           new == KeepSecret(s, old)
<1>1. CASE ~kept
  BY <1>1 DEF KeepSecret
<1>2. CASE kept
  <2>1. new = [k \in DOMAIN s \cup {PSK} |-> IF k = PSK THEN old[PSK] ELSE s[k]]
    BY <1>2 DEF KeepSecret
  <2> HIDE DEF new
  <2>2. DOMAIN new = DOMAIN s \cup {PSK}
    BY <2>1
  <2>3. \A k \in DOMAIN s : new[k] = s[k]
    BY <1>2, <2>1
  <2>4. \A k \in Keys \ {PSK} : EnsureVar(new, k) = EnsureVar(s, k)
    BY <2>2, <2>3 DEF EnsureVar
  <2>5. WellTyped(new)
    BY <1>2, <2>1, <2>2, <2>3 DEF Sound, WellTyped
  <2>6. NamesBand(new)
    BY <2>4 DEF NamesBand, Sound, Keys, WifiKeys
  <2>7. OpenIsBare(new)
    BY <1>2, <2>4 DEF OpenIsBare, Sound, Keys, WifiSecKeys
  <2>8. HasNumerals(new)
    BY <2>2, <2>3 DEF HasNumerals, Sound, Numbers
  <2>9. {TypeKey, Method} \subseteq DOMAIN new /\ new[TypeKey] = s[TypeKey]
    BY <2>2, <2>3 DEF Sound
  <2> QED BY <2>4, <2>5, <2>6, <2>7, <2>8, <2>9 DEF Sound, new
<1> QED BY <1>1, <1>2

(* What GetSettings tells of sound settings is sound, and lacks only the   *)
(* secret.                                                                 *)
LEMMA GetSettingsSound ==
  ASSUME NEW s, Sound(s)
  PROVE  /\ Sound(GetSettings(s)) /\ PSK \notin DOMAIN GetSettings(s)
         /\ GetSettings(s)[TypeKey] = s[TypeKey]
         /\ \A k \in Keys \ {PSK} : EnsureVar(GetSettings(s), k) = EnsureVar(s, k)
<1> DEFINE got == GetSettings(s)
<1>1. DOMAIN got = DOMAIN s \ {PSK} /\ \A k \in DOMAIN got : got[k] = s[k]
  BY DEF GetSettings, WithoutKeys
<1> HIDE DEF got
<1>2. \A k \in Keys \ {PSK} : EnsureVar(got, k) = EnsureVar(s, k)
  BY <1>1 DEF EnsureVar
<1>3. WellTyped(got)
  BY <1>1 DEF Sound, WellTyped
<1>4. NamesBand(got)
  BY <1>2 DEF NamesBand, Sound, Keys, WifiKeys
<1>5. OpenIsBare(got)
  BY <1>1, <1>2 DEF OpenIsBare, Sound, Keys, WifiSecKeys
<1>6. HasNumerals(got)
  BY <1>1 DEF HasNumerals, Sound
<1>7. {TypeKey, Method} \subseteq DOMAIN got /\ got[TypeKey] = s[TypeKey]
  BY <1>1 DEF Sound
<1> QED BY <1>1, <1>2, <1>3, <1>4, <1>5, <1>6, <1>7 DEF Sound, got

-----------------------------------------------------------------------------
(* A form has fields of the handler's keys, those for a channel and a band *)
(* together.                                                               *)
SoundForm(f) ==
  /\ DOMAIN f \subseteq Keys
  /\ Channel \in DOMAIN f <=> Band \in DOMAIN f
  /\ \A k \in DOMAIN f \cap TextKeys : f[k] \in Texts

(* What updateConnProfile does not refuse. *)
AcceptedForm(f) ==
  /\ \A k \in DOMAIN f : Valid(k, f[k])
  /\ {KeyMgmt, PSK} \subseteq DOMAIN f
  /\ CheckConnProfile(f)

(* An accepted form is parsed to an update that may be merged. *)
LEMMA ParsedFormSound ==
  ASSUME NEW f, SoundForm(f), AcceptedForm(f)
  PROVE  SoundUpdate(ParsedForm(f))
<1> DEFINE u == ParsedForm(f)
<1>1. /\ DOMAIN u \subseteq DOMAIN f
      /\ DOMAIN f \subseteq DOMAIN u \cup {PSK}
      /\ \A k \in DOMAIN u : u[k] = Parsed(k, f[k])
  BY DEF ParsedForm
<1> HIDE DEF u
<1>2. DOMAIN u \subseteq Keys
  BY <1>1 DEF SoundForm
<1>3. \A k \in DOMAIN u : Fits(k, u[k])
  BY <1>1, ParsedFits DEF SoundForm, AcceptedForm
<1>4. KeyMgmt \in DOMAIN u /\ (Channel \in DOMAIN u <=> Band \in DOMAIN u)
  BY <1>1 DEF SoundForm, AcceptedForm
<1>5. ASSUME NEW k \in DOMAIN u \cap Numbers
      PROVE  f[k] \in DOMAIN Atoi /\ u[k] = Atoi[f[k]]
  <2>1. Valid(k, f[k])
    BY <1>1 DEF AcceptedForm
  <2>2. f[k] \in DOMAIN Atoi
    BY <2>1, ValidByKind DEF InRange, Numbers
  <2> QED BY <1>1, <2>2, ParsedByKind
<1>6. ASSUME Channel \in DOMAIN u, u[Channel] # 0 PROVE u[Band] # ""
  <2>1. f[Channel] # "0"
    BY <1>5, <1>6, AtoiAssumption DEF Numbers
  <2>2. f[Band] # ""
    BY <1>1, <1>6, <2>1 DEF AcceptedForm, CheckConnProfile
  <2>3. u[Band] = Parsed(Band, f[Band])
    BY <1>1, <1>4, <1>6
  <2>4. Parsed(Band, f[Band]) = f[Band]
    BY ParsedByKind
  <2> QED BY <2>2, <2>3, <2>4
<1>7. HasNumerals(u)
  BY <1>5 DEF HasNumerals
<1> QED BY <1>2, <1>3, <1>4, <1>6, <1>7 DEF SoundUpdate, u

(* The pages show sound forms of sound settings. *)
LEMMA SettingsFormSound ==
  ASSUME NEW s, Sound(s)
  PROVE  SoundForm(SettingsForm(s)) /\ DOMAIN SettingsForm(s) = DumpedKeys(s)
<1> DEFINE f == SettingsForm(s)
<1>1. DOMAIN f = DumpedKeys(s)
  BY DEF SettingsForm
<1>2. DumpedKeys(s) \subseteq Keys
  BY DEF DumpedKeys, Keys
<1>3. Channel \in DumpedKeys(s) <=> Band \in DumpedKeys(s)
  BY DEF DumpedKeys, Keys, ConnKeys, IPv4Keys, WifiKeys
<1>4. ASSUME NEW k \in DumpedKeys(s) \cap TextKeys PROVE f[k] \in Texts
  <2>1. k \in {"connection.zone", "802-11-wireless.ssid", PSK}
    BY <1>2 DEF TextKeys, LegacyKeys, Keys, ConnKeys, WifiKeys, WifiSecKeys, Whitelists, IPv4Keys
  <2>2. f[k] = Shown(k, Dump(s)[k])
    BY DEF SettingsForm
  <2>3. CASE k = PSK
    BY <2>2, <2>3, TextsAssumption DEF Shown, Checkboxes, Numbers, Whitelists
  <2>4. CASE k # PSK
    <3>1. f[k] \in {"", Dump(s)[k]}
      BY <2>1, <2>2, <2>4 DEF Shown, Checkboxes, Numbers, Whitelists
    <3>2. Fits(k, Dump(s)[k])
      BY DumpFits
    <3>3. Dump(s)[k] \in Texts
      BY <2>1, <2>4, <3>2, FitsByKind DEF TextKeys
    <3> QED BY <3>1, <3>3, TextsAssumption
  <2> QED BY <2>3, <2>4
<1> QED BY <1>1, <1>2, <1>3, <1>4 DEF SoundForm

(* The form of the external network has four fields, of the same values. *)
LEMMA BriefFormSound ==
  ASSUME NEW s, Sound(s), IsWifi(s)
  PROVE  SoundForm(BriefForm(s)) /\ DOMAIN BriefForm(s) = BriefKeys
<1> DEFINE f == BriefForm(s)
<1>1. DOMAIN f = BriefKeys
  BY DEF BriefForm
<1>2. BriefKeys \subseteq DumpedKeys(s) /\ BriefKeys \subseteq Keys
  BY DEF BriefKeys, DumpedKeys, Keys, ConnKeys, WifiKeys, WifiSecKeys
<1>3. ASSUME NEW k \in BriefKeys \cap TextKeys PROVE f[k] \in Texts
  <2>1. k # KeyMgmt
    BY DEF TextKeys, LegacyKeys
  <2>2. f[k] = SettingsForm(s)[k]
    BY <2>1 DEF BriefForm
  <2> QED BY <1>2, <2>2, SettingsFormSound DEF SoundForm
<1>4. Channel \notin BriefKeys /\ Band \notin BriefKeys
  BY DEF BriefKeys
<1> QED BY <1>1, <1>2, <1>3, <1>4 DEF SoundForm

(* An edit changes fields of the form. *)
LEMMA EditedFormSound ==
  ASSUME NEW f, SoundForm(f), NEW edit, DOMAIN edit \subseteq DOMAIN f,
         \A k \in DOMAIN edit \cap TextKeys : edit[k] \in Texts
  PROVE  SoundForm(Over(edit, f))
<1>1. DOMAIN Over(edit, f) = DOMAIN f
  BY DEF Over
<1>2. \A k \in DOMAIN f : Over(edit, f)[k] = IF k \in DOMAIN edit THEN edit[k] ELSE f[k]
  BY DEF Over
<1> QED BY <1>1, <1>2 DEF SoundForm

-----------------------------------------------------------------------------
(* A number is printed as a numeral which is read as that number. *)
LEMMA NumeralIsRead ==
  ASSUME NEW s, Sound(s), NEW k \in Numbers \cap DumpedKeys(s)
  PROVE  /\ Numeral(Dump(s)[k]) \in DOMAIN Atoi
         /\ Atoi[Numeral(Dump(s)[k])] = Dump(s)[k]
<1>1. Dump(s)[k] = EnsureVar(s, k)
  BY DEF Dump, Numbers
<1>2. \E text \in DOMAIN Atoi : Atoi[text] = EnsureVar(s, k)
  <2>1. CASE k \in DOMAIN s
    BY <2>1 DEF Sound, HasNumerals, EnsureVar
  <2>2. CASE k \notin DOMAIN s
    <3>1. EnsureVar(s, k) = 0
      BY <2>2, DefaultValues DEF EnsureVar, Numbers
    <3> QED BY <3>1, AtoiAssumption
  <2> QED BY <2>1, <2>2
<1>3. CASE EnsureVar(s, k) = 0
  BY <1>1, <1>3, AtoiAssumption DEF Numeral
<1>4. CASE EnsureVar(s, k) # 0
  BY <1>1, <1>2, <1>4 DEF Numeral
<1> QED BY <1>3, <1>4

(* A value that a form shows is taken by the parser of its field, and      *)
(* means the same again: the timeouts with an exponent, ad-hoc mode and    *)
(* the password are all that is lost on the way, and a whitelist of every  *)
(* cipher becomes an empty one.                                            *)
LEMMA ShownIsRead ==
  ASSUME NEW s, Sound(s), NEW k \in DumpedKeys(s),
         ~(k = Timeout /\ Dump(s)[k] >= ExponentFrom)
  PROVE  /\ Valid(k, Shown(k, Dump(s)[k]))
         /\ k # PSK /\ ~(k = Mode /\ Dump(s)[k] = "adhoc") /\ ~(k = Zone /\ Dump(s)[k] = "NULL") =>
              Parsed(k, Shown(k, Dump(s)[k])) =
                IF k \in Whitelists /\ Dump(s)[k] = "all" THEN "any" ELSE Dump(s)[k]
<1> DEFINE v == Dump(s)[k]
<1>1. Fits(k, v) /\ k \in Keys
  BY DumpFits DEF DumpedKeys, Keys
<1>2. CASE k \in Checkboxes
  <2>1. v \in BOOLEAN
    BY <1>1, <1>2, FitsByKind
  <2>2. Shown(k, v) = IF v THEN Checked[k] ELSE Unchecked[k]
    BY <1>2 DEF Shown
  <2>3. Valid(k, Shown(k, v))
    BY <1>2, <2>1, <2>2 DEF Valid, ValidConn, ValidWifi, ValidIPv4, IsCheckbox, Checkboxes
  <2>4. Parsed(k, Shown(k, v)) = (Shown(k, v) = Checked[k])
    BY <1>2, ParsedByKind DEF ParseCheckbox
  <2>5. Checked[k] # Unchecked[k]
    BY <1>2 DEF Checked, Unchecked, Checkboxes
  <2>6. Parsed(k, Shown(k, v)) = v
    BY <2>1, <2>2, <2>4, <2>5
  <2> QED BY <1>2, <2>3, <2>6 DEF Checkboxes, Whitelists
<1>3. CASE k \in Numbers
  <2>1. Shown(k, v) = Numeral(v)
    BY <1>3 DEF Shown, Numbers, Checkboxes
  <2>2. Numeral(v) \in DOMAIN Atoi /\ Atoi[Numeral(v)] = v
    BY <1>3, NumeralIsRead
  <2>3. k \in Numbers \ {Timeout} => v \in Int /\ -999 <= v /\ v <= 999
    BY <1>1 DEF Fits
  <2>4. k = Timeout => v \in Nat /\ v <= MaxInt32
    BY <1>1 DEF Fits
  <2>5. Valid(k, Shown(k, v))
    BY <1>3, <2>1, <2>2, <2>3, <2>4 DEF Valid, ValidConn, ValidWifi, ValidIPv4, InRange, Numbers
  <2>6. Parsed(k, Shown(k, v)) = v
    BY <1>3, <2>1, <2>2, ParsedByKind
  <2> QED BY <1>3, <2>5, <2>6 DEF Numbers, Whitelists
<1>4. CASE k \in Whitelists
  <2>1. v \in {"any", "some", "all"}
    BY <1>1, <1>4, FitsByKind
  <2>2. Shown(k, v) = IF v = "any" THEN "all" ELSE v
    BY <1>4 DEF Shown, Whitelists, Checkboxes, Numbers
  <2> QED BY <1>4, <2>1, <2>2, ParsedByKind DEF Valid, ValidWifiSec, Whitelists
<1>5. CASE k = LinkLocal
  <2>1. v \in 0..4
    BY <1>1, <1>5, FitsByKind
  <2>2. Shown(k, v) = LinkLocalInfo[v]
    BY <1>5 DEF Shown, Whitelists, Checkboxes, Numbers
  <2>3. \A n \in 0..4 : LinkLocalInfo[n] = LinkLocalInfo[v] => n = v
    BY <2>1 DEF LinkLocalInfo
  <2>4. NewLinkLocal(LinkLocalInfo[v]) = v
    BY <2>1, <2>3 DEF NewLinkLocal
  <2> QED BY <1>5, <2>1, <2>2, <2>4, ParsedByKind
          DEF Valid, ValidIPv4, LinkLocalNames, Whitelists
<1>6. CASE k = Mode
  <2>1. v \in DOMAIN ModeInfo /\ v # ""
    <3>1. v \in DOMAIN ModeInfo
      BY <1>1, <1>6, FitsByKind
    <3>2. v = IF EnsureVar(s, k) = "" THEN "infrastructure" ELSE EnsureVar(s, k)
      BY <1>6 DEF Dump
    <3> QED BY <3>1, <3>2
  <2>2. Shown(k, v) = SelectedMode(v)
    BY <1>6 DEF Shown, Whitelists, Checkboxes, Numbers
  <2>3. SelectedMode(v) \in DOMAIN ModeInfo /\ (v # "adhoc" => SelectedMode(v) = v)
    BY <2>1 DEF SelectedMode, ModeInfo, OfferedModes
  <2> QED BY <1>6, <2>2, <2>3, ParsedByKind DEF Valid, ValidWifi, Whitelists
<1>7. CASE k = PSK
  BY <1>7 DEF Valid, ValidWifiSec
<1>8. CASE k = Zone
  <2>1. Shown(k, v) = IF v = "NULL" THEN "" ELSE v
    BY <1>8 DEF Shown, Whitelists, Checkboxes, Numbers
  <2>2. Valid(k, Shown(k, v))
    BY <1>8 DEF Valid, ValidConn
  <2> QED BY <1>8, <2>1, <2>2, ParsedByKind DEF Whitelists
<1>9. CASE k \in {Band, KeyMgmt, Method, "802-11-wireless.ssid"}
  <2>1. Shown(k, v) = v
    BY <1>9 DEF Shown, Whitelists, Checkboxes, Numbers
  <2>2. Valid(k, v)
    BY <1>1, <1>9, FitsByKind DEF Valid, ValidConn, ValidWifi, ValidWifiSec, ValidIPv4
  <2> QED BY <1>9, <2>1, <2>2, ParsedByKind DEF Whitelists
<1> QED
  BY <1>1, <1>2, <1>3, <1>4, <1>5, <1>6, <1>7, <1>8, <1>9
  DEF Keys, ConnKeys, WifiKeys, WifiSecKeys, IPv4Keys, Checkboxes, Numbers

-----------------------------------------------------------------------------
(* The inductive invariant.                                                *)

(* The page of a request was made of sound settings of this profile, and   *)
(* its form has fields the parser knows.                                   *)
PageIsSound(r) ==
  /\ Sound(shown[r]) /\ shown[r][TypeKey] = settings[TypeKey]
  /\ SoundForm(form[r])

(* What a request merges comes from a form which was not refused. *)
UpdateIsParsed(r) ==
  at[r] \in {"parsed", "read"} =>
    AcceptedForm(form[r]) /\ update[r] = ParsedForm(form[r])

(* What it merges it into was, and without a race still is, what           *)
(* NetworkManager holds, but for the secret.                               *)
ReadIsSound(r) ==
  at[r] = "read" =>
    /\ Sound(read[r]) /\ read[r][TypeKey] = settings[TypeKey]
    /\ PSK \notin DOMAIN read[r]
    /\ ~raced[r] => read[r] = GetSettings(settings)

SettingsInv ==
  /\ SettingsTypeOK
  /\ Sound(settings) /\ Sound(saved) /\ saved[TypeKey] = settings[TypeKey]
  /\ \A r \in Requests : PageIsSound(r) /\ UpdateIsParsed(r) /\ ReadIsSound(r)
  /\ UnmodifiedFormIsAccepted

(* The form as the page shows it is refused for the known reasons only,    *)
(* and keeps the password.                                                 *)
LEMMA UneditedIsAccepted ==
  ASSUME NEW s, Sound(s), ~KnownToBeRefused(s)
  PROVE  AcceptedForm(SettingsForm(s)) /\ KeepsPSK(SettingsForm(s))
<1> DEFINE f == SettingsForm(s)
<1>1. DumpedKeys(s) = Keys /\ DOMAIN f = Keys
  BY SettingsFormSound DEF KnownToBeRefused, DumpedKeys
<1>2. \A k \in Keys : f[k] = Shown(k, Dump(s)[k])
  BY <1>1 DEF SettingsForm
<1>3. {Timeout, KeyMgmt, PSK, Channel, Band} \subseteq Keys
  BY DEF Keys, WifiKeys, WifiSecKeys, IPv4Keys
<1>4. \A k \in Keys \ {Mode} : Dump(s)[k] = EnsureVar(s, k)
  BY <1>1 DEF Dump
<1> HIDE DEF f
<1>5. ~(Dump(s)[Timeout] >= ExponentFrom)
  BY <1>3, <1>4 DEF KnownToBeRefused
<1>6. \A k \in Keys : Valid(k, f[k])
  BY <1>1, <1>2, <1>5, ShownIsRead
<1>7. CheckConnProfile(f)
  <2>1. f[Band] = EnsureVar(s, Band)
    BY <1>2, <1>3, <1>4 DEF Shown, Checkboxes, Numbers, Whitelists
  <2>2. f[Channel] = Numeral(Dump(s)[Channel])
    BY <1>2, <1>3 DEF Shown, Checkboxes, Numbers
  <2>3. /\ f[Channel] \in DOMAIN Atoi
        /\ Atoi[f[Channel]] = EnsureVar(s, Channel)
    BY <1>1, <1>3, <1>4, <2>2, NumeralIsRead DEF Numbers
  <2>4. CASE EnsureVar(s, Channel) = 0
    BY <1>4, <1>3, <2>2, <2>4 DEF Numeral, CheckConnProfile
  <2>5. CASE EnsureVar(s, Channel) # 0
    BY <2>1, <2>5 DEF Sound, NamesBand, CheckConnProfile
  <2> QED BY <2>4, <2>5
<1>8. KeepsPSK(f)
  <2>1. f[PSK] = ""
    BY <1>2, <1>3 DEF Shown, Checkboxes, Numbers, Whitelists
  <2>2. f[KeyMgmt] = EnsureVar(s, KeyMgmt)
    BY <1>2, <1>3, <1>4 DEF Shown, Checkboxes, Numbers, Whitelists
  <2> QED BY <2>1, <2>2 DEF KeepsPSK, KnownToBeRefused
<1> QED BY <1>1, <1>3, <1>6, <1>7, <1>8 DEF AcceptedForm, f

(* The invariant holds initially. *)
LEMMA SettingsInitInv == SettingsInit => SettingsInv
<1> SUFFICES ASSUME SettingsInit PROVE SettingsInv
    OBVIOUS
<1>1. Sound(settings) /\ saved = settings
  BY ProfilesAssumption DEF SettingsInit
<1>2. DOMAIN NoForm = {}
  BY DEF NoForm
<1>3. WellTyped(NoForm) /\ SoundForm(NoForm)
  BY <1>2 DEF WellTyped, SoundForm
<1>4. SettingsTypeOK
  BY <1>1, <1>3 DEF SettingsInit, SettingsTypeOK, Sound
<1>5. \A r \in Requests : PageIsSound(r) /\ UpdateIsParsed(r) /\ ReadIsSound(r)
  BY <1>1, <1>3 DEF SettingsInit, PageIsSound, UpdateIsParsed, ReadIsSound
<1>6. UnmodifiedFormIsAccepted
  BY DEF SettingsInit, UnmodifiedFormIsAccepted
<1> QED BY <1>1, <1>4, <1>5, <1>6 DEF SettingsInv

(* What a write makes of the settings. *)
LEMMA WriteIsSound ==
  ASSUME SettingsInv, NEW r \in Requests, at[r] = "read"
  PROVE  LET m == Merged(read[r], update[r]) IN
         /\ SoundUpdate(update[r])
         /\ Sound(m) /\ Sound(KeepSecret(m, settings))
         /\ KeepSecret(m, settings)[TypeKey] = settings[TypeKey]
<1>1. SoundUpdate(update[r])
  BY ParsedFormSound DEF SettingsInv, PageIsSound, UpdateIsParsed
<1>2. /\ Sound(Merged(read[r], update[r]))
      /\ Merged(read[r], update[r])[TypeKey] = settings[TypeKey]
  BY <1>1, MergedSound DEF SettingsInv, ReadIsSound
<1> QED BY <1>1, <1>2, KeepSecretSound DEF SettingsInv

(* A step that keeps the settings and touches one request keeps what is    *)
(* known of the others.                                                    *)
LEMMA OthersKeep ==
  ASSUME NEW r \in Requests, SettingsInv, settings' = settings,
         \A q \in Requests \ {r} :
           /\ at'[q] = at[q] /\ form'[q] = form[q] /\ shown'[q] = shown[q]
           /\ update'[q] = update[q] /\ read'[q] = read[q] /\ raced'[q] = raced[q]
  PROVE  \A q \in Requests \ {r} :
           /\ PageIsSound(q)' /\ UpdateIsParsed(q)' /\ ReadIsSound(q)'
           /\ at'[q] \in {"invalid", "panicked", "rejected"} /\ Unedited(q)'
                => KnownToBeRefused(shown'[q])
BY DEF SettingsInv, PageIsSound, UpdateIsParsed, ReadIsSound, UnmodifiedFormIsAccepted, Unedited

(* A step that keeps the settings keeps the invariant if it does so for    *)
(* its own request.                                                        *)
LEMMA OwnStepSuffices ==
  ASSUME NEW r \in Requests, SettingsInv, UNCHANGED storeVars, SettingsTypeOK',
         \A q \in Requests \ {r} :
           /\ at'[q] = at[q] /\ form'[q] = form[q] /\ shown'[q] = shown[q]
           /\ update'[q] = update[q] /\ read'[q] = read[q] /\ raced'[q] = raced[q],
         PageIsSound(r)', UpdateIsParsed(r)', ReadIsSound(r)',
         at'[r] \in {"invalid", "panicked", "rejected"} /\ Unedited(r)'
           => KnownToBeRefused(shown'[r])
  PROVE  SettingsInv'
<1>1. settings' = settings /\ saved' = saved
  BY DEF storeVars
<1>2. \A q \in Requests : PageIsSound(q)' /\ UpdateIsParsed(q)' /\ ReadIsSound(q)'
  BY <1>1, OthersKeep
<1>3. UnmodifiedFormIsAccepted'
  BY <1>1, OthersKeep DEF UnmodifiedFormIsAccepted
<1> QED BY <1>1, <1>2, <1>3 DEF SettingsInv

(* A page is made of the present settings, and is edited. *)
LEMMA OpenKeepsInv ==
  ASSUME SettingsInv, NEW r \in Requests, OpenSettings(r) \/ OpenExternalNetwork(r)
  PROVE  SettingsInv'
<1>1. /\ at' = [at EXCEPT ![r] = "page"] /\ shown' = [shown EXCEPT ![r] = settings]
      /\ UNCHANGED <<storeVars, update, read, raced>>
  BY DEF OpenSettings, OpenExternalNetwork, Goto
<1>2. PICK f : SoundForm(f) /\ form' = [form EXCEPT ![r] = f]
  <2>1. CASE OpenSettings(r)
    <3>1. PICK edit \in Edits :
            /\ DOMAIN edit \subseteq DumpedKeys(settings)
            /\ form' = [form EXCEPT ![r] = Over(edit, SettingsForm(settings))]
      BY <2>1 DEF OpenSettings
    <3> QED BY <3>1, SettingsFormSound, EditedFormSound, EditsAssumption DEF SettingsInv
  <2>2. CASE OpenExternalNetwork(r)
    <3>1. PICK edit \in BriefEdits :
            form' = [form EXCEPT ![r] = Over(edit, BriefForm(settings))]
      BY <2>2 DEF OpenExternalNetwork
    <3>2. IsWifi(settings)
      BY <2>2 DEF OpenExternalNetwork
    <3> QED BY <3>1, <3>2, BriefFormSound, EditedFormSound, EditsAssumption DEF SettingsInv
  <2> QED BY <2>1, <2>2
<1>3. disk' \in [Requests -> BOOLEAN]
  BY DEF OpenSettings, OpenExternalNetwork, SettingsInv, SettingsTypeOK
<1>4. SettingsTypeOK'
  BY <1>1, <1>2, <1>3 DEF SettingsInv, SettingsTypeOK, Sound, storeVars
<1>5. at'[r] = "page" /\ form'[r] = f /\ shown'[r] = settings
  BY <1>1, <1>2 DEF SettingsInv, SettingsTypeOK
<1>6. PageIsSound(r)' /\ UpdateIsParsed(r)' /\ ReadIsSound(r)'
  BY <1>1, <1>2, <1>5 DEF PageIsSound, UpdateIsParsed, ReadIsSound, SettingsInv, storeVars
<1> QED BY <1>1, <1>2, <1>4, <1>5, <1>6, OwnStepSuffices DEF SettingsInv, SettingsTypeOK

(* A form is refused, or parsed to a sound update; the one nobody has      *)
(* edited is refused for the known reasons only.                           *)
LEMMA ParseKeepsInv ==
  ASSUME SettingsInv, NEW r \in Requests, Parse(r)
  PROVE  SettingsInv'
<1>1. at[r] = "page" /\ UNCHANGED <<storeVars, form, disk, shown, read, raced>>
  BY DEF Parse
<1>2. PageIsSound(r)'
  BY <1>1 DEF SettingsInv, PageIsSound, storeVars
<1>3. CASE AcceptedForm(form[r])
  <2>1. /\ at' = [at EXCEPT ![r] = "parsed"]
        /\ update' = [update EXCEPT ![r] = ParsedForm(form[r])]
    BY <1>3 DEF Parse, AcceptedForm, Goto
  <2>2. SoundUpdate(ParsedForm(form[r]))
    BY <1>3, ParsedFormSound DEF SettingsInv, PageIsSound
  <2>3. WellTyped(ParsedForm(form[r]))
    BY <2>2 DEF SoundUpdate, WellTyped
  <2>4. SettingsTypeOK'
    BY <1>1, <2>1, <2>3 DEF SettingsInv, SettingsTypeOK, storeVars
  <2>5. at'[r] = "parsed" /\ update'[r] = ParsedForm(form[r])
    BY <2>1 DEF SettingsInv, SettingsTypeOK
  <2>6. UpdateIsParsed(r)' /\ ReadIsSound(r)'
    BY <1>1, <1>3, <2>5 DEF UpdateIsParsed, ReadIsSound
  <2> QED BY <1>1, <1>2, <2>1, <2>4, <2>5, <2>6, OwnStepSuffices DEF SettingsInv, SettingsTypeOK
<1>4. CASE ~AcceptedForm(form[r])
  <2>1. PICK to \in {"invalid", "panicked"} : at' = [at EXCEPT ![r] = to] /\ update' = update
    BY <1>4 DEF Parse, AcceptedForm, Goto
  <2>2. SettingsTypeOK'
    BY <1>1, <2>1 DEF SettingsInv, SettingsTypeOK, storeVars
  <2>3. at'[r] \in {"invalid", "panicked"}
    BY <2>1 DEF SettingsInv, SettingsTypeOK
  <2>4. UpdateIsParsed(r)' /\ ReadIsSound(r)'
    BY <2>3 DEF UpdateIsParsed, ReadIsSound
  <2>5. Unedited(r)' => KnownToBeRefused(shown'[r])
    BY <1>1, <1>4, UneditedIsAccepted DEF SettingsInv, PageIsSound, Unedited
  <2> QED BY <1>1, <1>2, <2>1, <2>2, <2>4, <2>5, OwnStepSuffices DEF SettingsInv, SettingsTypeOK
<1> QED BY <1>3, <1>4

(* The settings are read without the secret, and nothing has raced yet. *)
LEMMA ReadKeepsInv ==
  ASSUME SettingsInv, NEW r \in Requests, Read(r)
  PROVE  SettingsInv'
<1>1. /\ at[r] = "parsed" /\ at' = [at EXCEPT ![r] = "read"]
      /\ read' = [read EXCEPT ![r] = GetSettings(settings)]
      /\ raced' = [raced EXCEPT ![r] = FALSE]
      /\ UNCHANGED <<storeVars, form, disk, shown, update>>
  BY DEF Read, Goto
<1>2. /\ Sound(GetSettings(settings)) /\ PSK \notin DOMAIN GetSettings(settings)
      /\ GetSettings(settings)[TypeKey] = settings[TypeKey]
  BY GetSettingsSound DEF SettingsInv
<1>3. SettingsTypeOK'
  BY <1>1, <1>2 DEF SettingsInv, SettingsTypeOK, Sound, storeVars
<1>4. at'[r] = "read" /\ read'[r] = GetSettings(settings)
  BY <1>1 DEF SettingsInv, SettingsTypeOK
<1>5. PageIsSound(r)' /\ UpdateIsParsed(r)' /\ ReadIsSound(r)'
  BY <1>1, <1>2, <1>4 DEF SettingsInv, PageIsSound, UpdateIsParsed, ReadIsSound, storeVars
<1> QED BY <1>1, <1>3, <1>4, <1>5, OwnStepSuffices DEF SettingsInv, SettingsTypeOK

(* NetworkManager rejects an empty password, which an unedited form does   *)
(* not submit, or the request fails.                                       *)
LEMMA RejectionKeepsInv ==
  ASSUME SettingsInv, NEW r \in Requests, WriteRejected(r) \/ UpdateFails(r)
  PROVE  SettingsInv'
<1>1. PICK to \in {"rejected", "failed"} :
        /\ at' = [at EXCEPT ![r] = to]
        /\ to = "rejected" => at[r] = "read" /\ ~Acceptable(Merged(read[r], update[r]))
  BY DEF WriteRejected, UpdateFails, Goto
<1>2. UNCHANGED <<storeVars, form, disk, shown, update, read, raced>>
  BY DEF WriteRejected, UpdateFails
<1>3. SettingsTypeOK'
  BY <1>1, <1>2 DEF SettingsInv, SettingsTypeOK, storeVars
<1>4. at'[r] = to
  BY <1>1 DEF SettingsInv, SettingsTypeOK
<1>5. PageIsSound(r)' /\ UpdateIsParsed(r)' /\ ReadIsSound(r)'
  BY <1>2, <1>4 DEF SettingsInv, PageIsSound, UpdateIsParsed, ReadIsSound, storeVars
<1>6. ASSUME to = "rejected", Unedited(r), ~KnownToBeRefused(shown[r]) PROVE FALSE
  <2>1. KeepsPSK(form[r])
    BY <1>6, UneditedIsAccepted DEF Unedited, SettingsInv, PageIsSound
  <2>2. PSK \notin DOMAIN update[r]
    BY <1>1, <1>6, <2>1 DEF SettingsInv, UpdateIsParsed, ParsedForm
  <2>3. PSK \notin DOMAIN Merged(read[r], update[r])
    BY <1>1, <1>6, <2>2 DEF SettingsInv, ReadIsSound, Merged, WithoutKeys, Over
  <2> QED BY <1>1, <1>6, <2>3 DEF Acceptable
<1>7. at'[r] \in {"invalid", "panicked", "rejected"} /\ Unedited(r)' => KnownToBeRefused(shown'[r])
  BY <1>2, <1>4, <1>6 DEF Unedited
<1> QED BY <1>1, <1>2, <1>3, <1>5, <1>7, OwnStepSuffices DEF SettingsInv, SettingsTypeOK

(* A step that changes the settings keeps what is known of the requests,   *)
(* since whoever has read before is raced.                                 *)
LEMMA ChangeKeepsRequests ==
  ASSUME SettingsInv, Races, settings'[TypeKey] = settings[TypeKey],
         UNCHANGED <<form, shown, update, read>>,
         \A q \in Requests : at'[q] = at[q] \/ at'[q] \in {"redirected", "failed"}
  PROVE  /\ \A q \in Requests : PageIsSound(q)' /\ UpdateIsParsed(q)' /\ ReadIsSound(q)'
         /\ UnmodifiedFormIsAccepted'
<1>1. \A q \in Requests : ~raced'[q] => ~raced[q] /\ settings' = settings
  BY DEF Races
<1>2. \A q \in Requests : PageIsSound(q)' /\ UpdateIsParsed(q)'
  BY DEF SettingsInv, PageIsSound, UpdateIsParsed
<1>3. \A q \in Requests : ReadIsSound(q)'
  BY <1>1 DEF SettingsInv, ReadIsSound
<1>4. UnmodifiedFormIsAccepted'
  BY DEF SettingsInv, UnmodifiedFormIsAccepted, Unedited
<1> QED BY <1>2, <1>3, <1>4

(* Sound settings are written, whatever has happened since they were read. *)
LEMMA WriteKeepsInv ==
  ASSUME SettingsInv, NEW r \in Requests, Write(r)
  PROVE  SettingsInv'
<1>1. /\ at[r] = "read" /\ \E end \in {"redirected", "failed"} : at' = [at EXCEPT ![r] = end]
      /\ settings' = KeepSecret(Merged(read[r], update[r]), settings)
      /\ saved' \in {settings', saved}
      /\ Races /\ UNCHANGED <<form, disk, shown, update, read>>
  BY DEF Write, Goto
<1>2. Sound(settings') /\ settings'[TypeKey] = settings[TypeKey]
  BY <1>1, WriteIsSound
<1>3. Sound(saved') /\ saved'[TypeKey] = settings'[TypeKey]
  BY <1>1, <1>2 DEF SettingsInv
<1>4. raced' \in [Requests -> BOOLEAN]
  BY <1>1 DEF Races, SettingsInv, SettingsTypeOK
<1>5. SettingsTypeOK'
  BY <1>1, <1>2, <1>3, <1>4 DEF SettingsInv, SettingsTypeOK, Sound
<1>6. \A q \in Requests : at'[q] = at[q] \/ at'[q] \in {"redirected", "failed"}
  BY <1>1 DEF SettingsInv, SettingsTypeOK
<1> QED BY <1>1, <1>2, <1>3, <1>5, <1>6, ChangeKeepsRequests DEF SettingsInv

(* The profile is loaded again from its file, which is sound, too. *)
LEMMA ReloadKeepsInv ==
  ASSUME SettingsInv, Reload
  PROVE  SettingsInv'
<1>1. /\ settings' = saved /\ saved' = saved /\ Races
      /\ UNCHANGED <<at, form, disk, shown, update, read>>
  BY DEF Reload, requestVars
<1>2. raced' \in [Requests -> BOOLEAN]
  BY <1>1 DEF Races, SettingsInv, SettingsTypeOK
<1>3. SettingsTypeOK'
  BY <1>1, <1>2 DEF SettingsInv, SettingsTypeOK
<1>4. settings'[TypeKey] = settings[TypeKey]
  BY <1>1 DEF SettingsInv
<1> QED BY <1>1, <1>3, <1>4, ChangeKeepsRequests DEF SettingsInv

(* Every step keeps the invariant. *)
LEMMA SettingsNextInv == SettingsInv /\ [SettingsNext]_settingsVars => SettingsInv'
<1> SUFFICES ASSUME SettingsInv, [SettingsNext]_settingsVars PROVE SettingsInv'
    OBVIOUS
<1>1. ASSUME NEW r \in Requests, Step(r) PROVE SettingsInv'
  BY <1>1, OpenKeepsInv, ParseKeepsInv, ReadKeepsInv, WriteKeepsInv, RejectionKeepsInv DEF Step
<1>2. CASE Reload
  BY <1>2, ReloadKeepsInv
<1>3. CASE UNCHANGED settingsVars
  BY <1>3 DEF settingsVars, SettingsInv, SettingsTypeOK, PageIsSound, UpdateIsParsed, ReadIsSound,
              UnmodifiedFormIsAccepted, Unedited
<1> QED BY <1>1, <1>2, <1>3 DEF SettingsNext

(* Whatever the profiles at first, the users' edits and the number of      *)
(* requests, the settings in memory, in the file and in every request keep *)
(* the keys and the types of values the handlers know.                     *)
THEOREM SettingsTypeCorrect == SettingsSpec => []SettingsTypeOK
<1>1. SettingsInv => SettingsTypeOK
  BY DEF SettingsInv
<1> QED BY <1>1, SettingsInitInv, SettingsNextInv, PTL DEF SettingsSpec

(* No interleaving of updates, partial or whole, raced or not, of reloads  *)
(* and failures makes a channel without a band of profiles which have none *)
(* at first, although checkConnProfile sees one form at a time.            *)
THEOREM ChannelsHaveBands == SettingsSpec => []ChannelHasBand
<1>1. SettingsInv => ChannelHasBand
  BY DEF SettingsInv, Sound, ChannelHasBand
<1> QED BY <1>1, SettingsInitInv, SettingsNextInv, PTL DEF SettingsSpec

(* Nor does one leave a password or ciphers to a network without key       *)
(* management: a stale write of settings read before cannot do so either.  *)
THEOREM OpenNetworksAreBare == SettingsSpec => []OpenHasNoSecret
<1>1. SettingsInv => OpenHasNoSecret
  BY DEF SettingsInv, Sound, OpenHasNoSecret
<1> QED BY <1>1, SettingsInitInv, SettingsNextInv, PTL DEF SettingsSpec

(* The form of any profile, submitted as the page shows it, is accepted by *)
(* the parsers, checkConnProfile and NetworkManager, but for wired         *)
(* connections, timeouts of a million or more, WEP and OWE.                *)
THEOREM UnmodifiedFormsAreAccepted == SettingsSpec => []UnmodifiedFormIsAccepted
<1>1. SettingsInv => UnmodifiedFormIsAccepted
  BY DEF SettingsInv
<1> QED BY <1>1, SettingsInitInv, SettingsNextInv, PTL DEF SettingsSpec

(* The step that ends a request after its reading is the write of its      *)
(* merged settings, or it changes none.                                    *)
LEMMA EndIsWrite ==
  ASSUME SettingsInv, SettingsNext, NEW r \in Requests,
         at[r] = "read", at'[r] # "read", settings' # settings
  PROVE  Write(r)
<1>1. \A q \in Requests : Step(q) /\ q # r => at'[r] = at[r]
  BY DEF Step, OpenSettings, OpenExternalNetwork, Parse, Read, Write, WriteRejected, UpdateFails,
         Goto, SettingsInv, SettingsTypeOK
<1>2. Reload => at'[r] = at[r]
  BY DEF Reload, requestVars
<1>3. Step(r)
  BY <1>1, <1>2 DEF SettingsNext
<1>4. ~WriteRejected(r) /\ ~UpdateFails(r)
  BY DEF WriteRejected, UpdateFails, storeVars
<1>5. ~OpenSettings(r) /\ ~OpenExternalNetwork(r) /\ ~Parse(r) /\ ~Read(r)
  BY DEF OpenSettings, OpenExternalNetwork, Parse, Read, Goto
<1> QED BY <1>3, <1>4, <1>5 DEF Step

(* What every key but the password is after a write, and the password of a *)
(* network with security when none was submitted.                          *)
LEMMA WrittenValue ==
  ASSUME SettingsInv, NEW r \in Requests, Write(r), NEW k \in Keys
  PROVE  LET closes == k \in WifiSecKeys /\ update[r][KeyMgmt] = ""
         IN  /\ k # PSK => EnsureVar(settings', k) =
                             IF closes THEN Default(k)
                             ELSE IF k \in DOMAIN update[r] THEN update[r][k]
                             ELSE EnsureVar(read[r], k)
             /\ k = PSK /\ ~closes /\ k \notin DOMAIN update[r]
                  => EnsureVar(settings', k) = EnsureVar(settings, k)
<1> DEFINE m == Merged(read[r], update[r])
<1>1. at[r] = "read" /\ settings' = KeepSecret(m, settings)
  BY DEF Write, Goto
<1>2. SoundUpdate(update[r]) /\ Sound(m)
  BY <1>1, WriteIsSound
<1>3. ASSUME k # PSK
      PROVE  EnsureVar(settings', k) =
               IF k \in WifiSecKeys /\ update[r][KeyMgmt] = "" THEN Default(k)
               ELSE IF k \in DOMAIN update[r] THEN update[r][k]
               ELSE EnsureVar(read[r], k)
  <2>1. EnsureVar(settings', k) = EnsureVar(m, k)
    BY <1>1, <1>2, <1>3, KeepSecretSound DEF SettingsInv
  <2> QED BY <1>2, <2>1, MergedValue
<1>4. ASSUME k = PSK, ~(k \in WifiSecKeys /\ update[r][KeyMgmt] = ""), k \notin DOMAIN update[r]
      PROVE  EnsureVar(settings', k) = EnsureVar(settings, k)
  <2>1. KeyMgmt \in DOMAIN m
    BY <1>2, <1>4, MergedDomain DEF SoundUpdate, LegacyKeys, WifiSecKeys
  <2>2. PSK \notin DOMAIN m
    BY <1>1, <1>2, <1>4, MergedDomain DEF SettingsInv, ReadIsSound
  <2> HIDE DEF m
  <2> QED BY <1>1, <1>4, <2>1, <2>2 DEF KeepSecret, EnsureVar
<1> QED BY <1>3, <1>4

(* An update changes of what it was not to change only what has changed    *)
(* since it read the settings.                                             *)
THEOREM OnlyRacesLoseUpdates == SettingsSpec => LossesNeedARace
<1>1. ASSUME SettingsInv, SettingsNext, NEW r \in Requests,
             at[r] = "read", at'[r] # "read", ~raced[r], settings' # settings,
             NEW k \in Keys, NotSubmitted(r, k)
      PROVE  EnsureVar(settings', k) = EnsureVar(settings, k)
  <2>1. Write(r)
    BY <1>1, EndIsWrite
  <2>2. CASE k = PSK
    BY <1>1, <2>1, <2>2, WrittenValue DEF NotSubmitted
  <2>3. CASE k # PSK
    <3>1. EnsureVar(settings', k) = EnsureVar(read[r], k)
      BY <1>1, <2>1, <2>3, WrittenValue DEF NotSubmitted
    <3>2. EnsureVar(read[r], k) = EnsureVar(settings, k)
      BY <1>1, <2>3, GetSettingsSound DEF SettingsInv, ReadIsSound
    <3> QED BY <3>1, <3>2
  <2> QED BY <2>2, <2>3
<1>2. SettingsInv /\ [SettingsNext]_settingsVars =>
        [\A r \in Requests :
           (at[r] = "read" /\ at'[r] # "read" /\ ~raced[r])
           => \A k \in Keys : NotSubmitted(r, k) => EnsureVar(settings', k) = EnsureVar(settings, k)
        ]_settingsVars
  BY <1>1 DEF settingsVars
<1> QED BY <1>2, SettingsInitInv, SettingsNextInv, PTL DEF SettingsSpec, LossesNeedARace

(* What the write of an unedited form submits of each key. *)
LEMMA UneditedUpdate ==
  ASSUME SettingsInv, NEW r \in Requests, Write(r), Unedited(r), shown[r] = settings
  PROVE  /\ DumpedKeys(settings) = Keys
         /\ DOMAIN update[r] = Keys \ {PSK}
         /\ \A k \in Keys \ ({PSK} \cup Misprinted(settings)) : update[r][k] = Meaning(settings)[k]
         /\ update[r][KeyMgmt] = Meaning(settings)[KeyMgmt]
<1> DEFINE f == SettingsForm(settings)
<1>1. /\ at[r] = "read" /\ form[r] = f
      /\ Acceptable(Merged(read[r], update[r]))
  BY DEF Write, Goto, Unedited
<1>2. AcceptedForm(f) /\ update[r] = ParsedForm(f) /\ Sound(settings)
  BY <1>1 DEF SettingsInv, UpdateIsParsed
<1>3. DumpedKeys(settings) = Keys /\ DOMAIN f = Keys
  <2>1. KeyMgmt \in DumpedKeys(settings)
    BY <1>2, SettingsFormSound DEF AcceptedForm
  <2> QED BY <1>2, <2>1, SettingsFormSound DEF DumpedKeys, ConnKeys, IPv4Keys
<1>4. \A k \in Keys : f[k] = Shown(k, Dump(settings)[k])
  BY <1>3 DEF SettingsForm
<1>5. {Timeout, KeyMgmt, PSK, Mode} \subseteq Keys
  BY DEF Keys, WifiKeys, WifiSecKeys, IPv4Keys
<1> HIDE DEF f
<1>6. ~(Dump(settings)[Timeout] >= ExponentFrom)
  <2> SUFFICES ASSUME Dump(settings)[Timeout] >= ExponentFrom PROVE FALSE
    OBVIOUS
  <2>1. f[Timeout] = "with-an-exponent"
    BY <1>4, <1>5 DEF Shown, Checkboxes
  <2>2. f[Timeout] \in DOMAIN Atoi
    BY <1>2, <1>3, <1>5, ValidByKind DEF AcceptedForm, InRange
  <2> QED BY <2>1, <2>2, AtoiAssumption
<1>7. PSK \notin DOMAIN update[r]
  <2> SUFFICES ASSUME PSK \in DOMAIN update[r] PROVE FALSE
    OBVIOUS
  <2>1. f[PSK] = ""
    BY <1>4, <1>5 DEF Shown, Checkboxes, Numbers, Whitelists
  <2>2. f[KeyMgmt] \in {"none", "owe"}
    BY <1>2, <2>1 DEF ParsedForm, KeepsPSK
  <2>3. update[r][PSK] = "" /\ update[r][KeyMgmt] = f[KeyMgmt]
    <3>1. KeyMgmt \in DOMAIN update[r]
      BY <1>2, <1>3, <1>5 DEF ParsedForm, LegacyKeys
    <3>2. /\ update[r][PSK] = Parsed(PSK, f[PSK])
          /\ update[r][KeyMgmt] = Parsed(KeyMgmt, f[KeyMgmt])
      BY <1>2, <3>1 DEF ParsedForm
    <3>3. Parsed(PSK, f[PSK]) = f[PSK] /\ Parsed(KeyMgmt, f[KeyMgmt]) = f[KeyMgmt]
      BY DEF Parsed, Numbers, Whitelists, Checkboxes
    <3> QED BY <2>1, <3>2, <3>3
  <2>4. PSK \in DOMAIN Merged(read[r], update[r])
    BY <1>1, <2>2, <2>3, WriteIsSound, MergedDomain DEF LegacyKeys
  <2>5. Merged(read[r], update[r])[PSK] = ""
    BY <2>3, <2>4, MergedAt
  <2> QED BY <1>1, <2>4, <2>5 DEF Acceptable
<1>8. DOMAIN update[r] = Keys \ {PSK} /\ \A k \in Keys \ {PSK} : update[r][k] = Parsed(k, f[k])
  BY <1>2, <1>3, <1>7 DEF ParsedForm
<1>9. ASSUME NEW k \in Keys \ ({PSK} \cup Misprinted(settings))
      PROVE  Parsed(k, f[k]) = Meaning(settings)[k]
  <2>1. /\ k = Mode => Dump(settings)[k] # "adhoc"
        /\ k = Zone => Dump(settings)[k] # "NULL"
    BY <1>3, <1>5 DEF Dump, Misprinted
  <2>2. Meaning(settings)[k] =
          IF k \in Whitelists /\ Dump(settings)[k] = "all" THEN "any" ELSE Dump(settings)[k]
    BY <1>3 DEF Meaning
  <2> QED BY <1>2, <1>3, <1>4, <1>6, <2>1, <2>2, ShownIsRead
<1>10. KeyMgmt \in Keys \ ({PSK} \cup Misprinted(settings))
  BY <1>5 DEF Misprinted
<1> QED BY <1>3, <1>8, <1>9, <1>10

(* Submitting it leaves every setting of any profile what it was, the      *)
(* password included, but for the two values which the page misprints:     *)
(* what it prints of each other value is parsed to a value of the same     *)
(* meaning, and the merge puts it in the same place, whether or not the    *)
(* answer to the update is heard.                                          *)
THEOREM UnmodifiedFormsChangeNothing == SettingsSpec => UnmodifiedFormChangesNothing
<1>1. ASSUME SettingsInv, SettingsNext, NEW r \in Requests, EndsUnedited(r),
             settings' # settings, NEW kept \in DumpedKeys(settings) \ Misprinted(settings)
      PROVE  Meaning(settings')[kept] = Meaning(settings)[kept]
  <2>1. Write(r)
    BY <1>1, EndIsWrite DEF EndsUnedited
  <2>2. /\ DumpedKeys(settings) = Keys
        /\ DOMAIN update[r] = Keys \ {PSK}
        /\ \A k \in Keys \ ({PSK} \cup Misprinted(settings)) : update[r][k] = Meaning(settings)[k]
        /\ update[r][KeyMgmt] = Meaning(settings)[KeyMgmt]
    BY <1>1, <2>1, UneditedUpdate DEF EndsUnedited
  <2>3. /\ Sound(settings) /\ Sound(settings')
        /\ settings'[TypeKey] = settings[TypeKey]
    <3>1. settings' = KeepSecret(Merged(read[r], update[r]), settings)
      BY <2>1 DEF Write
    <3> QED BY <1>1, <3>1, WriteIsSound DEF EndsUnedited, SettingsInv
  <2>4. DumpedKeys(settings') = Keys
    BY <2>2, <2>3 DEF DumpedKeys, IsWifi
  <2>5. ASSUME NEW k \in Keys, EnsureVar(settings', k) = EnsureVar(settings, k)
        PROVE  Meaning(settings')[k] = Meaning(settings)[k]
    BY <2>2, <2>4, <2>5 DEF Meaning, Dump
  <2>6. ASSUME NEW k \in Keys, EnsureVar(settings', k) = Meaning(settings)[k]
        PROVE  Meaning(settings')[k] = Meaning(settings)[k]
    <3>1. k \in Whitelists => k # Mode
      BY DEF Whitelists
    <3> QED BY <2>2, <2>4, <2>6, <3>1 DEF Meaning, Dump
  <2>7. KeyMgmt \in Keys \ {PSK} /\ Meaning(settings)[KeyMgmt] = EnsureVar(settings, KeyMgmt)
    BY <2>2 DEF Meaning, Dump, Keys, WifiSecKeys, Whitelists
  <2>8. ASSUME NEW k \in WifiSecKeys, update[r][KeyMgmt] = ""
        PROVE  EnsureVar(settings', k) = EnsureVar(settings, k)
    <3>1. EnsureVar(settings, KeyMgmt) = ""
      BY <2>2, <2>7, <2>8
    <3>2. EnsureVar(settings, k) = Default(k)
      BY <2>3, <3>1 DEF Sound, OpenIsBare, EnsureVar
    <3>3. EnsureVar(settings', KeyMgmt) = ""
      <4>1. KeyMgmt \in WifiSecKeys
        BY DEF WifiSecKeys
      <4> QED BY <1>1, <2>1, <2>7, <2>8, <4>1, WrittenValue, DefaultValues
    <3>4. EnsureVar(settings', k) = Default(k)
      BY <2>3, <3>3 DEF Sound, OpenIsBare, EnsureVar
    <3> QED BY <3>2, <3>4
  <2>9. ASSUME NEW k \in Keys \ Misprinted(settings), ~(k \in WifiSecKeys /\ update[r][KeyMgmt] = "")
        PROVE  Meaning(settings')[k] = Meaning(settings)[k]
    <3>1. CASE k = PSK
      <4>1. EnsureVar(settings', k) = EnsureVar(settings, k)
        BY <1>1, <2>1, <2>2, <2>9, <3>1, WrittenValue
      <4> QED BY <2>5, <4>1
    <3>2. CASE k # PSK
      <4>1. EnsureVar(settings', k) = Meaning(settings)[k]
        BY <1>1, <2>1, <2>2, <2>9, <3>2, WrittenValue
      <4> QED BY <2>6, <4>1
    <3> QED BY <3>1, <3>2
  <2> QED BY <1>1, <2>2, <2>5, <2>8, <2>9
<1>2. SettingsInv /\ [SettingsNext]_settingsVars =>
        [\A r \in Requests : EndsUnedited(r) =>
           \A k \in DumpedKeys(settings) \ Misprinted(settings) :
             Meaning(settings')[k] = Meaning(settings)[k]]_settingsVars
  BY <1>1 DEF settingsVars
<1> QED BY <1>2, SettingsInitInv, SettingsNextInv, PTL DEF SettingsSpec, UnmodifiedFormChangesNothing
=============================================================================
