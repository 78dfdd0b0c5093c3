CONSTANTS
  wlan1 = wlan1
  eth0 = eth0
  internet = internet
  wired = wired
  odd = odd
  ap1 = ap1
  ap2 = ap2
  None = None
  Devs = {wlan1, eth0}
  Wifis = {wlan1}
  Internet = wlan1
  AccessPoints = {ap1, ap2}
  Profiles = {internet, wired, odd}
  FirstProfiles = {internet, wired}
  Unparsable = {odd}
  Fits <- OneKindEach
  MaxActivations = 2
  MaxChanges = 3
SPECIFICATION Spec
INVARIANTS TypeOK EveryPartWasTrue ActivityWasTrue FailureHasACause
PROPERTY ReadEnds
CHECK_DEADLOCK FALSE
