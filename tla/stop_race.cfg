SPECIFICATION Spec
CONSTANTS
  Backend = "memory"
  Absent = Absent
  Never = Never
  NoSid = NoSid
  NoPin = NoPin
  NoLink = NoLink
  NoNick = NoNick
  Sids = {s1}
  Links = {l1}
  Nicks = {n1}
  Pins = {p1}
  Points = {1}
  MaxCachedPts = 1
  Handlers = {"solo", "post", "stopAll"}
  Reqs = {r1, r2}
  Adoptable = {FALSE}
  Encrypted = {FALSE}
  Durations = {1}
  Intervals = {1}
  MaxDuration = 2
  MinInterval = 1
  AllowLinkReq = FALSE
  ReserveWL = FALSE
  ReservedLinks <- NoReservedLinks
  Users = {u1}
  MaxTime = 1
  MaxTargets = 2
  ReuseLinks = TRUE
  TickBusy = FALSE
  CanFail = FALSE
SYMMETRY Symmetric
CHECK_DEADLOCK FALSE
INVARIANTS
  StoppedIsGone
