SPECIFICATION SingleSpec
CONSTANTS
  Backend = "redis"
  Absent = Absent
  Never = Never
  NoSid = NoSid
  NoPin = NoPin
  NoLink = NoLink
  NoNick = NoNick
  Sids = {s1, s2}
  Links = {l1, l2, l3}
  Nicks = {n1, n2}
  Pins = {p1}
  Points = {1}
  MaxCachedPts = 1
  Reqs = {r1}
  Handlers = {"solo", "group", "join", "post", "newLink", "adopt", "stopLink", "stopAll"}
  Adoptable = {TRUE}
  Encrypted = {TRUE, FALSE}
  Durations <- AnyDuration
  Intervals = {1}
  MaxDuration = 2
  MinInterval = 1
  AllowLinkReq = TRUE
  ReserveWL = FALSE
  ReservedLinks <- NoReservedLinks
  Users = {u1}
  MaxTime = 2
  MaxTargets = 3
  ReuseLinks = FALSE
  TickBusy = FALSE
  CanFail = FALSE
SYMMETRY Symmetric
INVARIANTS
  SeqInv
  SoloExpiry
  TargetsCover
  StoppedIsGone
  ExpiredIsGone
  PinResolves
PROPERTIES
  StopIsLocal
  KeepsPromise
CHECK_DEADLOCK FALSE
