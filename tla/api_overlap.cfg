SPECIFICATION FetchSpec
CONSTANTS
  Backend = "redis"
  Absent = Absent
  Never = Never
  NoSid = NoSid
  NoPin = NoPin
  NoLink = NoLink
  NoNick = NoNick
  Sids = {s1, s2}
  Links = {l1, l2}
  Nicks = {n1}
  Pins = {p1}
  Points = {1}
  MaxCachedPts = 1
  Viewers = {v1}
  Sinces = {0}
  Reqs = {r1, r2}
  Handlers = {"solo","group","join","adopt","stopAll"}
  Adoptable = {TRUE}
  Encrypted = {TRUE, FALSE}
  Durations = {1}
  Intervals = {1}
  MaxDuration = 2
  MinInterval = 1
  AllowLinkReq = FALSE
  ReserveWL = FALSE
  ReservedLinks <- NoReservedLinks
  Users = {u1}
  MaxTime = 1
  MaxTargets = 2
  ReuseLinks = TRUE
  TickBusy = FALSE
  CanFail = TRUE
SYMMETRY Symmetric
INVARIANTS
  IInv
  Consent
  PlaintextGroups
  GroupNonEmpty
  ExpiredIsGone
  FetchTypeOK
  FetchConsent
  FetchPlain
  FetchNotGone
CHECK_DEADLOCK FALSE
