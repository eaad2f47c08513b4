SPECIFICATION Spec
CONSTANTS
  NoTimer = NoTimer
  Slots = {q1, q2}
  TimerIds = {i1, i2}
  u1 = u1
  u2 = u2
  Interval <- TwoIntervals
  Users = {u1, u2}
  Kind = "group"
  End = 1
  MaxCachedPts = 1
  MaxPoints = 2
  Skew = 0
  MaxTime = 1
  CanFail = FALSE
SYMMETRY Symmetric
INVARIANTS
  TypeOK
  OneTimer
  KeepsPolling
CHECK_DEADLOCK FALSE
