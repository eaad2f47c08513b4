SPECIFICATION Spec
CONSTANTS
  NoTimer = NoTimer
  Slots = {q1, q2}
  TimerIds = {i1, i2}
  u1 = u1
  u2 = u2
  Interval <- TwoIntervals
  Users = {u1, u2}
  Kind = "group"
  End = 3
  MaxCachedPts = 2
  MaxPoints = 2
  Skew = 0
  MaxTime = 2
  CanFail = FALSE
SYMMETRY Symmetric
INVARIANTS
  NoEarlyEnd
CHECK_DEADLOCK FALSE
