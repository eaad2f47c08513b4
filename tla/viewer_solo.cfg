SPECIFICATION LiveSpec
CONSTANTS
  NoTimer = NoTimer
  Slots = {q1, q2}
  TimerIds = {i1, i2}
  u1 = u1
  u2 = u2
  Interval <- TwoIntervals
  Users = {u1}
  Kind = "solo"
  End = 3
  MaxCachedPts = 2
  MaxPoints = 3
  Skew <- Behind
  MaxTime = 5
  CanFail = TRUE
INVARIANTS
  TrailAscends
  TrailHasNoGap
  NoEarlyEnd
PROPERTIES
  OverIsFinal
  EndIsNoticed
CHECK_DEADLOCK FALSE
