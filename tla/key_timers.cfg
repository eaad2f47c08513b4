SPECIFICATION Spec
CONSTANTS
  NoTimer = NoTimer
  NoKey = NoKey
  Docs = {d1, d2, d3}
  TimerIds = {i1, i2}
  Overlap = 2
  MaxJobs = 2
  MaxPosts = 1
  MaxWrong = 1
INVARIANT OneTimer
CHECK_DEADLOCK FALSE
