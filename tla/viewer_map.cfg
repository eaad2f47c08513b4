SPECIFICATION Spec
CONSTANTS
  Nobody = Nobody
  Users = {u1, u2}
  OfflineTimeout = 1
  ServerTimes = {2, 3}
  Lists <- FewLists
SYMMETRY Symmetric
INVARIANTS
  TypeOK
  FollowHasLocation
  FollowedInView
  SelfAgrees
  MarksAgree
CHECK_DEADLOCK FALSE
