SPECIFICATION OneByOne
CONSTANTS
  Devices = {d1, d2}
  MaxPushes = 3
  MayReset = FALSE
  Turns = {m1, m2}
  SafeCalls = {s1}
  Effects = {e1}
  Limit = 2
  Window = 2
  LookBack = 3
  MaxTime = 5
  Owners = {o1, o2}
  Children = {k1, k2, k3, k4}
  MaxLive = 2
  Root = d
  Peers = {p1, p2}
  Domains = {x, y}
  MaxRequests = 2
  RequiredRoles <- PoolOfOfficer
  OtherRoles <- RolesOutside
  Ids = {i1, i2, i3}
  MaxVotes = 4
INVARIANTS
  TypesOK
  RevisionNamesItsData
  NothingBehindTheWatermark
  EveryChildHasOneParent
  CompleteCountsEveryPeer
  CountIsLargestMatching
CHECK_DEADLOCK FALSE
