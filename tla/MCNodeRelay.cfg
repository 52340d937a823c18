CONSTANTS
  s1 = s1
  r1 = r1
  r2 = r2
  None = None
  Sessions = {s1}
  MaxGen = 2
  Fresh = 1
  Ttl = 4
  Delay = 1
  MaxTime = 5
  MaxRev = 2
  MaxNet = 2
  NodeStates = {"active", "disabled"}
  Relays = {r1, r2}
  PerSession = 2
  Recheck = 1
SPECIFICATION RelaySpec
CONSTRAINT MCBound
SYMMETRY MCSymmetry
INVARIANTS StopBound UsableWhenIssued RelayStops ClosedByControl
PROPERTIES NoRevival
CHECK_DEADLOCK FALSE
