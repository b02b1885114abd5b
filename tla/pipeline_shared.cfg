SPECIFICATION Spec
CONSTANTS
  r1 = r1
  r2 = r2
  s1 = s1
  s2 = s2
  Requests = {r1, r2}
  Sessions = {s1, s2}
  SessionOf <- TwoSessions
  Hops <- MCHops
  Cmodels <- Single
  MaxItems = 2
  MaxFaults = 0
  MaxUpdates = 1
INVARIANT SharedModelSurvives
CHECK_DEADLOCK FALSE
