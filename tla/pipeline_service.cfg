SPECIFICATION FairSpec
CONSTANTS
  r1 = r1
  r2 = r2
  s1 = s1
  s2 = s2
  Requests = {r1, r2}
  Sessions = {s1, s2}
  SessionOf <- OneSession
  Hops <- MCHops
  Cmodels <- MCCmodels
  MaxItems = 1
  MaxFaults = 1
  MaxUpdates = 2
INVARIANTS TypeOK NeverDuplicated ComputeDrains
PROPERTIES ImplementsService EveryRequestAnswered StopReachesAll
CHECK_DEADLOCK FALSE
