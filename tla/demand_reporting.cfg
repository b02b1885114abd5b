SPECIFICATION Spec
CONSTANTS
  Keys = {k1, k2}
  Timeout = 5
  Interval = 2
  Instant = TRUE
  Period = 1
  Caching = 2
  MaxRestarts = 1
SYMMETRY Symmetry
INVARIANTS TypeOK
PROPERTIES SteadyServed IdleReleased
