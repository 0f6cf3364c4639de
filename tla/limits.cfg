SPECIFICATION LimitsSpec
CONSTANTS
  Requests = {r1, r2, r3, r4}
  Keys = {k1, k2, k3}
  Caps = {1, 2}
  MaxEntries = 1
  Locations <- MCLocations
  Bursts = {1, 2}
  Cost = 2
  Refill = 1
  MaxBuckets = 1
  MaxTime = 1
  None = None
SYMMETRY Symmetry
INVARIANTS CountsExact CapsKept MapBounded AdmissionBound BurstGranted ZoneBounded
CHECK_DEADLOCK FALSE
