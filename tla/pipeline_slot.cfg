SPECIFICATION Spec
CONSTANTS
  Requests = {r1, r2}
  Profiles <- MCProfiles
  Clients = {"c1", "c2"}
  Locations = {"api", "any", "open"}
  Loc <- MCLoc
  MaxBody = 1
  AbsoluteCap = 3
  MaxEntries = 1
  None = None
INVARIANT InFlightCapped
CHECK_DEADLOCK FALSE
