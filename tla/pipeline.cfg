SPECIFICATION FairSpec
CONSTANTS
  Requests = {r1, r2}
  Profiles <- MCProfiles
  Clients = {"c1", "c2"}
  Locations = {"api", "any", "open"}
  Loc <- MCLoc
  MaxBody = 1
  AbsoluteCap = 3
  MaxEntries = 1
  None = None
INVARIANTS TypeOK GatesHold SlotsKept ShadowsScoped CountedOnce
PROPERTIES MemoSettles SlotsReturned
CHECK_DEADLOCK FALSE
