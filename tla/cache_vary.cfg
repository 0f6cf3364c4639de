SPECIFICATION Spec
CONSTANTS
  Requests = {r1, r2}
  Profiles <- VaryProfiles
  Opaque = {"obs-text"}
  Responses <- MCResponses
  ValidRules <- MCRules
  MaxBytes = 3
  MaxEntryBytes = 3
  MaxTime = 2
SYMMETRY Symmetry
INVARIANT ServedToTheRightClient
CHECK_DEADLOCK FALSE
