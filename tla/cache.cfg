SPECIFICATION Spec
CONSTANTS
  Requests = {r1, r2, r3}
  Profiles <- MCProfiles
  Opaque = {"obs-text"}
  Responses <- MCResponses
  ValidRules <- MCRules
  MaxBytes = 3
  MaxEntryBytes = 3
  MaxTime = 2
SYMMETRY Symmetry
INVARIANTS TypeOK BytesExact VariantsDistinct HitsMatch
CHECK_DEADLOCK FALSE
