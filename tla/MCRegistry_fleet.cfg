\* Two agents, two versions, two workers, four requests, one crash.
CONSTANTS
  NumAgents = 2
  Versions = {v1, v2}
  SeedVersion = v1
  Workers = {w1, w2}
  None = None
  MaxRequests = 4
  MaxCrashes = 1
SPECIFICATION Spec
SYMMETRY Symmetry
INVARIANTS TypeOK VersionRegistered StrandedNeedsCrash NamesWereCurrent BuiltWereVetted
CHECK_DEADLOCK FALSE
