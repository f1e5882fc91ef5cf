\* Two documents, five contents, two workers, three jobs, one failure.
CONSTANTS
  Docs = {d1, d2}
  Contents <- MCContents
  Traits <- MCTraits
  Workstreams = {legal}
  Live = TRUE
  Workers = {w1, w2}
  None = None
  MaxJobs = 3
  MaxFailures = 1
SPECIFICATION Spec
SYMMETRY Symmetry
INVARIANTS RoutedClean QuarantineHolds VerdictLossNeedsFailure VersionsDistinct
CHECK_DEADLOCK FALSE
