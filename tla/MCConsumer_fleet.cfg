\* Two consumers, an uploaded object, a stray message, two faults.
CONSTANTS
  Objects = {o1}
  MaxGenerations = 1
  Strays = {s1}
  Consumers = {c1, c2}
  None = None
  BatchSize = 2
  MaxFaults = 2
SPECIFICATION FairSpec
INVARIANTS StageOrder AckedIsLogged EntriesBounded
PROPERTIES Drained
CHECK_DEADLOCK FALSE
