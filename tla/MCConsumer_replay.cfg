\* One consumer, one upload, one fault.
CONSTANTS
  Objects = {o1}
  MaxGenerations = 1
  Strays = {s1}
  Consumers = {c1}
  None = None
  BatchSize = 2
  MaxFaults = 1
SPECIFICATION Spec
INVARIANTS ReplayedSafely
CHECK_DEADLOCK FALSE
