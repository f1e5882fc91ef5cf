\* Two dispatchers and two operators on one event, with a crash and redeliveries.
CONSTANTS
  Events = {e1}
  Workers = {w1, w2}
  Operators = {o1, o2}
  None = None
  MaxAttempts = 2
  MaxCrashes = 1
  MaxRedeliveries = 1
  MaxRedrives = 3
SPECIFICATION Spec
SYMMETRY Symmetry
INVARIANTS NothingDropped RemovedOnSuccess DeadLetterReported AttemptsReal RerunsBounded
CHECK_DEADLOCK FALSE
