\* One dispatcher, one operator, two events, two crashes, a redelivery.
CONSTANTS
  Events = {e1, e2}
  Workers = {w1}
  Operators = {o1}
  None = None
  MaxAttempts = 2
  MaxCrashes = 2
  MaxRedeliveries = 1
  MaxRedrives = 1
SPECIFICATION FairSpec
PROPERTIES PromiseSpec
CHECK_DEADLOCK FALSE
