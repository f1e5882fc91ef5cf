\* One worker, restarted after a crash.
CONSTANTS
  Workers = {w1}
  Plan <- MCResume
  Required <- MCRequired
  Synthesize = Synthesize
  Owner <- MCOwner
  Documents <- MCDocuments
  None = None
  MaxCrashes = 1
  MaxAmendments = 0
SPECIFICATION FairSpec
PROPERTY CompletesAfterCrash
