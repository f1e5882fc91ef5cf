\* One thread: requests never overlap, but die between two calls.
CONSTANTS
  Drafts = {d1, d2}
  Users = {u1, u2}
  Workers = {w1}
  None = None
  MaxRequests = 6
SPECIFICATION Spec
INVARIANTS AuditInOrder
PROPERTIES GateSpec
CHECK_DEADLOCK FALSE
