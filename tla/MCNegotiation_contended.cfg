\* Two threads, one draft: requests overlap at every Firestore call.
CONSTANTS
  Drafts = {d1}
  Users = {u1, u2}
  Workers = {w1, w2}
  None = None
  MaxRequests = 6
SPECIFICATION Spec
SYMMETRY Symmetry
INVARIANTS HumanApproval ConfidenceGate AuditTruthful
CHECK_DEADLOCK FALSE
