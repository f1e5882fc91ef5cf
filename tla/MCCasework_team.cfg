\* Two workers execute one run of three claims, a reading and a synthesis; one crash, one amendment.
CONSTANTS
  Workers = {w1, w2}
  Plan <- MCPlan
  Required <- MCRequired
  Synthesize = Synthesize
  Owner <- MCOwner
  Documents <- MCDocuments
  None = None
  MaxCrashes = 1
  MaxAmendments = 1
SPECIFICATION FairSpec
INVARIANTS TypeOK EvidenceGate SynthesisSound InboxTruthful LossNeedsCrash CheckpointTruthful
PROPERTY CompletesUndisturbed
