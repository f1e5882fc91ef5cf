SPECIFICATION Spec
CONSTANTS
    Operator = {o1, o2}
    Budget = {b1, b2, b3}
    Engine = {e1, e2}
    Member = {m1}
    None = None
    MaxRuns = 3
    MaxFaults = 2
    MaxOutside = 2
SYMMETRY Symmetric
INVARIANTS TypeOK CapHeld Idempotent FileNamesLive
PROPERTY PolicyKept
CHECK_DEADLOCK FALSE
