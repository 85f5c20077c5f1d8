SPECIFICATION FairSpec
CONSTANTS
    None = None
    Runs = {r1, r2}
INVARIANTS
    TypeOK
PROPERTIES
    NoRollback
    CancelledVanishes
    CancelledStops
    StaysAdvertised
CHECK_DEADLOCK FALSE
