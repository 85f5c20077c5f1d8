SPECIFICATION Spec
CONSTANTS
    None = None
    Runs = {r1, r2}
INVARIANTS
    RunsAutonomously
CHECK_DEADLOCK FALSE
