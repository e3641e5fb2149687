SPECIFICATION Spec
CONSTANTS
    Callers = {c1, c2}
    NoCaller = none
    MaxGrants = 2
    MaxTurns = 2
    Faults <- NoFault
SYMMETRY Symmetry
CHECK_DEADLOCK FALSE
INVARIANTS StaysRemoved
