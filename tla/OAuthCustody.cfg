SPECIFICATION Spec
CONSTANTS
    Callers = {c1, c2, c3}
    NoCaller = none
    MaxGrants = 2
    MaxTurns = 2
    Faults <- OneFault
SYMMETRY Symmetry
INVARIANTS RefreshOnce SpentIsMarked SignInHeals
