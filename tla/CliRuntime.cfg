SPECIFICATION Spec
CONSTANTS
    Providers = {"p", "t"}
    Stream = "p"
    Labels <- MCLabels
    Policies <- MCPolicies
    Layers = {"allow"}
    MaxEvents = 2
    MaxTime = 1
INVARIANTS DecisionIsEarned NoGap
PROPERTIES MuteHasStanding RequestsAlternate
