SPECIFICATION Spec
CONSTANTS
    Identities <- MCOne
    Slots <- MCSlots
    MaxApps = 2
    MaxCalls = 5
    MaxToggles = 1
    Nobody = nobody
    i1 = i1
    s1 = s1
    s2 = s2
SYMMETRY MCSymmetry
INVARIANT TypeOK
INVARIANT ApprovedIsEnlisted
INVARIANT EnlistedOnce
INVARIANT OneOpenApplication
INVARIANT BlockedIsOut
INVARIANT MarkerTellsOpen
PROPERTY DecisionStands
CHECK_DEADLOCK FALSE
