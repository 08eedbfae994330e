SPECIFICATION Spec
CONSTANTS
    Identities <- MCOne
    Slots <- MCSlots
    MaxApps = 1
    MaxCalls = 3
    MaxToggles = 0
    Nobody = nobody
    i1 = i1
    s1 = s1
    s2 = s2
PROPERTY NeverApprovedWhileBlocked
CHECK_DEADLOCK FALSE
