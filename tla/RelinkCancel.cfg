SPECIFICATION Spec
CONSTANTS
    Members <- MCTwo
    Subjects <- MCRank
    Roles <- MCRoles
    NoRole = none
    Admins <- MCOneAdmin
    Actor <- MCNobodyActs
    InitLink <- MCLinkA
    InitHolders <- MCHolders
    PageSize = 1
    MaxRows = 8
    MaxRelinks = 1
    MaxMoves = 0
    MaxThrows = 0
    MaxRestarts = 0
    MaxCancels = 1
    MaxTrouble = 3
    MaxToggles = 0
    rank = rank
    medal = medal
    A = A
    B = B
    none = none
    x = x
PROPERTY CancelStopsExpansion
CHECK_DEADLOCK FALSE
