SPECIFICATION FairSpec
CONSTANTS
    Members <- MCMembers
    Subjects <- MCRankAndMedal
    Roles <- MCRoles
    NoRole = none
    Admins <- MCOneAdmin
    Actor <- MCThirdActs
    InitLink <- MCLinkA
    InitHolders <- MCHolders
    PageSize = 1
    MaxRows = 11
    MaxRelinks = 2
    MaxMoves = 1
    MaxThrows = 1
    MaxRestarts = 1
    MaxCancels = 1
    MaxToggles = 1
    MaxTrouble = 2
    rank = rank
    medal = medal
    A = A
    B = B
    none = none
    x = x
INVARIANT TypeOK
INVARIANT NobodySkipped
INVARIANT CompletedMeansApplied
PROPERTY OnlyOwnSubjectSuperseded
PROPERTY DoneStaysDone
PROPERTY RunsEnd
CHECK_DEADLOCK FALSE
