SPECIFICATION FairSpec
CONSTANTS
    Events <- MCEvents
    Members <- MCMembers
    Calls = {1, 2}
    MaxRsvps = 2
    MaxEdits = 2
    MaxReminds = 2
    MaxJobs = 2
    MaxTrouble = 1
    MaxTotal = 2
INVARIANT TypeOK
INVARIANT CardIsCurrent
INVARIANT RetiredStaysDead
INVARIANT PingedOnce
PROPERTY EndedIsRetired
