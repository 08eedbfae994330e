SPECIFICATION Spec
CONSTANTS
    Events <- MCEvents
    Members <- MCMembers
    Calls = {1, 2}
    MaxRsvps = 2
    MaxEdits = 2
    MaxReminds = 0
    MaxJobs = 2
    MaxTrouble = 0
    MaxTotal = 3
INVARIANT ArchivedIsRetired
