SPECIFICATION Spec
CONSTANTS
    Ids = {1, 2, 3}
    Minutes = {1}
    FirstStart = 2
    FirstOffsets = {1}
    RuleStart = 2
    RuleOffsets = {1}
    Starts = {1, 2}
    Cadences = {"monthly"}
    Day = 2
    Months = 2
    MonthBegins <- Calendar
    Horizon = 7
    MaxEmit = 4
    Batch = 4
    Before = 1
    After = 1
    Change = 0
    Authors = {"cascade"}
    Slots = {1}
    MaxTime = 1
    MaxUse = 1
INVARIANT NeverMadeAgain
