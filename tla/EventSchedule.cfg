SPECIFICATION Spec
CONSTANTS
    Ids = {1, 2, 3}
    Minutes = {1, 2}
    FirstStart = 2
    FirstOffsets = {1, 2}
    RuleStart <- Old
    RuleOffsets = {}
    Starts = {1, 2}
    Cadences = {"daily", "monthly"}
    Day = 3
    Months = 2
    MonthBegins <- Calendar
    Horizon = 3
    MaxEmit = 3
    Batch = 4
    Before = 1
    After = 1
    Change = 0
    Authors <- Operations
    Slots = {1, 2}
    MaxTime = 1
    MaxUse = 2
INVARIANT TypeOK
INVARIANT RemindedOnce
INVARIANT OncePerPeriod
INVARIANT RepairNeverTripsItself
INVARIANT GenerationIsExact
