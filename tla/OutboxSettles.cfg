CONSTANTS
  a = a
  m = m
  r = r
  k = k
  Jobs = {m, k}
  JobType <- MCJobType
  None = None
  MaxAttempts = 2
  BatchSize = 2
  BulkSlots = 1
  ReapFirst = TRUE
  MaxBoots = 2
  MaxDbErrors = 1
SPECIFICATION FairSpec
INVARIANT SettledIsReported
PROPERTY EveryJobSettles
PROPERTY ImplementsContract
INVARIANT DispatchBudget
