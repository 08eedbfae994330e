CONSTANTS
  a = a
  m = m
  r = r
  k = k
  Jobs = {a, r}
  JobType <- MCJobType
  None = None
  MaxAttempts = 2
  BatchSize = 2
  BulkSlots = 1
  ReapFirst = FALSE
  MaxBoots = 1
  MaxDbErrors = 0
SPECIFICATION Spec
INVARIANT ReapedAreOrphans
