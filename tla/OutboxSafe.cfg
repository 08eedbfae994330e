CONSTANTS
  a = a
  m = m
  r = r
  k = k
  Jobs = {m, r}
  JobType <- MCJobType
  None = None
  MaxAttempts = 2
  BatchSize = 2
  BulkSlots = 1
  ReapFirst = FALSE
  MaxBoots = 2
  MaxDbErrors = 1
SPECIFICATION Spec
INVARIANT TypeOK
INVARIANT AtMostOnce
PROPERTY AuditStatusFinal
