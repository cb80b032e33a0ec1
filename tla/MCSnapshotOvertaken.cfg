SPECIFICATION Spec
CONSTANTS
  u1 = u1
  u2 = u2
  w1 = w1
  w2 = w2
  None = None
  Users <- OneUser
  Workers <- TwoWorkers
  Order <- OneResource
  Required = {"accounts"}
  Partitioned = {}
  Single = {}
  Att = "attachments"
  Windows <- OneWindow
  Size <- NoSizes
  Budgets = {0}
  PageSize = 1
  PagesPerStep = 1
  MaxAttempts = 3
  MaxRetries = 0
  MaxFailures = 0
  MaxCrashes = 0
  MaxOvertaken = 1
INVARIANTS
  CompleteHoldsEveryRecord
CHECK_DEADLOCK FALSE
