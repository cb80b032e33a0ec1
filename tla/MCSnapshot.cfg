SPECIFICATION Spec
CONSTANTS
  u1 = u1
  u2 = u2
  w1 = w1
  w2 = w2
  None = None
  Users <- TwoUsers
  Workers <- OneWorker
  Order <- FourResources
  Required = {"accounts", "invoices"}
  Partitioned = {"invoices"}
  Single = {"preferences"}
  Att = "attachments"
  Windows <- FourWindows
  Size <- TwoSizes
  Budgets = {0, 3}
  PageSize = 2
  PagesPerStep = 2
  MaxAttempts = 3
  MaxRetries = 1
  MaxFailures = 1
  MaxCrashes = 1
  MaxOvertaken = 0
SYMMETRY Symmetry
INVARIANTS
  TypeOK
  CompleteHoldsEveryRecord
  CapturedIsAccounted
  NotStranded
PROPERTIES
  ProgressKept
CHECK_DEADLOCK FALSE
