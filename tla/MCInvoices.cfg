SPECIFICATION Spec
CONSTANTS
  u1 = u1
  u2 = u2
  Users <- TwoUsers
  Ids <- Two
  Payments <- Fourth
  Totals = {0, 1, 2}
  Amounts = {1, 2}
  Numbers = {1, 3}
  Requests = {"create", "update", "delete", "pay", "receive", "save", "reset"}
  MaxRequests = 3
  MaxStops = 1
SYMMETRY Symmetry
INVARIANTS
  TypeOK
  AllocatedIsFree
  BalanceShowsAllocations
  LedgerShowsInvoice
CHECK_DEADLOCK FALSE
