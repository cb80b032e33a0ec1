SPECIFICATION Spec
CONSTANTS
  u1 = u1
  u2 = u2
  Users <- TwoUsers
  NInvoices = 2
  Requests <- All
  MaxRequests = 4
  MaxOthers = 1
  MaxStops = 1
SYMMETRY Alike
INVARIANTS
  TypeOK
  AcceptedOnce
  ChainHolds
CHECK_DEADLOCK FALSE
