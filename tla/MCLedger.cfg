SPECIFICATION Spec
CONSTANTS
  c1 = c1
  c2 = c2
  y1 = y1
  y2 = y2
  Client <- TwoClients
  Journals <- Four
  Docs = {d1}
  Period <- TwoYears
  Amounts = {1}
  NoClose = NoClose
  MaxRequests = 3
  Requests = {"post", "create", "reverse", "edit", "delete", "document", "closePeriod", "closeYear"}
SYMMETRY Symmetry
INVARIANTS
  TypeOK
  LedgerShowsJournals
  ClosedYearNets
PROPERTIES
  SettledIsKept
CHECK_DEADLOCK FALSE
