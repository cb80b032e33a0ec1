SPECIFICATION FairSpec
CONSTANTS
  Handlers = {h1}
  Steps <- OneOfEach
  MaxHandOvers = 2
INVARIANTS
  TypeOK
  RowsAgree
PROPERTIES
  DecisionsStand
  Decided
