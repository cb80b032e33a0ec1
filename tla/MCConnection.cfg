SPECIFICATION Spec
CONSTANTS
  u1 = u1
  u2 = u2
  NoUser = NoUser
  Users <- TwoUsers
  Rows <- Three
  MaxRequests = 5
  MaxExpiries = 1
  MaxFaults = 1
SYMMETRY Symmetry
INVARIANTS
  TypeOK
  GrantsAgree
  CurrentIsFound
CHECK_DEADLOCK FALSE
