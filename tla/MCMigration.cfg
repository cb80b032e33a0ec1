SPECIFICATION Spec
CONSTANTS
  u1 = u1
  u2 = u2
  w1 = w1
  w2 = w2
  s1 = s1
  s2 = s2
  None = None
  Users <- TwoUsers
  Workers <- TwoWorkers
  Sessions <- TwoSessions
  Roster <- ThreeModules
  DependsOn <- ThreeDepend
  Requests = {"create", "poll", "cancel", "retry"}
  MaxAttempts = 3
  MaxRequests = 2
  MaxFaults = 1
SYMMETRY Symmetry
INVARIANTS
  TypeOK
  ImportedInOrder
  NotStranded
CHECK_DEADLOCK FALSE
