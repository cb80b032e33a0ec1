SPECIFICATION Spec
CONSTANTS
  w1 = w1
  w2 = w2
  NoWorker = NoWorker
  Workers <- TwoWorkers
  NPages = 2
  Size <- TwoThenOne
  Live = TRUE
  Batched = FALSE
  MaxAttempts = 3
  PromptWrites = TRUE
  Requests <- JustRetry
  MaxRequests = 1
  MaxFaults = 1
  MaxCrashes = 0
  MaxStalls = 1
INVARIANTS
  TypeOK
  CommittedIsHandled
  CompletedIsWhole
  MadeOnce
CHECK_DEADLOCK FALSE
