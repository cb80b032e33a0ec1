SPECIFICATION Spec
CONSTANTS
  w1 = w1
  w2 = w2
  NoWorker = NoWorker
  Workers <- TwoWorkers
  NPages = 2
  Size <- TwoThenOne
  Live = FALSE
  Batched = TRUE
  MaxAttempts = 3
  PromptWrites = TRUE
  Requests <- Control
  MaxRequests = 3
  MaxFaults = 0
  MaxCrashes = 1
  MaxStalls = 0
INVARIANTS
  OneBatchAfterCancel
PROPERTIES
  CompletedIsFinal
CHECK_DEADLOCK FALSE
