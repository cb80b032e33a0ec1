SPECIFICATION FairSpec
CONSTANTS
  w1 = w1
  w2 = w2
  NoWorker = NoWorker
  Workers <- TwoWorkers
  NPages = 2
  Size <- OneAndOne
  Live = TRUE
  Batched = FALSE
  MaxAttempts = 3
  PromptWrites = TRUE
  Requests <- Nobody
  MaxRequests = 0
  MaxFaults = 1
  MaxCrashes = 1
  MaxStalls = 0
PROPERTIES
  ImportEnds
CHECK_DEADLOCK FALSE
