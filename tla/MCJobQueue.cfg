SPECIFICATION FairSpec
CONSTANTS
  j1 = j1
  j2 = j2
  w1 = w1
  w2 = w2
  NoJob = NoJob
  Jobs <- TwoJobs
  Workers <- TwoWorkers
  Priority <- TwoJobsPriority
  Serves <- TwoJobsServes
  Handled <- OneJob
  MaxAttempts = 2
  PromptClaims = TRUE
  MaxTroubles = 2
INVARIANTS
  TypeOK
  AtMostOneOwner
  NeverGivenUpEarly
  EndsAreRecorded
PROPERTIES
  TerminalIsFinal
  ImplementsLease
  EveryJobEnds
