SPECIFICATION FairSpec
CONSTANTS
  w1 = w1
  w2 = w2
  None = None
  Workers <- MCWorkers
  steps <- LockMintSteps
  Stages <- LockMintStage
  SourceStage = "SOURCE_LOCK"
  DestinationStage = "DESTINATION_MINT"
  ExpiresAt = 2
  MaxTime = 2
  MaxCrashes = 1
INVARIANTS
  DestinationBacked
  NoMissingEvidence
  CompletedIsReconciled
PROPERTIES
  EventuallyEnds
