SPECIFICATION FairSpec
CONSTANTS
  Rungs = 2
  MaxConcurrent = 1
  MaxRetries = 1
  MaxSchemaFailures = 2
  MaxProposals = 2
  NotebookLimit = 2
  KeepRecent = 1
  KeepUnsummarized = 2
  MaxRestarts = 1
INVARIANTS TypeOK TierRespected
PROPERTIES FailsClosed CallEnds DisabledGoesQuiet NotebookBounded
CHECK_DEADLOCK FALSE
