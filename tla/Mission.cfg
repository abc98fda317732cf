CONSTANTS
  Flags <- Options
  Settings <- StageSettings
SPECIFICATION FairSpec
INVARIANTS TypeOK Lockstep PathOverUnlessStale OneDriver SkipsOnlyIfConfirmed
PROPERTIES Completes
