CONSTANTS
  Flags <- DynFlags
  Settings <- DynSettings
SPECIFICATION Spec
INVARIANTS PathOverBeforeWork
