\* push after try.
SPECIFICATION Spec
CONSTANTS
  Commands <- TryPush
  MaxCommands = 2
  Faults = {}
  NumTests = 0
  BuilderDeps = FALSE
INVARIANTS PublishedBuilt
CHECK_DEADLOCK FALSE
