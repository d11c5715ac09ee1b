\* Three commands in any order; every reported error is possible, and a tar or
\* a gzip that fails leaves a truncated file, and a removal may do half the work.
SPECIFICATION LiveSpec
CONSTANTS
  Commands <- AllCommands
  MaxCommands = 3
  Faults = {"tar", "gzip", "rm"}
  NumTests = 1
  BuilderDeps = TRUE
INVARIANTS TypeOK CleanedUp InstallPersists NestingBounded
PROPERTIES GatedByTests AlreadyBuiltKept Terminates
CHECK_DEADLOCK FALSE
