\* Three apps built and pushed, one of them with its own builder, in parallel
\* and one after the other.
SPECIFICATION LiveSpec
CONSTANTS
  NumApps = 3
  AppName <- ThreeApps
  OwnBuilder = {3}
  Command = "push"
  Modes = {"parallel", "sequential"}
INVARIANTS TypeOK ManifestMatchesImages DeliveredWhenComplete ImportedOnce FatalLeavesOnlyOwn QuietAtEnd
PROPERTIES ImplementsPodBuild Terminates
CHECK_DEADLOCK FALSE
