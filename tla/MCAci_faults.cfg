\* Kills, truncated writes, images rkt keeps and early ends of the test
\* container; every command returns.
SPECIFICATION Spec
CONSTANTS
  Commands <- CrashCommands
  MaxCommands = 4
  Faults = {"kill", "tar", "gzip", "stop", "imageRm", "gpg"}
  NumTests = 1
  BuilderDeps = FALSE
INVARIANTS SameBuild BuildInv SignaturesVerify RemoteConsistent
PROPERTIES FreshAfterClean GatedByTests ImplementsBuilds
CHECK_DEADLOCK FALSE
