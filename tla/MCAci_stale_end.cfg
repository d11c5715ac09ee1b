\* A second test run that stops early.
SPECIFICATION Spec
CONSTANTS
  Commands <- TestOnly
  MaxCommands = 2
  Faults = {"stop"}
  NumTests = 1
  BuilderDeps = FALSE
PROPERTIES IncompleteRunReported
CHECK_DEADLOCK FALSE
