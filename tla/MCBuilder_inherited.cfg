\* An ACI with inherit scripts, built on dependencies with and without them.
SPECIFICATION LiveSpec
CONSTANTS
  Inputs <- InheritedRuns
INVARIANTS InheritedExecuted
CHECK_DEADLOCK FALSE
