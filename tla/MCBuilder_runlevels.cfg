\* Every combination of run levels of the ACI, its dependencies and its builder,
\* with an error at every command.
SPECIFICATION LiveSpec
CONSTANTS
  Inputs <- Runs
INVARIANTS TypeOK ImageComplete
PROPERTIES ImplementsBuildRun Terminates
CHECK_DEADLOCK FALSE
