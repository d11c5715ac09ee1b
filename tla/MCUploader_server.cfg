\* A signed ACI, a name of three prefixes, a server that checks.
SPECIFICATION Spec
CONSTANTS
  Depth = 3
  Signed = TRUE
  ServerChecks = TRUE
INVARIANTS TypeOK SuccessIsPublished ErrorIsKnown EndpointIsClosest
PROPERTIES ImplementsPublication
CHECK_DEADLOCK FALSE
