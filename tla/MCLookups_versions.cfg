\* Every list of sign entries and dependencies.
SPECIFICATION Spec
CONSTANTS
  RktVersions <- RktReleases
  Supported <- Rkt14
  Domains = {"own", "other"}
  Domain = "own"
  Configs <- TheConfigs
  Manifests <- TheManifests
  Published <- SomeVersions
INVARIANTS TypeOK KeyringForDomain WarnedIffOlder
CHECK_DEADLOCK FALSE
