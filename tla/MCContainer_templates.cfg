\* Two attribute files and the environment, two templates, and a service that
\* comes up or not within three tries.
SPECIFICATION LiveSpec
CONSTANTS
  Inputs <- Starts
  Keys <- TheKeys
  References <- TheReferences
  Yaml <- TheYaml
  Malformed <- TheMalformed
  Templates <- TheTemplates
  Uses <- TheUses
  LongLines <- TheLongLines
  MaxTries = 3
INVARIANTS TypeOK AppConfigured
PROPERTIES  Terminates
CHECK_DEADLOCK FALSE
