SPECIFICATION Spec
CONSTANTS
  none = none
  None = none
  MaxServices = 4
  Rules <- MCRules
  Inputs <- MCInputs
  Watches <- MCWatches
  EnvSeverity = 3
  Disabled <- MCDisabled
  Excluded <- MCExcluded
  Overrides <- MCOverrides
  MaxFindings = 7
  Parts <- MCParts
  Length <- MCLength
  QuotedFrom = 8
CHECK_DEADLOCK FALSE
INVARIANTS GradedInFull NothingLostQuietly  DeploymentGraded
