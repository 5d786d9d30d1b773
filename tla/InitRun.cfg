SPECIFICATION Spec
CONSTANTS
  Rule <- MCRule
  Level <- MCLevel
  Name <- MCName
  Odd <- MCOdd
  Projects <- MCProjects
  Disks <- MCDisks
  Policies <- MCPolicies
  Outputs <- MCOutputs
  Crashing <- MCCrashing
  MaxFindings = 2
  MaxSaves = 1
INVARIANTS BaselineSuffices InputsKept PolicyKeptOrSaid RequestsKept
