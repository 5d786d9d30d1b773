SPECIFICATION Spec
CONSTANTS
  Project <- MCProject
  Bases <- MCBases
  Menu <- MCMenu
  Room <- MCRoom
  MaxFields = 2
  MaxEdits = 3
CHECK_DEADLOCK FALSE
INVARIANTS RuntimeHasOneOwner WritableNeverGradedLower SpellingNeverHides SocketsAreCritical FormsAgree ReportedEntriesUnconfine
PROPERTIES GrantsHideNothing
