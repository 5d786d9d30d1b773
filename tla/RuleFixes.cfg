SPECIFICATION Spec
CONSTANTS
  Skeletons <- MCSkeletons
  Menu <- MCMenu
  MaxEdits = 2
CHECK_DEADLOCK FALSE
INVARIANTS EditsAmountToFixes RefusalsForeseen NoStalemate
PROPERTIES ComesToRest
