SPECIFICATION Spec
CONSTANTS
  Skeletons <- MCSkeletons
  Menu <- MCMenu
  MaxEdits = 2
CHECK_DEADLOCK FALSE
INVARIANTS NeverRefires
