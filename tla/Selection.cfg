SPECIFICATION Spec
CONSTANTS
  root = root
  sub = sub
  base = base
  over = over
  low = low
  side = side
  escape = escape
  Path <- MCPath
  Dir <- MCDir
  Root = root
  DirOf <- MCDirOf
  Canonical <- MCCanonical
  Overrides <- MCOverrides
  Escape = escape
  Named <- MCNamed
  Projects <- MCProjects
CHECK_DEADLOCK FALSE
INVARIANTS NamedPlanned ListsWhole ForgoneIsGap
