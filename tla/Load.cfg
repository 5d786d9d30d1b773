CONSTANTS
  m = m
  o = o
  a = a
  b = b
  root = root
  parts = parts
  web = web
  db = db
  Service <- MCService
  Unset = Unset
  File <- MCFile
  Dir <- MCDir
  DirOf <- MCDirOf
  Away = Away
  MaxDepth = 3
  MaxFiles = 4
  Common = Common
  Sock = Sock
  Default = Default
  Full = Full
  Unreadable = Unreadable
  NotCompose = NotCompose
  Blank = Blank
  Inputs <- MCInputs
SPECIFICATION Spec
INVARIANTS ResultIsLayers NothingMissedQuietly NoFalseGap DepthBounded
CHECK_DEADLOCK FALSE
