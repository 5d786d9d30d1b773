SPECIFICATION Spec
CONSTANTS
  f1 = f1
  f2 = f2
  k1 = k1
  k2 = k2
  bad = bad
  good = good
  NoFile = NoFile
  Unset = Unset
  Ref = Ref
  Broken = Broken
  Binary = Binary
  Legacy = Legacy
  Empty = Empty
  Gone = Gone
  Torn = Torn
  EnvValue = good
  DefValue = bad
  File <- OneFile
  Batch <- OneBatch
  Overlay <- Alone
  Key <- OneKey
  Literal <- Literals
  Flagged <- FlaggedOne
  Fixable <- FixablePairs
  MaxSaves = 0
CHECK_DEADLOCK FALSE
PROPERTIES NothingWrittenHalfGraded
