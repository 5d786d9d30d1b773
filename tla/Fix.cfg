SPECIFICATION Spec
CONSTANTS
  f1 = f1
  f2 = f2
  k1 = k1
  k2 = k2
  bad = bad
  good = good
  NoFile = NoFile
  Unset = Unset
  Ref = Ref
  Broken = Broken
  Binary = Binary
  Legacy = Legacy
  Empty = Empty
  Gone = Gone
  Torn = Torn
  EnvValue = good
  DefValue = bad
  File <- TwoFiles
  Batch <- OverrideThenBase
  Overlay <- SecondOverFirst
  Key <- TwoKeys
  Literal <- Literals
  Flagged <- FlaggedPairs
  Fixable <- FixablePairs
  MaxSaves = 1
CHECK_DEADLOCK FALSE
INVARIANTS NeverTorn NoScratchLeft
PROPERTIES UnclaimedKept RoundTrips SoundFixPasses ContractKept
