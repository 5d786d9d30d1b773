SPECIFICATION Spec
CONSTANTS
  N = 2
  MaxResults = 2
  Contents <- MCContents
  Finding <- MCFinding
  AtThreshold = {"major", "waived"}
  Suppressed = {"waived"}
  Rank <- MCRank
  Emitted <- MCEmitted
  Excluding <- MCExcluding
  Options <- MCOptions
CHECK_DEADLOCK FALSE
INVARIANTS NoSilentPass FailMeansFindings ArtifactAgrees FailureShown VerdictByContent
