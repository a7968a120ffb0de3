CONSTANTS
  None = None
  Views = {"hex", "trace", "hardware", "ports", "display", "symbols"}
  MaxEvents <- MCMaxEvents
  Ranges <- MCRanges
  Main = "main"
  MaxInbox = 1
  Queries = {q1, q2}
  Tops = {0, 1, 2}
  Lines = 2
  BlockSize = 2
  Kept = 1
  Scripts = {s1, s2}
  MaxRecreations = 2
  Artifacts = {a1, a2}
  Bare = Bare
  Images = {i1}
SPECIFICATION Spec
INVARIANTS OfThisSession ActsOnWhatIsSeen DriveIsKept
PROPERTIES ViewsConverge FramesFlow
CHECK_DEADLOCK FALSE
