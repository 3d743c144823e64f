SPECIFICATION Spec
CONSTANTS
  Words <- MCWords
  Flag = "ExtractedActualValues"
  ReadOrder <- MCReadOrder
  CopiedBefore <- AnyOrder
  Scrapes = {r1, r2}
  MaxPublications = 3
SYMMETRY MCSymmetry
INVARIANTS
  CacheIsRecent
  ScrapeInWindow
  FallsBackAtMostOne
CHECK_DEADLOCK FALSE
