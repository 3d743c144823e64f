SPECIFICATION Spec
CONSTANTS
  Words <- MCWords
  Flag = "ExtractedActualValues"
  ReadOrder <- MCReadOrder
  CopiedBefore <- DeclarationOrder
  Scrapes = {r1}
  MaxPublications = 3
INVARIANT OneSnapshot
CHECK_DEADLOCK FALSE
