SPECIFICATION Spec
CONSTANTS
  MaxListIndent = 4
  ImageMarkers = FALSE
  MaxTableRows = 1
  TextLength = 5
  Documents <- ListDocuments
INVARIANTS
  RangesNest
  SiblingRuns
  EnvelopesFit
CHECK_DEADLOCK FALSE
