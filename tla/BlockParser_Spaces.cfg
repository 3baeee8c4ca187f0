SPECIFICATION Spec
CONSTANTS
  MaxListIndent = 4
  ImageMarkers = TRUE
  MaxTableRows = 1
  DocLength = 3
  Documents <- SpaceDocuments
INVARIANTS
  CodeEndsInText
CHECK_DEADLOCK FALSE
