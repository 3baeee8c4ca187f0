SPECIFICATION Spec
CONSTANTS
  MaxListIndent = 4
  ImageMarkers = TRUE
  MaxTableRows = 1
  DocLength = 3
  Documents <- StopDocuments
PROPERTIES
  Terminates
CHECK_DEADLOCK FALSE
