SPECIFICATION Spec
CONSTANTS
  ImageMarkers = TRUE
  Texts <- PieceTexts
PROPERTY
  Terminates
CHECK_DEADLOCK FALSE
