SPECIFICATION EngineSpec
CONSTANTS
  MaxListIndent = 4
  ImageMarkers = FALSE
  MaxTableRows = 1
  LeafBytes <- BytesOf
  LeafUnits <- UnitsOf
  Alphabets <- TableAlphabets
  MaxLines = 4
  MaxReplaced = 1
  MaxInserted = 1
VIEW View
INVARIANTS
  MatchesFullParse
