SPECIFICATION EngineSpec
CONSTANTS
  MaxListIndent = 4
  ImageMarkers = FALSE
  MaxTableRows = 1
  LeafBytes <- BytesOf
  LeafUnits <- UnitsOf
  Alphabets <- JoiningAlphabets
  MaxLines = 4
  MaxReplaced = 1
  MaxInserted = 1
VIEW View
INVARIANTS
  SnapshotDescribesText
PROPERTIES
  DirtyRangeCovers
