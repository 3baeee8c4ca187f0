SPECIFICATION Spec
CONSTANTS
  MaxListIndent = 4
  ImageMarkers = TRUE
  MaxTableRows = 1
  DocLength = 4
  Documents <- MixedDocuments
INVARIANTS
  TypeOK
  BlocksTile
  ContextsNest
  CodeEndsInText
  ParagraphsSeparate
  BlocksStayInItem
  NeverStalls
CHECK_DEADLOCK FALSE
