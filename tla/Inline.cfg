SPECIFICATION PreviewSpec
CONSTANTS
  Texts <- SmallTexts
  Semantic = TRUE
INVARIANTS
  TypeOK
  ClaimsDisjoint
  EmphasisNests
  FormulaOpaque
  PlusVisible
  TokensNest
  ColorsAreWhole
  LiteralsShown
  PreviewFits
PROPERTIES
  CrossingStaysLiteral
  Terminates
CHECK_DEADLOCK FALSE
