SPECIFICATION Spec
CONSTANTS
  MaxCharacters = 4
  Sources <- Texts
INVARIANTS
  LookupsExact
  RoundTrip
PROPERTIES
  WalkStaysInLine
