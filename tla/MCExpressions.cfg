SPECIFICATION FairSpec
CONSTANT
  Texts <- MCTexts
INVARIANTS
  NothingLostOrTwice
  MeansAsWritten
  NothingDropped
PROPERTIES
  ParserEnds
