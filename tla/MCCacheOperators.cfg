CONSTANTS
  Scripts <- OperatorScripts
  Texts <- MCTexts
  Contents <- MCContents
  KindOf <- MCKindOf
  Answer <- MCAnswer
  Outcomes <- MCOutcomes
  NoAnswer = NoAnswer
  MaxEntries = 2
SPECIFICATION Spec

PROPERTY GuardedHitsSafe
