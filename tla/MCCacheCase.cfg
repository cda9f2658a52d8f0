CONSTANTS
  Scripts <- CaseScripts
  Texts <- MCTexts
  Contents <- MCContents
  KindOf <- MCKindOf
  Answer <- MCAnswer
  Outcomes <- MCOutcomes
  NoAnswer = NoAnswer
  MaxEntries = 2
SPECIFICATION Spec

PROPERTY ExactHitsSafe
