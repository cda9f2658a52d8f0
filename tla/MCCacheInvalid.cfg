CONSTANTS
  Scripts <- InvalidScripts
  Texts <- MCTexts
  Contents <- MCContents
  KindOf <- MCKindOf
  Answer <- MCAnswer
  Outcomes <- MCOutcomes
  NoAnswer = NoAnswer
  MaxEntries = 2
SPECIFICATION Spec
INVARIANT NothingCachedInTransaction

