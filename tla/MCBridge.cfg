CONSTANTS
  Words <- MCWords
  Upper <- MCUpper
  DigitOf <- MCDigitOf
  MaxInt = 9
  Symbols <- MCSymbols
  Characters <- MCCharacters
  MaxCharacters = 4
  Phrases <- MCPhrases
  Tails <- MCTails
SPECIFICATION Spec
INVARIANTS StandardPrecedence PlanConditionsFaithful SaysWhatWasRead KeysKeepTokens
PROPERTY PrefixDecides
CHECK_DEADLOCK FALSE
