CONSTANTS
  Scripts <- TouchingScripts
  Texts <- SessionTexts
  Contents <- ReplContents
  KindOf <- ReplKindOf
  Answer <- ReplAnswer
  Outcomes <- ReplOutcomes
  NoAnswer = NoAnswer
  MaxEntries = 2
  Typed <- MCTyped
  Registered <- MCRegistered
  Questions <- MCQuestions
  Mentions <- MCMentions
  Loosely <- MCLoosely
  RuleSQL <- MCRuleSQL
  ModelAnswers <- MCModelAnswers
  TablesIn <- MCTablesIn
  Explains <- MCExplains
  NoText = NoText
  NoTable = NoTable
  Missing = Missing
  MaxHistory = 1
SPECIFICATION ReplSpec
INVARIANT TablesKnown
