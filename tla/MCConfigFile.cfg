SPECIFICATION Spec
CONSTANTS
  Names = {"a", "b", "f"}
  NameTexts <- MCNameTexts
  ValueTexts <- MCValueTexts
  Spellings = {"SPECIFICATION", "INIT", "VIEW", "INVARIANT", "INVARIANTS", "CONSTANTS", "CHECK_DEADLOCK", "ALIAS"}
  OtherTokens <- MCOtherTokens
  MaxSections = 3
  MaxEntries = 3
INVARIANTS ReadBackUnlessFaulty EveryEntryIsRead
CHECK_DEADLOCK FALSE
