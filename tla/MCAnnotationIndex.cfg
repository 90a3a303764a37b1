SPECIFICATION Spec
CONSTANTS
  NoString = ""
  Symbols = {"NOUN", "VERB", "PROPN", "SPACE"}
  Keys = {"A", "B"}
  AlphaForms = {"cat", "ca", "sa", "see", "sawn", "puss", "kit"}
  MaxCalls = 2
  MaxPatterns = 3
  LowerOf <- MCLowerOf
  FlagsOf <- MCFlagsOf
  Compiles <- MCCompiles
  RegexMatches <- MCRegexMatches
  KeyBefore <- MCKeyBefore
  OffersFor <- MCOffersFor
  Texts <- MCTexts
  Setups <- IndexSetups
CHECK_DEADLOCK FALSE
INVARIANT IndexSelectsToken
