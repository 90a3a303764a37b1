SPECIFICATION FairSpec
CONSTANTS
  MaxLen = 4
  Runes = {"w", "d", ".", "-", " ", "tab"}
  Space = " "
  Blanks = {"tab"}
  NoPattern = nopattern
  Texts <- MCTexts
  Inputs <- MCInputs
  Matches <- MCMatches
CHECK_DEADLOCK FALSE
INVARIANTS TokensTile RoundTrip SpecialsStayWhole NormsJustified
PROPERTY Terminates
