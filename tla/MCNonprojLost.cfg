SPECIFICATION DocSpec
CONSTANTS
  N = 7
  a = a
  b = b
  Labels = {a, b, ROOT}
  NoLabel = nolabel
  Root = ROOT
  Parses <- TwoBranches
  NpDeps = {a, ROOT}
  Conj = b
  NominalSets = {}
CHECK_DEADLOCK FALSE
INVARIANTS GivesUpOnlyIfAbsent
