SPECIFICATION FairDocSpec
CONSTANTS
  N = 6
  a = a
  b = b
  Labels = {a, b, ROOT}
  NoLabel = nolabel
  Root = ROOT
  Parses <- MCParses
  NpDeps = {a, ROOT}
  Conj = b
  NominalSets <- MCNominals
CHECK_DEADLOCK FALSE
INVARIANTS StaysForest ViewsFollowHeads ChunksFitSentences
PROPERTIES MovesDown Terminates
