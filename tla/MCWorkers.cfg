SPECIFICATION Spec
CHECK_DEADLOCK FALSE
CONSTANTS
  Bundles = {1, 2}
  MaxCalls = 2
  Disks <- MCDisks
  Batches <- MCBatches
  Tokens <- MCTokens
  Symbols <- MCSymbols
  Forms <- MCForms
  Undecorated <- MCUndecorated
INVARIANTS
  NoRace
  HeldIntact
  RowsSeeTheirWindow
  LoadedPipesRun
  DocsResolve
