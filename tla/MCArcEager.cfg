SPECIFICATION FairSpec
CONSTANTS
  N = 5
  Labels = {dep, subtok, ROOT}
  Subtok = subtok
  NoLabel = nolabel
  Root = ROOT
  Tables <- MCTables
CHECK_DEADLOCK FALSE
INVARIANTS TypeOK LiveInOrder NoCycle LiveHeads ArcsNested ListsSayHeads WriteBackIsParse
PROPERTIES BudgetDecreases ImplementsForest Terminates
