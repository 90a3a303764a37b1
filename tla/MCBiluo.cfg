SPECIFICATION FairSpec
CONSTANTS
  N = 5
  Labels = {PER, ORG}
  PER = PER
  NoLabel = nolabel
  Tables <- MCTables
CHECK_DEADLOCK FALSE
INVARIANTS TypeOK OpenEntityFits NoEntityDropped StreamGivesEntities
PROPERTIES ImplementsChunks Terminates
