SPECIFICATION FairSpec
CONSTANTS
  users = users
  clients = clients
  Tables <- TwoTables
  NumFiles = 3
  Script <- AllKinds
  MaxBoots = 3
INVARIANTS
    OkMeansBuilt
    RecordedInOrder
    ErrorsRetried
PROPERTIES
    OkNeverRunsAgain
    EditsSurvive
    BootEnds
CHECK_DEADLOCK FALSE
