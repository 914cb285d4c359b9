SPECIFICATION Spec
CONSTANTS
  users = users
  clients = clients
  Tables <- TwoTables
  NumFiles = 3
  Script <- AllKinds
  MaxBoots = 2
PROPERTY RerunsAreSafe
CHECK_DEADLOCK FALSE
