SPECIFICATION Spec
CONSTANTS
  here = here
  there = there
  ann = ann
  bob = bob
  key = key
  Names = {ann, bob}
  Texts = {key}
  Processes = {here, there}
  Requests <- SomeRequests
  Files <- SomeFiles
  MaxRequests = 2
  MaxFailures = 1
CHECK_DEADLOCK FALSE
INVARIANTS ReadyFindsTables HolderBalanced RowsRooted ConfirmedStored
PROPERTY RowsStay
