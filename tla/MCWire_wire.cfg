SPECIFICATION Spec
CONSTANTS
  Requests <- AllRequests
  Ids = {1, 999, 1000}
  Tables <- SomeTables
  Rows <- SomeRows
CHECK_DEADLOCK FALSE
INVARIANTS ReadsBack CountsNotMistaken HomesAgree ListsWhatItSays
