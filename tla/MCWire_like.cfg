SPECIFICATION Spec
CONSTANTS
  Requests <- Likes
  Ids = {1}
  Tables <- SomeTables
  Rows <- Degrees
CHECK_DEADLOCK FALSE
INVARIANTS LikeMatches
