CONSTANTS
  Thread = {1}
  MaxPost = 0
  PageSize = 1
  LastN = 1
  Focus = {"none"}
  Nav <- NavFeeds
  MaxMoves = 2
  Start <- StartIndex
  NULL = NULL
  MaxSockets = 3
  MaxTrouble = 2
SPECIFICATION FairConnSpec
CHECK_DEADLOCK FALSE
INVARIANTS
  ConnTypeOK
  OneConnection
  SyncedToLocation
  NeverStranded
  WaitsOnlyWhenSynced
PROPERTIES
  Recovers
