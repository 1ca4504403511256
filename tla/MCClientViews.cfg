CONSTANTS
  Thread = {1, 2}
  MaxPost = 1
  PageSize = 1
  LastN = 1
  Focus = {"none"}
  Nav <- NavLinks
  MaxMoves = 3
  Start <- StartAnywhere
  NULL = NULL
  Window = 1
  U32 = 4
SPECIFICATION ViewSpec
VIEW View
CHECK_DEADLOCK FALSE
INVARIANTS
  ViewTypeOK
  FeedLoaded
  FeedShown
  
