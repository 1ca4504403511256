CONSTANTS
    MessageType <- MessageTypes
    Chunk = 5
    MaxLen = 8
    CommandWord <- CommandWords
    UrlWord <- UrlWords
    Piece <- Pieces
    Insert <- Inserts
    Count = {0, 1}
    Linked = {1}
    MaxEdits = 3
    MaxBatch = 2
SPECIFICATION OpenPostSpec
INVARIANT LengthMatches
CHECK_DEADLOCK FALSE
