\* One post edited twice and followed by a client, from an empty board.
CONSTANTS
    None = None
    Client = {1}
    Thread = {1}
    PubKey = {}
    Post = {1}
    Text = {blank, a}
    EmptyText = blank
    Unparsable = {}
    Loaded <- NoThreads
    LastN = 1
    MaxEdits = 2
SPECIFICATION FairViewSpec

    
PROPERTY InitAssembled
CHECK_DEADLOCK FALSE
