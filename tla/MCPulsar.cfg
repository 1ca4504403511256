CONSTANTS
    None = None
    Client = {1, 2}
    Thread = {1}
    PubKey = {}
    Post = {1, 2}
    Text = {blank, a, huge}
    EmptyText = blank
    Unparsable = {huge}
    Loaded <- NoThreads
    LastN = 1
    MaxEdits = 1
SPECIFICATION ViewSpec
INVARIANTS
    PulsarTypeOK
    CachesFresh
    FeedsMatchDatabase
    
    IndexClientsUpToDate
CHECK_DEADLOCK FALSE
