CONSTANTS
    None = None
    Client = {1, 2}
    Thread = {1}
    PubKey = {}
    Post = {1, 2}
    Text = {blank, a}
    EmptyText = blank
    Unparsable = {}
    Loaded <- NoThreads
    LastN = 1
    MaxEdits = 0
SPECIFICATION ViewSpec
PROPERTY ThreadMessagesReachClients
CHECK_DEADLOCK FALSE
