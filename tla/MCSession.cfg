\* Two connections that may use the same key: safety, refinement, liveness, and
\* the properties of the registry as the connections use it.
CONSTANTS
    None = None
    Client = {c1, c2}
    Thread = {1}
    PubKey = {k1}
SPECIFICATION FairSessionSpec
INVARIANTS
    SessionTypeOK
    NothingLeftBehind
    KeysProven
    FollowedThreadsExist
    IndexesAgree
    InitOnlySubscribed
PROPERTIES
    ImplementsRegistry
    
    
    ImplementsSubscription
CHECK_DEADLOCK FALSE
