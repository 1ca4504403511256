\* Two shared messages and two connections.
CONSTANTS
    None = None
    Conn = {c1, c2}
    N = 2
SPECIFICATION FairDeliverySpec
INVARIANTS
    DeliveryTypeOK
    RefsAreOwned
    OneOwner
PROPERTY AllReleased
CHECK_DEADLOCK FALSE
