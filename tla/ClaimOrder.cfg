CONSTANTS
    None = None
    Conn = {c1}
    N = 2
SPECIFICATION DeliverySpec
INVARIANT WrittenInOrder
CHECK_DEADLOCK FALSE
