SPECIFICATION Spec
CONSTANTS
    Conn = {c1, c2}
    NoConn = NoConn
    NeedsTimer = {TRUE}
INVARIANT ServesConnections
