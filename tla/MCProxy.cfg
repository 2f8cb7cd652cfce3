CONSTANTS
    c1 = c1
    c2 = c2
    Conn = {c1, c2}
    NoConn = NoConn
    MaxRequests <- MCRequests
    MaxResponses <- MCResponses
SPECIFICATION FairSpec
CHECK_DEADLOCK FALSE
INVARIANTS
    NothingLostInside
    SocketsInUseAreOpen
    AtMostOneLeftHanging
PROPERTIES
    EveryConnectionEnds
