SPECIFICATION FairSpec
CONSTANTS
    Own = own
    Others = {b1, b2}
    QueueSize = 2
    MaxMessages = 3
INVARIANTS
    SessionTypeOK
    AcceptedAreOnTheirWay
PROPERTIES
    EndedConnectionsLeaveNothing
    AcceptedArrive
    BroadcastsEnd
CHECK_DEADLOCK FALSE
