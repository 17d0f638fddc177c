SPECIFICATION FairSpec
CONSTANTS
    RoomIds = {r1, r2}
    Participants = {p1, p2}
    Conns = {c1, c2}
    Broadcasts = {b1}
    None = None
INVARIANTS
    HubTypeOK
    ReplacedAreClosed
PROPERTIES
    IsDirectory
    SlowSendersBlockNobody
CHECK_DEADLOCK FALSE
