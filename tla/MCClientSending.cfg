INIT MCInit
NEXT MCNext
CONSTANTS
    Conns = {h, s1, s2}
    Clients = {host, page}
    Roles = {dev}
    Cards = {5}
    OwnerToken = ownerToken
    MaxParticipants = 2
    Retention = 1
    None = None
    Host = h
    HostClient = host
    Page = page
    Role = dev
    Keys = {None}
    MaxActs = 2
    MaxInbox = 1
INVARIANT SendingIsUnderWay
CHECK_DEADLOCK FALSE
