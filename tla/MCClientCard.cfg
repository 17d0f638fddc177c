INIT MCInit
NEXT MCNext
CONSTANTS
    Conns = {h, s1}
    Clients = {host, page}
    Roles = {dev}
    Cards = {5, 8}
    OwnerToken = ownerToken
    MaxParticipants = 2
    Retention = 1
    None = None
    Host = h
    HostClient = host
    Page = page
    Role = dev
    Keys = {None}
    MaxActs = 3
    MaxInbox = 1
INVARIANT ConfirmedCardIsPlayed
CHECK_DEADLOCK FALSE
