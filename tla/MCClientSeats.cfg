INIT MCInit
NEXT MCNext
CONSTANTS
    Conns = {h, s1, s2}
    Clients = {host, page}
    Roles = {dev}
    Cards = {5}
    OwnerToken = ownerToken
    MaxParticipants = 3
    Retention = 1
    None = None
    Host = h
    HostClient = host
    Page = page
    Role = dev
    Keys = {None}
    MaxActs = 2
    MaxInbox = 1
INVARIANT VotersCanBeReady
CHECK_DEADLOCK FALSE
