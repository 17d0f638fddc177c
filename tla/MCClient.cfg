SPECIFICATION MCSpec
CONSTANTS
    Conns = {h, s1, s2}
    Clients = {host, page}
    Roles = {dev}
    Cards = {5}
    OwnerToken = ownerToken
    MaxParticipants = 2
    Retention = 1
    None = None
    Host = h
    HostClient = host
    Page = page
    Role = dev
    Keys = {None, ownerToken}
    MaxActs = 2
    MaxInbox = 1
INVARIANTS
    PageKnowsItsSeat
    NothingIsSentOffline
PROPERTY ComesBack
CHECK_DEADLOCK FALSE
