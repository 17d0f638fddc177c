SPECIFICATION Spec
CONSTANTS
    Conns = {c1, c2, c3}
    Clients = {alice}
    Roles = {dev}
    Cards = {5}
    OwnerToken = ownerToken
    MaxParticipants = 2
    Retention = 1
    None = None
    RoomIds = {r1}
    MaxConcurrent = 1
    DefaultMaxRooms = 1
    ReservationTTL = 1
    MaxConnections = 2
SYMMETRY Alike
INVARIANTS
    ServiceTypeOK
    ConnectedAreServed
    HubAgrees
    EmptyRoomsAreBeingDeleted
PROPERTIES
    OnlyItsOwnCleanupDisconnects
