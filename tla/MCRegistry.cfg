SPECIFICATION RegistrySpec
CONSTANTS
    Conns = {c1, c2, c3}
    Clients = {alice}
    Roles = {dev}
    Cards = {5}
    OwnerToken = ownerToken
    MaxParticipants = 2
    Retention = 1
    None = None
    RoomIds = {r1, r2, r3}
    MaxConcurrent = 2
    DefaultMaxRooms = 3
    ReservationTTL = 2
SYMMETRY Alike
INVARIANTS
    RegistryTypeOK
    WithinRoomLimit
    OccupiedRoomsAreLive
PROPERTIES
    RoomIdsAreNotReused
