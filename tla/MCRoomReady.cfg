SPECIFICATION Spec
CONSTANTS
    Conns = {c1, c2, c3}
    Clients = {alice, bob}
    Roles = {dev, qa}
    Cards = {5, 30}
    OwnerToken = ownerToken
    MaxParticipants = 2
    Retention = 1
    None = None
SYMMETRY Alike
INVARIANT RevealedWhenReady
