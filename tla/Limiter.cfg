SPECIFICATION Spec
CONSTANTS
    Addresses = {a1, a2, a3}
    Connection = conn
    Burst = 2
    Cost = 2
    MinExpiry = 2
    MaxEntries = 2
PROPERTY PurgeIsInvisible
