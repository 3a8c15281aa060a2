SPECIFICATION Safety
CONSTANTS
    workflow = workflow
    provider = provider
    Rpcs = {r1, r2}
    Extensions <- OneExtension
    Removable <- NoExtension
    Calls <- Reentrant
    Client = Client
    Refresher = Refresher
    None = None
    MaxSize = 1
    MaxVersion = 1
SYMMETRY Symmetry
CHECK_DEADLOCK FALSE
INVARIANTS
    PoolTypeOK
    LeasesAreExclusive
    NoStaleBinary
