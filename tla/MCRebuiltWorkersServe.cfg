SPECIFICATION Spec
CONSTANTS
    workflow = workflow
    provider = provider
    Rpcs = {r1, r2}
    Extensions <- OneExtension
    Removable <- NoExtension
    Calls <- Flat
    Client = Client
    Refresher = Refresher
    None = None
    MaxSize = 1
    MaxVersion = 1
CHECK_DEADLOCK FALSE
PROPERTY RebuiltWorkersServe
