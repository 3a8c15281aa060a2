SPECIFICATION Spec
CONSTANTS
    workflow = workflow
    provider = provider
    Rpcs = {r1, r2}
    Extensions <- TwoExtensions
    Removable <- NoExtension
    Calls <- Nested
    Client = Client
    Refresher = Refresher
    None = None
    MaxSize = 1
    MaxVersion = 0
CHECK_DEADLOCK FALSE
PROPERTY
    CallsEnd
