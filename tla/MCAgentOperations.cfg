SPECIFICATION Spec
CONSTANTS
    Requests <- BothRequests
    AskRequests <- Asked
    Payloads <- OnePayload
    Callers = {c1, c2, c3}
    Admins = {v1, v2}
    Resolutions = {"allow_once", "deny"}
    NoRequest = NoRequest
    MaxApprovals = 3
    MaxGrants = 3
    MaxOperations = 2
    MaxCrashes = 1
SYMMETRY Symmetry
CHECK_DEADLOCK FALSE
INVARIANTS
    OperationsTypeOK
    UnfinishedOperationsAreHeld
PROPERTY ResumedByDecision
