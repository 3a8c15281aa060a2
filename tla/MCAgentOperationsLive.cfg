SPECIFICATION Spec
CONSTANTS
    Requests <- BothRequests
    AskRequests <- Asked
    Payloads <- OnePayload
    Callers = {c1, c2}
    Admins = {v1}
    Resolutions = {"allow_once", "deny"}
    NoRequest = NoRequest
    MaxApprovals = 3
    MaxGrants = 3
    MaxOperations = 2
    MaxCrashes = 0
CHECK_DEADLOCK FALSE
PROPERTIES
    RunningEnds
    AnswerMovesOn
