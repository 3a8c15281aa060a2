SPECIFICATION GateSpec
CONSTANTS
    Requests <- OneRequest
    AskRequests <- OneRequest
    Callers = {c1, c2}
    Admins = {v1, v2}
    Resolutions = {"allow_once", "deny"}
    NoRequest = NoRequest
    MaxApprovals = 1
    MaxGrants = 2
SYMMETRY Symmetry
CHECK_DEADLOCK FALSE
INVARIANT OnceGrantRunsOnce
