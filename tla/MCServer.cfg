SPECIFICATION ServerSpec
CONSTANTS
    \* the permission store
    Requests <- GateRequests
    AskRequests <- GateAsked
    Callers = {p1, p2}
    Admins = {q1, q2}
    Resolutions = {"allow_once", "allow_reply_action", "allow_conversation_all", "deny"}
    NoRequest = NoRequest
    MaxApprovals = 1
    MaxGrants = 2
    \* the scheduler
    Schedules = {s1}
    Clients = {p1, p2}
    Tick = Tick
    Free = Free
    Drafts <- TwoDrafts
    MaxAttempts = 2
    MaxHistory = 2
    MaxRecorded = 3
    MaxRestarts = 1
    \* the registry
    ExtIds = {x}
    InstalledIds = {x}
    Operators = {p1, p2}
    EventLimit = 2
    MaxAdminCalls = 2
    MaxChanges = 1
    \* contributions and settings
    ExtOrder <- TwoExtensions
    OperationNames = {"workflow.default", "memory.list"}
    HandlerNames = {"h1", "h2"}
    WorkflowName = "workflow.default"
    NameRank <- NamesRanked
    MemoryNames = {"memory.list"}
    ProviderKinds = {"k"}
    SettingKeys = {k1, k2}
    SettingTypes = {"text", "number"}
    MaxDeclarations = 2
    MaxPuts = 4
    \* the configuration
    Clerks = {p1, p2}
    MaxConfCalls = 3
    MaxBoots = 1
    \* agents and endpoints
    AgentIds = {g1, g2}
    EndpointIds = {m}
    OldAgentIds = {g1, g2}
    Editors = {p1, p2}
    MaxSaves = 3
    MaxHalts = 2
    \* skill packages
    SkillIds = {b, u}
    BuiltinIds = {b}
    Keepers = {p1, p2}
    MaxPkCalls = 2
    MaxStarts = 2
    \* skill runs
    SettingNames = {"r", "o"}
    PackageForms <- SkillForms
    Assistants = {p1, p2}
    MaxAssists = 3
    \* the development supervisor
    MaxEdits = 2
    MaxMishaps = 2
    \* the requests
    p1 = p1
    p2 = p2
    q1 = q1
    q2 = q2
SYMMETRY Symmetry
CHECK_DEADLOCK FALSE
INVARIANTS
    ServerTypesOK
    GrantsComeFromDecisions
    OnceIsConsumedBeforeTheRun
    OnceOveruseIsBounded
    AskedRunsAreApproved
    SnapshotsAreTruthful
    MergedContributionsAreLawful
    InstanceStaysSetUp
    FilesKeepWhatWasSaved
    ShownReadyWasVerified
    OneCurrentApiRuns
    ScheduleRecordsAreSound
PROPERTIES
    HistoryIsFinal
    ScheduleFileIsKept
    EditsOutliveRuns
