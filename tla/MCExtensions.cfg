SPECIFICATION ExtensionsSpec
CONSTANTS
    \* conversation turns
    Messages = {1, 2}
    TurnAgents = {a1}
    Addressed <- AllAgents
    TurnWorkers = {p1, p2}
    MaxCalls = 1
    MaxTurnOps = 2
    MaxTurnRuns = 2
    MaxDeliveries = 2
    MaxDeaths = 1
    TurnBound = 2
    \* drafts and runs
    RunWorkers = {p1, p2}
    MaxHeard = 2
    MaxTaken = 2
    MaxRuns = 2
    MaxDrafts = 2
    MaxRevisions = 3
    MaxErrors = 2
    RecentLimit = 2
    \* plans
    StepTypes = {"", "search", "baseline", "baseline_verify", "change"}
    MaxSteps = 3
    PlanTools = {"*", "t"}
    \* conversations
    ConvWorkers = {p1, p2}
    MaxBranches = 3
    MaxMessages = 2
    MaxConvCalls = 4
    \* memory
    MemWorkers = {p1, p2}
    Owners = {q1, q2}
    RecallLimit = 1
    Budget = 2
    MaxMemories = 2
    MaxMemCalls = 2
    \* actions and the drive of a slot
    Providers <- TwoProviders
    SlotHandlers <- TwoHandlers
    MaxDispatches = 2
    MaxAllowed = 1
    MaxFlips = 1
    MaxUpheavals = 1
    \* the state of extensions and the stream of a conversation
    StoreClients = {p1, p2}
    MaxRecords = 2
    MaxStoreCalls = 3
    OperationLimit = 1
    MaxOperations = 2
    StreamTimes = 2
    \* topics
    Readers = {r1}
    HubCapacity = 2
    MaxNews = 3
    \* the actors
    p1 = p1
    p2 = p2
    q1 = q1
    q2 = q2
SYMMETRY Symmetry
CHECK_DEADLOCK FALSE
INVARIANTS
    ExtensionTypesOK
    MessagesAreAnsweredOnce
    RunsFollowTheirPlans
    PlansStaySound
    BranchTreeIsSound
    MemoryRecallsWhatCounts
    DispatchedWorkIsAccountedFor
    RecordsTellTheirState
    ReadersSeeWhatHappened
PROPERTIES
    RevivedOnlyByOverlap
    ClosedStaysClosed
