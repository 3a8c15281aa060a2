SPECIFICATION SchedulerSpec
CONSTANTS
    Schedules = {s1}
    Clients = {c1}
    Tick = Tick
    Free = Free
    Drafts <- OneDraft
    MaxAttempts = 2
    MaxHistory = 2
    MaxRecorded = 3
    MaxRestarts = 0
CHECK_DEADLOCK FALSE
PROPERTY DueSchedulesRun
