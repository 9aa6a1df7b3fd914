\* One task, one stream opened at any moment.
CONSTANTS
    Tasks = {t1}
    Clients = {c1}
    NoTask = NoTask
    MaxWorkers = 1
    Reporters = {t1}
    MaxProgress = 1
    MaxCrashes = 0
    LockTimeouts = FALSE
SPECIFICATION FairSpec
PROPERTIES
    StreamEnds
CHECK_DEADLOCK FALSE
