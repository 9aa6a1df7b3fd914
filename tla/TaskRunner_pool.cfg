\* Three tasks compete for two workers and the write lock, one of them reports
\* progress, one stream watches; lock waits may time out, the process may restart.
CONSTANTS
    Tasks = {t1, t2, t3}
    Clients = {c1}
    NoTask = NoTask
    MaxWorkers = 2
    Reporters = {t1}
    MaxProgress = 1
    MaxCrashes = 1
    LockTimeouts = TRUE
SPECIFICATION FairSpec
INVARIANTS
    TypeOK
    EventMatchesRow
    NoProgressLost
    SubscribersAreStreams
PROPERTIES
    Implements
    QueuedTaskFinishes
    EarlySubscriberEnds
CHECK_DEADLOCK FALSE
