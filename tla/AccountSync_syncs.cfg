\* Two syncs, alone or overlapping, that fail anywhere and are started again.
CONSTANTS
    Syncs = {p1, p2}
    NoSync = NoSync
    NumMessages = 3
    Threads = {"t1", "t2"}
    Senders = {"s1", "s2"}
    ThreadOf <- MCThreadOf
    SenderOf <- MCSenderOf
    NoSender = "none"
    DateOf <- MCDateOf
    NoDate <- MCNoDate
    BatchSize = 2
    MaxResults = 3
    PageSize = 2
    MaxStarts = 2
SPECIFICATION FairSpec
INVARIANTS
    TypeOK
    StoredHaveParents
    ListedIsStored
    CountsCoverStored
    SeenWindow
PROPERTIES
    SyncEnds
CHECK_DEADLOCK FALSE
