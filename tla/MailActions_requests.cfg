\* Gmail and IMAP, dry run or not: two requests, a sync and the owner.
CONSTANTS
    Messages = {"m1", "m2"}
    Senders = {"s1", "s2"}
    SenderOf <- MCSenderOf
    Folders = {"later"}
    Requests = {r1, r2}
    Synced = {"m1"}
SPECIFICATION Spec
SYMMETRY Symmetry
INVARIANTS
    TypeOK
    LogIsTrue
    LogIsComplete
PROPERTIES
    InboxChangesForAReason
CHECK_DEADLOCK FALSE
