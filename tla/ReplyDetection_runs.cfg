\* Two runs, alone or overlapping: three threads, batches of two.
CONSTANTS
    Messages = {1, 2, 3, 4}
    Threads = {"t1", "t2", "t3"}
    Senders = {"s1", "s2"}
    ThreadOf <- MCThreadOf
    SenderOf <- MCSenderOf
    Provider = "imap"
    Runs = {p1, p2}
    BatchSize = 2
    MaxStarts = 2
    MaxReplies = 1
SPECIFICATION Spec
SYMMETRY Symmetry
INVARIANTS
    TypeOK
    CountsNeverOver
PROPERTIES
    AnswersStay
    NoReplyUncounted
CHECK_DEADLOCK FALSE
