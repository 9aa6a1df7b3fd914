\* trash_by_sender(only_unreplied=True) and what is known of the threads.
CONSTANTS
    Messages = {1, 2}
    Threads = {"t1", "t2"}
    Senders = {"s1", "s2"}
    ThreadOf <- MCThreadOf
    SenderOf <- MCSenderOf
    Provider = "gmail_api"
    Runs = {p1}
    BatchSize = 2
    MaxStarts = 1
    MaxReplies = 2
SPECIFICATION Spec
INVARIANTS
    UnrepliedOnlyIsSafe
CHECK_DEADLOCK FALSE
