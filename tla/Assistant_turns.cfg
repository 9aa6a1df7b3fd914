\* Two turns, of two tool calls and of one, over Gmail and IMAP, real and in a dry run.
CONSTANTS
    MaxTurns = 2
    MaxCalls <- MCMaxCalls
    Messages <- MCMessages
    Senders <- MCSenders
    SenderOf <- MCSenderOf
    DateOf <- MCDateOf
    InfoOf <- MCInfoOf
    SplitSenders = FALSE
SPECIFICATION Spec
INVARIANTS
    TypeOK
    ConversationsArePaired
    ToldIsDone
    DoneIsTold
    OnlyWantedContacts
CHECK_DEADLOCK FALSE
