\* Any answer the LLM may come up with.
CONSTANTS
    NumSenders = 2
    Labels = {"spam"}
    Runs = {p1}
    ChunkSize = 2
    MaxAttempts = 2
    Changing = {}
    MaxVersion = 0
    MaxStarts = 1
    MaxItems = 1
SPECIFICATION Spec
INVARIANTS
    MalformedIsSurvived
CHECK_DEADLOCK FALSE
