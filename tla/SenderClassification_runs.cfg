\* Two runs, alone or overlapping; mail changes the samples, the process restarts.
CONSTANTS
    NumSenders = 3
    Labels = {"spam"}
    Runs = {p1, p2}
    ChunkSize = 2
    MaxAttempts = 2
    Changing = {1}
    MaxVersion = 1
    MaxStarts = 2
    MaxItems = 1
SPECIFICATION Spec
SYMMETRY Symmetry
INVARIANTS
    TypeOK
    LabelsAreSaid
    CacheIsSaid
    DoneIsLabelled
PROPERTIES
    LabelledStays
CHECK_DEADLOCK FALSE
