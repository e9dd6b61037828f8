SPECIFICATION Spec
CONSTANTS
    Nodes = {n1}
    Vals = {v1, v2}
    Absent = Absent
    Closed = Closed
    MaxDepth = 2
    Subscribed = FALSE
    Recording = TRUE
    ProjectEdits = TRUE
    MaxBatch = 2
    MaxOps = 1
SYMMETRY ValueSymmetry
INVARIANTS
    LinearTimeline
    JournalReplays
    SessionReplays
