SPECIFICATION Spec
CONSTANTS
    Nodes = {n1}
    Vals = {v1, v2}
    Absent = Absent
    Closed = Closed
    MaxDepth = 2
    Subscribed = TRUE
    Recording = FALSE
    ProjectEdits = FALSE
    MaxBatch = 1
    MaxOps = 2
SYMMETRY ValueSymmetry
INVARIANTS
    TypeOK
    LinearTimeline
    EventsTellTheTruth
