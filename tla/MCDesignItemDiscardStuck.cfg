SPECIFICATION Spec
CONSTANTS
    Artifacts = {p}
    Shared = {}
    Values = {v1, v2}
    Broken = Broken
    Untracked = Untracked
    NoIndex = NoIndex
    NoTask = NoTask
    NoGen = NoGen
    MaxQueue = 2
    Features = {"alone", "explicit", "discard", "fault"}
SYMMETRY Symmetry
INVARIANTS
    PendingHasTask
