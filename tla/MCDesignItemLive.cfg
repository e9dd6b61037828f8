SPECIFICATION FairSpec
CONSTANTS
    Artifacts = {p}
    Shared = {}
    Values = {v1, v2}
    Broken = Broken
    Untracked = Untracked
    NoIndex = NoIndex
    NoTask = NoTask
    NoGen = NoGen
    MaxQueue = 1
    Features = {"explicit", "preview", "fault"}
INVARIANTS
    PendingHasTask
PROPERTIES
    Converges
