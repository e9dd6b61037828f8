SPECIFICATION Spec
CONSTANTS
    Artifacts = {p}
    Shared = {}
    Values = {v1, v2}
    Broken = Broken
    Untracked = Untracked
    NoIndex = NoIndex
    NoTask = NoTask
    NoGen = NoGen
    MaxQueue = 3
    Features = {"explicit", "preview"}
SYMMETRY Symmetry
INVARIANTS
    CleanShowsBase
