SPECIFICATION Spec
CONSTANTS
    Artifacts = {p}
    Shared = {p}
    Values = {v1, v2}
    Broken = Broken
    Untracked = Untracked
    NoIndex = NoIndex
    NoTask = NoTask
    NoGen = NoGen
    MaxQueue = 2
    Features = {"source", "broken"}
SYMMETRY Symmetry
INVARIANTS
    TypeOK
PROPERTIES
    LockedCanvasWaits
