SPECIFICATION SeenSpec
CONSTANTS
    Artifacts = {p}
    Shared = {p}
    Values = {v1, v2}
    Broken = Broken
    Untracked = Untracked
    NoIndex = NoIndex
    NoTask = NoTask
    NoGen = NoGen
    MaxQueue = 2
    Features = {"fault"}
SYMMETRY Symmetry
INVARIANTS
    CleanShowsBase
    DivergenceNoticed
    AutosaveNotForgotten
PROPERTIES
    SaveReplacesSeen
