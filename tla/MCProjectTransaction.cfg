SPECIFICATION Spec
CONSTANTS
    N = 2
    Contents = {a, b}
    Missing = Missing
    Untracked = Untracked
    Kinds = {"unchecked", "checked", "artifacts"}
SYMMETRY ContentSymmetry
INVARIANTS
    TypeOK
    EditsSurvive
    OpensSeeWholeSaves
    WedgedOnlyByEdit
PROPERTIES
    CheckedSaveKeepsEdits
    ImplementsAtomicProject
