SPECIFICATION FairSpec
CONSTANTS
    N = 2
    Contents = {a}
    Missing = Missing
    Untracked = Untracked
    Kinds = {"unchecked", "checked", "artifacts"}
PROPERTIES
    JournalCleared
