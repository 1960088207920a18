\* Two files, two lines, four changes in the log.
SPECIFICATION Spec
CONSTANTS
    f = f
    g = g
    l1 = l1
    l2 = l2
    Names <- TwoNames
    Lines <- TwoLines
    NoLine = NoLine
    MaxLog = 4
    MayTear = FALSE
    MayFail = FALSE
INVARIANTS
    ListIsOnDisk
PROPERTIES
    ImplementsEntriesMap
