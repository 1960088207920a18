\* Two users, three edits, three revisions, a command that ends half way.
SPECIFICATION Spec
CONSTANTS
    u1 = u1
    u2 = u2
    Users <- TwoUsers
    Nobody = Nobody
    MaxEdits = 3
    MaxRevs = 3
    MaxFatals = 1
    MayMishap = {"second", "left", "recreated", "merge", "entry"}
SYMMETRY UserSymmetry
INVARIANTS
    FileInv
    InformedCommit
    BuildsOnHead
    WorkKept
PROPERTIES
    HistoryStays
