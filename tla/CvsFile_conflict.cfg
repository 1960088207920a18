\* Two users, conflicts that nobody has looked at when update is run.
SPECIFICATION Spec
CONSTANTS
    u1 = u1
    u2 = u2
    Users <- TwoUsers
    Nobody = Nobody
    MaxEdits = 4
    MaxRevs = 4
    MaxFatals = 0
    MayMishap = {"left"}
SYMMETRY UserSymmetry
INVARIANTS
    NeedsCheckoutIsClean
