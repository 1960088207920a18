SPECIFICATION Spec
CONSTANTS
    u1 = u1
    u2 = u2
    a = a
    b = b
    Users = {u1, u2}
    NoUser = NoUser
    Texts = {a, b}
    Empty = Empty
    NoText = NoText
    Given <- SecondRelease
    MaxNum = 2
    MaxDeltas = 3
    MaxLocks = 2
    MayMishap = {"write"}
VIEW WithoutStopped
SYMMETRY Symmetry
INVARIANTS TypeOK
PROPERTIES ImplementsArchive InformedCheckIn NothingLost
