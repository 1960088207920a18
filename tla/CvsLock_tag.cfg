SPECIFICATION Spec
CONSTANTS
    c1 = c1
    c2 = c2
    r3 = r3
    t4 = t4
    u1 = u1
    u2 = u2
    u3 = u3
    u4 = u4
    a = a
    b = b
    Procs = {c1, t4}
    Users = {u1, u2, u3, u4}
    Dirs = {a, b}
    None = none
    User <- TagUser
    Program <- TagProgram
    Denied = {}
    Superusers = {}
    Unnamed = {}
    Tries = 2
    MaySignal = {}
INVARIANTS LocksStay
