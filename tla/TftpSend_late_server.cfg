SPECIFICATION Spec
CONSTANTS
    Ports = {p1, p2}
    Listener = listener
    NoPort = noport
    BlockMod = 8
    Window = 2
    SockMax = 2
    MaxDups = 1
    Files <- TwoFiles
    SegSize = 2
    OptBlksize = 0
    Rexmtval = 1
    Maxtimeout = 2
    MaxRetries = 1
    Convert = FALSE
    MayFail = FALSE
    MayInterrupt = FALSE
INVARIANTS ServIsValid
