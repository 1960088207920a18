SPECIFICATION Spec
CONSTANTS
    Ports = {p1, p2}
    Listener = listener
    NoPort = noport
    BlockMod = 8
    Window = 2
    SockMax = 2
    MaxDups = 1
    Files <- OneFile5
    SegSize = 2
    OptBlksize = 0
    Rexmtval = 1
    Maxtimeout = 2
    MaxRetries = 1
    MayFail = TRUE
    DiskFull = FALSE
    MayInterrupt = FALSE
SYMMETRY Symmetry
INVARIANTS RecvIInv ReceivedIsFile FileIsPrefix AckedIsKept
PROPERTIES ImplementsFileTransfer
