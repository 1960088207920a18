SPECIFICATION Spec
CONSTANTS
    Ports = {p1}
    Listener = listener
    NoPort = noport
    BlockMod = 8
    Window = 2
    SockMax = 2
    MaxDups = 0
    Files <- OneFile3
    SegSize = 2
    OptBlksize = 0
    Rexmtval = 1
    Maxtimeout = 2
    MaxRetries = 1
    MayFail = FALSE
    DiskFull = TRUE
    MayInterrupt = FALSE
INVARIANTS ReceivedIsFile
