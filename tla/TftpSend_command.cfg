SPECIFICATION FairSpec
CONSTANTS
    Ports = {p1, p2}
    Listener = listener
    NoPort = noport
    BlockMod = 2
    Window = 1
    SockMax = 2
    MaxDups = 0
    Files <- TwoFiles
    SegSize = 2
    OptBlksize = 3
    Rexmtval = 1
    Maxtimeout = 2
    MaxRetries = 0
    Convert = FALSE
    MayFail = FALSE
    MayInterrupt = TRUE
INVARIANTS FirstIsStored
PROPERTIES Termination
