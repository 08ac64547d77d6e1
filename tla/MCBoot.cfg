SPECIFICATION AllSpec
CONSTANTS
    Threads = {"net", "fltk"}
    Net = "net"
    Outside = {"fs", "watcher"}
    Late = {"cluster", "acceptor", "peers"}
    Chunks = 2
    Commands <- CommandLine
    Folders = {"f", "g"}
    SubDirs <- Places
    Wishes <- Requested
    Every <- Interval
    Prefix <- IsPrefix
    Within <- IsWithin
    Events <- Happens
    Prompt = TRUE
    MaxQueue = 3
    MaxWaiting = 2
    MaxScans = 2
    MaxOutside = 3
 
INVARIANT LocalReadyLast
INVARIANT SeededWhole
PROPERTY StartupEnds
PROPERTY Rescans
CHECK_DEADLOCK FALSE
