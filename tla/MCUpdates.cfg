SPECIFICATION AllSpec
CONSTANTS
    net = net
    fltk = fltk
    Threads = {net, fltk}
    Parts <- PartsOf
    MaxUpdates = 3
    Setups <- ContactSetups
    Prompt = TRUE
    MaxQueue = 3
INVARIANT NothingLost
INVARIANT InterruptedMatches
 
PROPERTY Refines
PROPERTY AllApplied
PROPERTY Announced
CHECK_DEADLOCK FALSE
