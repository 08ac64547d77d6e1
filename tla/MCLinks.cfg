SPECIFICATION AllSpec
CONSTANTS
    l1 = l1
    l2 = l2
    l3 = l3
    Self = self
    Links = {l1, l2, l3}
    Rank <- RankOf
    SkipDiscovers = 1
    Prompt = TRUE
    MaxQueue = 4
    MaxOutside = 2
    Roles = {"active", "passive", "relay_passive"}
    UriLists <- Addresses
    MaxTx = 2
    MaxRx = 2
 
INVARIANT LinkSound
PROPERTY StageSteps
PROPERTY ConnectingEnds
CHECK_DEADLOCK FALSE
