\* One thread more than clients; commands that just fit rcv_buf_, or do not.
SPECIFICATION FairSpec
CONSTANTS
    Clients = {"c1", "c2"}
    Threads = 3
    Sizes = {8192, 8193}
    MaxPosts <- TwoAndOne
INVARIANTS
    TypeOK
    OwnResponse
    FittingIntact
    NeverStuck
PROPERTIES
    KeepsCalls
    PostReturns
    SessionEnds
CHECK_DEADLOCK FALSE
