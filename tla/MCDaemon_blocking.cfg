\* As many clients as threads.
SPECIFICATION FairSpec
CONSTANTS
    Clients = {"c1", "c2"}
    Threads = 2
    Sizes = {100}
    MaxPosts <- One
PROPERTY PostReturns
CHECK_DEADLOCK FALSE
