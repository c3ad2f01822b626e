\* One client that also sends commands larger than rcv_buf_.
SPECIFICATION Spec
CONSTANTS
    Clients = {"c1"}
    Threads = 2
    Sizes = {100, 8193}
    MaxPosts <- TwoAndOne
INVARIANT ParsedIntact
CHECK_DEADLOCK FALSE
