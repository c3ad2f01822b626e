\* Two sessions create principals at the same time.
SPECIFICATION Spec
CONSTANTS
    Sessions = {"s1", "s2"}
    PidOf <- MCPidOf
    Root = {}
    Creators = {"s1", "s2"}
    Ids = {1, 2}
    Commands = {}
    MaxRequests = 2
INVARIANT UniqueGn
CHECK_DEADLOCK FALSE
