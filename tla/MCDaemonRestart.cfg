\* One session creates principals, a root session deletes them too; two restarts.
SPECIFICATION RestartSpec
CONSTANTS
    Sessions = {"s1", "s2"}
    PidOf <- MCPidOf
    Root = {"s2"}
    Creators = {"s1"}
    Ids = {1, 2}
    Commands = {"DELETE_PRINCIPAL"}
    MaxRequests = 5
    MaxRestarts = 2
INVARIANTS
    RestartTypeOK
    CreatedIsKnown
    AgreeUnlessCrossed
CHECK_DEADLOCK FALSE
