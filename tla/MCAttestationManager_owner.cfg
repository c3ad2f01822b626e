\* One session creates principals, a root session and a third one delete them.
SPECIFICATION Spec
CONSTANTS
    Sessions = {"s1", "s2", "s3"}
    PidOf <- MCPidOf
    Root = {"s2"}
    Creators = {"s1"}
    Ids = {1, 2}
    Commands = {"DELETE_PRINCIPAL"}
    MaxRequests = 5
INVARIANTS
    TypeOK
    RegisteredIsLive
    RetiredIsOlder
    DeletedIsGone
PROPERTY KeepsRegistry
CHECK_DEADLOCK FALSE
