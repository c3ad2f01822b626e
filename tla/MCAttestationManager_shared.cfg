\* Two processes create and delete the same id; s3 is a second connection of s1's.
SPECIFICATION FairSpec
CONSTANTS
    Sessions = {"s1", "s2", "s3"}
    PidOf <- MCPidOf
    Root = {}
    Creators = {"s1", "s2"}
    Ids = {1}
    Commands <- MCCommands
    MaxRequests = 4
INVARIANT LockMatches
PROPERTIES
    ErasedByOwner
    Answered
    UniqueUnlessOverlap
CHECK_DEADLOCK FALSE
