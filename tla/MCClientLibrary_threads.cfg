\* Two threads on one connection.
SPECIFICATION Spec
CONSTANTS
    Threads = {"main", "worker"}
    InUse = {"check_access", "endorse_attester"}
    MaxCalls = 2
INVARIANT Approved
CHECK_DEADLOCK FALSE
