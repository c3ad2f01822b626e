\* A process with one thread that calls entry points of every class.
SPECIFICATION Spec
CONSTANTS
    Threads = {"main"}
    InUse <- MCEntries
    MaxCalls = 2
INVARIANTS
    TypeOK
    Approved
    Truthful
    PortsInStep
CHECK_DEADLOCK FALSE
