\* Three messages, empty and not, in every cut, with a header of two bytes.
SPECIFICATION FairSpec
CONSTANTS
    COMM_HEADER_SZ = 2
    Sizes = {0, 2}
    MaxMessages = 3
INVARIANTS
    TypeOK
    InStep
PROPERTIES
    KeepsChannel
    Arrives
CHECK_DEADLOCK FALSE
