\* Six ports, requests of one to three ports and every exact range.
SPECIFICATION Spec
CONSTANTS
    Low = 1
    High = 7
    Counts = {1, 2, 3}
INVARIANTS
    TypeOK
    Partition
    BookKept
    IsAllocatedExact
    BugIsUnmerged
PROPERTY KeepsPromise
