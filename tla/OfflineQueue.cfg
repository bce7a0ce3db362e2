SPECIFICATION FairSpec
CONSTANTS
    Batch = 2
    MaxBytes = 2
    MaxAge = 1
    Size <- Sizes
    Times = {0, 2}
    MaxItems = 3
    MaxFaults = 1
INVARIANTS TypeOK WithinBudget NoCopies
PROPERTIES LossIsAccounted PriorityKept BacklogDrains
