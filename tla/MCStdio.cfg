SPECIFICATION FairSpec
CONSTANTS
    MSG_QUEUE_SIZE = 2
    BATCH_SIZE = 2
    MaxKeys = 3
    Lines = 1
INVARIANTS
    StreamsIntact
PROPERTIES
    ProgramsProgress
CHECK_DEADLOCK FALSE
