SPECIFICATION FairSpec
CONSTANTS
    MSG_QUEUE_SIZE = 2
    Cols = 3
    Size = {"full", "half"}
    MaxInput = 2
    MaxOutput = 2
INVARIANTS
    SizeAgreed
    NoStaleCell
PROPERTIES
    DisplaySettles
