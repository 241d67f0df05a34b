CONSTANTS
    Sizes = {7}
    FairPairs <- LargestPairs
    NULL = NULL
CHECK_DEADLOCK FALSE
SPECIFICATION FairSpec
PROPERTY EveryLengthEnds
