CONSTANTS
    Sizes = {6, 7, 8}
    FairPairs <- SmallPairs
    NULL = NULL
CHECK_DEADLOCK FALSE
SPECIFICATION FairSpec
INVARIANTS TypeOK KeyDecrypts LengthSurvives
PROPERTY EvenEnds
