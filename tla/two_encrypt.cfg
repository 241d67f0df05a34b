CONSTANTS
    Threads = {main, t1, t2}
    Main = main
    Encrypting = {t1, t2}
    WarmFirst = TRUE
    PoolSize = 4
    ChooseSize = 2
    MaxCalls = 3
CHECK_DEADLOCK FALSE
SPECIFICATION Spec
INVARIANT SeedsDistinct
