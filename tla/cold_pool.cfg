CONSTANTS
    Threads = {main, t1, t2}
    Main = main
    Encrypting = {t1}
    WarmFirst = FALSE
    PoolSize = 4
    ChooseSize = 2
    MaxCalls = 2
CHECK_DEADLOCK FALSE
SPECIFICATION Spec
INVARIANT NoFreedBuffer
