CONSTANTS
    c1 = c1
    c2 = c2
    k1 = k1
    k2 = k2
    ks = ks
    none = none
    Keys = {k1, k2, ks}
    NoKey = none
    Garbage = garbage
    Workers = {w1, w2}
    NULL = NULL
    Clients = {c1, c2}
    ClientKey <- AllKeyed
    ServerKey = ks
    Calls <- AllCalls
    MaxReq = 2
CHECK_DEADLOCK FALSE
SPECIFICATION Spec
SYMMETRY WorkerSymmetry
INVARIANTS TypeOK AnsweredOnce VectorsComplete KeyedClientsNeverCrash OnlyFailedExchangesDangle
