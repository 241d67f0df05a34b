CONSTANTS
    c1 = c1
    c2 = c2
    k1 = k1
    k2 = k2
    ks = ks
    none = none
    Clients = {c1, c2}
    ClientKey <- OneKey
    ServerKey = ks
    Keys = {k1, k2, ks}
    NoKey = none
    Garbage = garbage
    Workers = {w1, w2}
    NULL = NULL
    Calls <- ServiceCalls
    MaxReq = 2
CHECK_DEADLOCK FALSE
SPECIFICATION FairSpec
PROPERTIES ConstructReturns CallsReturn ImplementsKeyedService
INVARIANTS NoUseAfterDelete DotUnderCallersKey KeysAgree
