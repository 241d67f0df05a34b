CONSTANTS
    P = 5
    Q = 7
    Bits = 6
    Undef = undef
    Vars = {a, b}
    Private = {a}
    Plains <- SomePlains
    Blinds <- TwoBlinds
CHECK_DEADLOCK FALSE
SPECIFICATION Spec
VIEW ProgramState
INVARIANTS TypeOK SmallValuesSigned
PROPERTY ImplementsAlgebra
