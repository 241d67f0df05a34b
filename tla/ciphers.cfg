CONSTANTS
    s1 = s1
    s2 = s2
    s3 = s3
    p1 = p1
    p2 = p2
    a = a
    b = b
    c = c
    Vars = {a, b, c}
    Systems = {s1, s2, s3, p1, p2}
    Private = {p1, p2}
    KeyOf <- TwoKeys
    Plains <- SomePlains
    None = None
SYMMETRY VarSymmetry
SPECIFICATION Spec
INVARIANTS TypeOK AsClearValues
