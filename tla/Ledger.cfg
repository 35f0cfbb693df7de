SPECIFICATION Spec
CONSTANTS
    Users = {1, 2}
    Amounts = {1}
    Keys = {k1, k2, k3}
    Reqs = {r1, r2}
    MaxCalls = 4
    MaxBigint = 1
    None = None
SYMMETRY Symmetry
CHECK_DEADLOCK FALSE
INVARIANTS
    TypeOK
    NoOverdraft
    AnswersStayTrue
    NoDeadlock
PROPERTIES
    ImplementsBank
