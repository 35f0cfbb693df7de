SPECIFICATION AccessSpec
CONSTANTS
    Users = {1, 2}
    Roles = {1, 4}
    Reqs = {r1}
    Posts = {p1, p2}
    Ops = {"remove_member"}
    MaxCalls = 3
    MaxUses = 1
    None = None
SYMMETRY Symmetry
CHECK_DEADLOCK FALSE
INVARIANTS
    SenderIsMember
