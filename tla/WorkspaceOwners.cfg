SPECIFICATION Spec
CONSTANTS
    Users = {1, 2}
    Roles = {1, 4}
    Reqs = {r1, r2}
    Posts = {}
    Ops = {"set_role", "leave"}
    MaxCalls = 2
    MaxUses = 1
    None = None
SYMMETRY Symmetry
CHECK_DEADLOCK FALSE
INVARIANTS
    OwnerAlways
