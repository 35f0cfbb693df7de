SPECIFICATION Spec
CONSTANTS
    Users = {1, 2, 3}
    Roles = {1, 4}
    Reqs = {r1, r2}
    Posts = {}
    Ops = {"add_member", "ban_member"}
    MaxCalls = 3
    MaxUses = 1
    None = None
SYMMETRY Symmetry
CHECK_DEADLOCK FALSE
INVARIANTS
    BannedOutside
