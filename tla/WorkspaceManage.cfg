SPECIFICATION Spec
CONSTANTS
    Users = {1, 2, 3}
    Roles = {0, 2, 4}
    Reqs = {r1, r2}
    Posts = {}
    Ops = {"set_role", "remove_member", "ban_member", "unban", "leave", "add_member"}
    MaxCalls = 2
    MaxUses = 1
    None = None
SYMMETRY Symmetry
CHECK_DEADLOCK FALSE
INVARIANTS
    OwnerLostOnlyToRace
    OnlyMembersSeated
    NoDeadlock
PROPERTIES
    AuthorityAtCommit
    OwnerOutlivesOthers
