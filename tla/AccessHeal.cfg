SPECIFICATION AccessSpec
CONSTANTS
    Users = {1, 2}
    Roles = {1, 4}
    Reqs = {r1, r2}
    Posts = {p1, p2}
    Ops = {"create_channel", "remove_member", "ban_member", "add_member", "join_via_invite", "revoke_invite", "set_override"}
    MaxCalls = 4
    MaxUses = 1
    None = None
SYMMETRY Symmetry
CHECK_DEADLOCK FALSE
INVARIANTS
    TypeOK
    MembersHealed
    InviteCapped
PROPERTIES
    RevokedSeatsNobody
