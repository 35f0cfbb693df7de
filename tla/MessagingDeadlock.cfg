SPECIFICATION Spec
CONSTANTS
    Users = {u1}
    Convs = {c1}
    Channels = {c1}
    ClientIds = {m1}
    Reqs = {r1, r2}
    MaxSends = 1
    None = None
INVARIANTS
    NoDeadlock
