SPECIFICATION FairSpec
CONSTANTS
    Users = {u1}
    Convs = {c1, c2}
    Channels = {c1}
    ClientIds = {m1}
    Reqs = {r1, r2}
    MaxSends = 2
    None = None
PROPERTIES
    ImplementsLog
    RequestsEnd
