SPECIFICATION Spec
CONSTANTS
    Users = {u1, u2}
    Convs = {c1}
    Channels = {c1}
    ClientIds = {m1, m2}
    Reqs = {r1, r2}
    MaxSends = 3
    None = None
SYMMETRY Symmetry
INVARIANTS
    TypeOK
    SequencesGapFree
    AnswersStayTrue
    OutboxMatchesMessages
    EventsFollowSequence
    NothingReadUnasked
PROPERTIES
    MarkersNeverRewind
    SenderSeatedAtCommit
