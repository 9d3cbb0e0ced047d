SPECIFICATION LiveSpec
CONSTANTS
    None = None
    Node = {n1}
    Request = {r1, r2, r3}
    Time = {r1, r2, r3}
    Call = {c1, c2}
    Channel = {ch1}
    User = {u1, u2}
    Meeting = {m1, m2}
    App = {a1}
    RtkSession = {s1}
    liveCall = c1
    liveChannel = ch1
    liveMeeting = m1
    creator = u1
    Ops = {"create", "join", "leave", "end", "get", "partLeft", "meetingEnded"}
    Faults = {"rtkError", "meetingDeleted"}
SYMMETRY Symmetry
INVARIANTS
    TypeOK
    OnlyEnderAnnounces
    PostAgrees
    FeedAgrees
PROPERTIES
    FeedSpec
    PostEndStable
    TokenMeansParticipant
    EndsForCause
    ReconcileEnds
