SPECIFICATION LiveSpec
CONSTANTS
    None = None
    Node = {n1}
    Request = {r1, r2}
    Time = {r1, r2}
    Call = {c1, c2}
    Channel = {ch1}
    User = {u1, u2}
    Meeting = {m1, m2}
    App = {a1, a2}
    RtkSession = {s1}
    liveCall = c1
    liveChannel = ch1
    liveMeeting = m1
    creator = u1
    Ops = {"create", "join", "leave", "get", "partJoined"}
    Faults = {"crash", "clientChange", "storeError", "postError"}
SYMMETRY Symmetry
INVARIANTS
    MutexCovers
    StartedHasPost
PROPERTIES
    TokenMeansParticipant
