SPECIFICATION LiveSpec
CONSTANTS
    None = None
    Node = {n1}
    Request = {r1, r2}
    Time = {r1, r2}
    Call = {c1}
    Channel = {ch1}
    User = {u1, u2}
    Meeting = {m1}
    App = {a1}
    RtkSession = {s1}
    liveCall = c1
    liveChannel = ch1
    liveMeeting = m1
    creator = u1
    Ops = {"end", "partJoined"}
    Faults = {}
SYMMETRY Symmetry
INVARIANTS
    PostAgrees
