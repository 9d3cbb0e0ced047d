SPECIFICATION AnySpec
CONSTANTS
    None = None
    Node = {n1, n2}
    Request = {r1, r2}
    Time = {r1, r2}
    Call = {c1, c2}
    Channel = {ch1}
    User = {u1, u2}
    Meeting = {m1, m2}
    App = {a1}
    RtkSession = {s1}
    liveCall = c1
    liveChannel = ch1
    liveMeeting = m1
    creator = u1
    Ops = {"create", "join", "end", "get", "partLeft", "meetingEnded"}
    Faults = {"rtkError", "meetingDeleted"}
INVARIANTS
    OneActiveCall
    ActiveHasParticipant
    PostIffSession
PROPERTIES
    EndedStaysFrozen
    EndsForCause
    HandlersReturn
    EndIsAnnounced
