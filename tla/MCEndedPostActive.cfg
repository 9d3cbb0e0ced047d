SPECIFICATION MCSpec
CONSTANTS
    None = None
    Call = {c1, c2, c3}
    Channel = {direct, open}
    User = {me, other}
    me = me
    direct = direct
    open = open
    c1 = c1
    c2 = c2
    c3 = c3
    DirectChannels = {direct}
    ChannelOf <- MCChannelOf
    Parts = {"post"}
    Faults = {}
    MaxInbox = 2
    MaxRequests = 1
    MaxClicks = 1
    MaxMoves = 1
INVARIANTS
    PostReflectsReality
CHECK_DEADLOCK FALSE
