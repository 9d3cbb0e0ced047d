SPECIFICATION MCSpec
CONSTANTS
    None = None
    Call = {c1, c2, c3}
    Channel = {direct, open}
    User = {me, other}
    me = me
    direct = direct
    open = open
    c1 = c1
    c2 = c2
    c3 = c3
    DirectChannels = {direct}
    ChannelOf <- MCChannelOf
    Parts = {"header", "post", "toast", "incoming"}
    Faults = {"network", "offline", "webhook"}
    MaxInbox = 2
    MaxRequests = 2
    MaxClicks = 2
    MaxMoves = 2
INVARIANTS
    WebTypeOK
    RingIsLive
    ViewIsCurrent
    SpinnerStops
    MineHasEntry
CHECK_DEADLOCK FALSE
