SPECIFICATION MCSpec
CONSTANTS
    None = None
    Call = {c1, c2}
    Channel = {first, second}
    User = {me, other}
    me = me
    first = first
    second = second
    c1 = c1
    c2 = c2
    DirectChannels = {}
    ChannelOf <- MCChannelOf
    Parts = {"toast"}
    Faults = {"network", "webhook"}
    MaxInbox = 2
    MaxRequests = 2
    MaxClicks = 2
    MaxMoves = 1
    MAX_RETRIES = 1
    Controls = {"close", "retry", "resize", "unload"}
    SdkFaults = {"init", "drop"}
INVARIANTS
    RoomTypeOK
    MeetingIsMine
    NoCallNoRoom
    MineIsLive
CHECK_DEADLOCK FALSE
