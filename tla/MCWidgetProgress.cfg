SPECIFICATION MCSpec
CONSTANTS
    None = None
    Call = {c1, c2}
    Channel = {first, second}
    User = {me, other}
    me = me
    first = first
    second = second
    c1 = c1
    c2 = c2
    DirectChannels = {}
    ChannelOf <- MCChannelOf
    Parts = {"toast"}
    Faults = {"network"}
    MaxInbox = 2
    MaxRequests = 2
    MaxClicks = 2
    MaxMoves = 1
    MAX_RETRIES = 1
    Controls = {"close", "retry"}
    SdkFaults = {"init"}
PROPERTIES
    EndReachesTab
    CallSettles
    CloseHangsUp
CHECK_DEADLOCK FALSE
