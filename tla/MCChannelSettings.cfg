SPECIFICATION MCSpec
CONSTANTS
    None = None
    Call = {}
    User = {}
    public = public
    direct = direct
    n2 = n2
    Channel = {public, direct}
    Manageable = {public}
    Node = {n1, n2}
    MaxChanges = 1
    MaxClicks = 2
    MaxRequests = 2
INVARIANTS
    SettingsTypeOK
    ChoiceSticks
    CacheInventsNothing
    FirstFrame
PROPERTIES
    StartsOnlyEnabled
    BootFinishes
CHECK_DEADLOCK FALSE
