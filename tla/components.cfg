\* Accounts, invites, direct channels, profiles, the typing indicator and the
\* microphone test, each by itself.
SPECIFICATION MCSpec
CHECK_DEADLOCK FALSE
CONSTANTS
    None = None
    Browsers = {"a", "b", "host", "guest", "session", "lossy"}
    Typed = {"e1", "E1"}
    toLower <- const_toLower
    Logins = {"n1"}
    Passwords = {"p", "q"}
    Operations <- const_Operations
    MaxCalls <- const_MaxCalls
    MaxPages <- const_MaxPages
    AccountFaults <- const_AccountFaults
    Users = {"a", "b"}
    Owner = "a"
    Guests = {}
    TextChannels = {"c1"}
    Allowed <- const_Allowed
    Managers = {}
    MaxAges = {"7 days", "Never"}
    Default = "7 days"
    Never = "Never"
    Does <- const_Does
    MaxMade <- const_MaxMade
    MaxOrders <- const_MaxOrders
    MaxDirectLoads <- const_MaxDirectLoads
    DirectFaults = {"profiles", "recipients"}
    Clients = {"me", "peer"}
    Me = "me"
    Names = {"", "n1"}
    UserName = "u"
    Texts = {"t1"}
    Statuses = {"online", "away"}
    MaxChanges = 2
    MaxProfileLoads <- const_MaxProfileLoads
    Typist = "t"
    Viewers = {"v", "w"}
    Cooldown = 4
    Timeout = 6
    Delay = 1
    MaxMoves = 1
    Takes <- const_Takes
INVARIANTS
    TypeOK
    AccountsAreWhole
    Unique
    MembershipIsShown
    ProfileIsShown
    IndicatorIsTimely
    MicrophoneIsReleased
