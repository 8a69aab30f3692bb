\* Two members edit one guild at once.
SPECIFICATION MCSpec
CONSTANTS
    o = o
    p = p
    everyone = everyone
    mod = mod
    new = new
    cat = cat
    txt = txt
    added = added
    group = group
    Users <- const_Users
    Roles <- const_Roles
    Everyone <- everyone
    Moderator <- mod
    Owner <- o
    Channels <- const_Channels
    Categories <- const_Categories
    Category <- cat
    Text <- txt
    NoParent = NoParent
    NoRow = NoRow
    NoColor = NoColor
    Colors = {red}
    Names = {n1, n2}
    VIEW_CHANNELS = VIEW
    MANAGE_CHANNELS = MANAGE_CHANNELS
    MANAGE_ROLES = MANAGE_ROLES
    MANAGE_SERVERS = MANAGE_SERVERS
    ALL_PERMISSIONS <- const_Permissions
    TargetInputs <- const_Targets
    Clickable = {VIEW}
    MaxClicks <- const_Clicks
INVARIANTS TypeOK Converged DraftFollowsView
CHECK_DEADLOCK FALSE
