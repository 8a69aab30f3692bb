\* Requests one at a time and no fault: a synced channel that loses its category.
SPECIFICATION MCSpec
CONSTANTS
    u1 = u1
    u2 = u2
    everyone = everyone
    mod = mod
    cat = cat
    txt = txt
    sub = sub
    q1 = q1
    q2 = q2
    NoParent = NoParent
    NoRow = NoRow
    VIEW_CHANNELS = VIEW
    MANAGE_CHANNELS = MANAGE_CHANNELS
    MANAGE_ROLES = MANAGE_ROLES
    MANAGE_SERVERS = MANAGE_SERVERS
    Everyone <- everyone
    Owner <- u1
    Users <- const_Users
    Roles <- const_Roles
    ALL_PERMISSIONS <- const_Permissions
    DefaultPermissions <- const_Default
    Channels <- const_Channels
    TargetInputs <- const_TargetInputs
    OverwriteInputs <- const_OverwriteInputs
    RoleInputs <- const_RoleInputs
    Requests <- const_Requests
    Faults = TRUE
INVARIANT
    SerialSyncedHasParent
