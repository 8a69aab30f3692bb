SPECIFICATION MCSpec
CONSTANTS
    a = a
    b = b
    x = x
    y = y
    Users = {a, b}
    Channels = {x, y}
    VoiceChannels = {y}
    Slots = {1, 2}
    Toggles <- MCToggles
    Clicks <- MCClicks
    Sharers = {b}
    None = None
INVARIANTS TypeOK EveryoneIsHeard ListedHasPeer MuteIsHonoured MediaFollowsCall UndeafenedHears
CHECK_DEADLOCK FALSE
