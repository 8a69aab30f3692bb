\* Messages that overtake each other, fail, go to a guild or come from the invite dialog.
SPECIFICATION MCSpec
CHECK_DEADLOCK FALSE
CONSTANTS
    a = a
    b = b
    d = d
    m1 = m1
    m2 = m2
    m3 = m3
    m4 = m4
    Users <- const_Alone
    Messages <- const_FourMessages
    sender <- const_AllHers
    Visits <- const_Once
    InGuild = TRUE
    Late <- const_Nobody
    Inviters <- const_Nobody
    NoEntry = NoEntry
    NoList = NoList
    Faults = FALSE
INVARIANTS
    UnreadIsBounded
    PointersAreStored
    OwnMessageOnce
