\* What a channel shows that is opened after a message came in.
SPECIFICATION Spec
CHECK_DEADLOCK FALSE
CONSTANTS
    a = a
    b = b
    m1 = m1
    m2 = m2
    Users <- const_Users
    Messages <- const_Messages
    sender <- const_Monologue
    Visits <- const_Visits
    InGuild = FALSE
    Late <- const_Nobody
    Inviters <- const_Nobody
    NoEntry = NoEntry
    NoList = NoList
    Faults = FALSE
INVARIANT
    OpenListShowsAll
