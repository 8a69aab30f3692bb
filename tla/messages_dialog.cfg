\* Each user sends one message.
SPECIFICATION DialogSpec
CHECK_DEADLOCK FALSE
CONSTANTS
    a = a
    b = b
    m1 = m1
    m2 = m2
    Users <- const_Users
    Messages <- const_Messages
    sender <- const_Dialog
    Visits <- const_Visits
    InGuild = FALSE
    Late <- const_Nobody
    Inviters <- const_Nobody
    NoEntry = NoEntry
    NoList = NoList
    Faults = FALSE
INVARIANT
    ProvisionalIsRead
PROPERTY
    EveryMessageArrives
