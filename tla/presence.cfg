\* One user who connects, disconnects and turns invisible, and viewers who come and go.
SPECIFICATION FairSpec
CONSTANTS
    Sockets = {s1}
    Viewers = {v1, v2}
    Overlap = FALSE
    MaxPending = 2
INVARIANTS
    KeyFollowsConnection
    ViewersShowTheKey
PROPERTY
    AnnouncementArrives
