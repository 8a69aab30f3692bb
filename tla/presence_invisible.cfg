\* A user who is invisible connects again, one thing at a time.
SPECIFICATION Spec
CONSTANTS
    Sockets = {s1}
    Viewers = {v1}
    Overlap = FALSE
    MaxPending = 2
INVARIANT
    InvisibleAppearsOffline
