\* Two requests in flight, which can fail half way; and requests one at a time.
SPECIFICATION MCSpec
CONSTANTS
    Users = {a, b}
    Clients = {}
    Ids = {r1, r2, r3}
    SerialIds = {r1, r2}
    NoRow = NoRow
    Requests = {q1, q2}
    SerialRequests = {q1}
    Faults = TRUE
    MaxInbox = 1
INVARIANTS
    BoundedDuplicates
    NoPhantomEntry
PROPERTIES
    PartiesAreFixed
    KeepsFriendGraph
SYMMETRY Symmetry
