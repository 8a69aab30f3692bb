\* Rings that overlap with each other, with answers and with a call that ends; and a call
\* without rings.
SPECIFICATION MCSpec
CONSTANTS
    Users = {a, b}
    First = a
    Watchers = {b}
    Flags = {}
    muted = muted
    deafened = deafened
    NoState = NoState
    NoRing = NoRing
    Requests = {q1}
    Callers = {a}
    MaxRings = 2
    MaxInbox = 2
INVARIANTS
    RingHasTimer
    ListedRingIsStored
    NoClientLeftRinging
    CallIsConsistent
    ClientsShowTheCall
PROPERTIES
    RingEnds
