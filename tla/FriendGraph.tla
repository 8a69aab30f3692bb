----------------------------- MODULE FriendGraph -----------------------------
(***************************************************************************)
(* What user-service promises about friendships: between two users there   *)
(* is one bond at a time, and a call moves the bond of one pair one step.  *)
(***************************************************************************)
CONSTANTS Users

VARIABLE bond  \* bond[p]: how the users of the pair p stand to each other

Pairs == {{u, v} : u, v \in Users}

NoBond == [type |-> "none"]
Friends == [type |-> "friends"]
Pending(u) == [type |-> "pending", by |-> u]
Blocked(u) == [type |-> "blocked", by |-> u]

Move(p, from, to) == bond[p] \in from /\ bond' = [bond EXCEPT ![p] = to]

\* u asks v, who is another user.
Ask(u, v) == u # v /\ Move({u, v}, {NoBond}, Pending(u))

\* A request is accepted, or a block ends in friendship.
Befriend(p) ==
    Move(p, {Pending(u) : u \in p} \cup {Blocked(u) : u \in p}, Friends)

\* A user blocks another, whatever was between them.
Block(u, v) == bond' = [bond EXCEPT ![{u, v}] = Blocked(u)]

\* Either user of a pair ends what is between them, but a block only the one who set it.
Part(u, v) ==
    Move({u, v}, {Friends, Pending(u), Pending(v), Blocked(u)}, NoBond)

Init == bond = [p \in Pairs |-> NoBond]

Next ==
    \/ \E u, v \in Users : Ask(u, v) \/ Block(u, v) \/ Part(u, v)
    \/ \E p \in Pairs : Befriend(p)

Spec == Init /\ [][Next]_bond
=============================================================================
