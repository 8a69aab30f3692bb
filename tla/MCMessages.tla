----------------------------- MODULE MCMessages -----------------------------
(* Two users and two messages for TLC: each sends one, or one sends both.    *)
EXTENDS Messages

CONSTANTS a, b, m1, m2

const_Users == {a, b}
const_Messages == {m1, m2}
const_Nobody == {}

const_Dialog == m1 :> a @@ m2 :> b
const_Monologue == [m \in const_Messages |-> a]
const_Visits == [u \in const_Users |-> 1]

\* What there is to do in a channel of two users who have loaded, when nothing fails.
DialogNext ==
    \/ \E u \in Users : \/ Open(u) \/ Close(u) \/ Collect(u)
                        \/ \E m \in Messages : Send(u, m)
                        \/ FetchRead(u) \/ FetchReply(u) \/ ReceiveStep(u)
    \/ \E m \in Messages : \/ Save(m) \/ Publish(m) \/ SendReply(m)
                           \/ CountGet(m) \/ CountSet(m) \/ CountRow(m)
    \/ AckStep

DialogSpec == Init /\ [][DialogNext]_vars /\ Fairness
=============================================================================
