--------------------------- MODULE MCMessageCases ---------------------------
(***************************************************************************)
(* Messages on five instances: four messages of one member of a guild, who *)
(* opens the channel while they are sent (the constants of the             *)
(* configuration); two messages of one user that overtake each other and   *)
(* can fail; two messages in a guild; one message in a guild of three, of  *)
(* whom one loads late; and messages from the invite dialog.               *)
(***************************************************************************)
EXTENDS MCMessages

CONSTANT d, m3, m4

VARIABLE instance  \* "numbers", "monologue", "guild", "loading" or "invite"

const_Alone == {a}
const_FourMessages == {m1, m2, m3, m4}
const_AllHers == [m \in const_FourMessages |-> a]
const_Once == a :> 1

SenderVisits == a :> 1 @@ b :> 0

Monologue == INSTANCE Messages WITH
    InGuild <- FALSE, Faults <- TRUE, Users <- const_Users, Messages <- const_Messages,
    sender <- const_Monologue, Visits <- const_Visits

Guild == INSTANCE Messages WITH
    Users <- const_Users, Messages <- const_Messages, sender <- const_Monologue,
    Visits <- SenderVisits

LateMember == INSTANCE Messages WITH
    Faults <- TRUE, Users <- {a, b, d}, Late <- {d}, Messages <- {m1}, sender <- m1 :> a,
    Visits <- a :> 1 @@ b :> 1 @@ d :> 0

Dialog == INSTANCE Messages WITH
    InGuild <- FALSE, Inviters <- {a}, Users <- const_Users, Messages <- const_Messages,
    sender <- const_Monologue, Visits <- SenderVisits

MCInit ==
    \/ instance = "numbers" /\ Init
    \/ instance = "monologue" /\ Monologue!Init
    \/ instance = "guild" /\ Guild!Init
    \/ instance = "loading" /\ LateMember!Init
    \/ instance = "invite" /\ Dialog!Init

\* The messages are sent in this order, and nothing happens but what the list depends on.
InOrder == <<m1, m2, m3, m4>>

NumbersNext ==
    /\ instance = "numbers"
    /\ \/ Open(a) \/ FetchRead(a) \/ FetchReply(a)
       \/ \E i \in 1..4 : /\ SendInGuild(a, InOrder[i])
                          /\ \A j \in 1..(i - 1) : sending[InOrder[j]] # "new"
       \/ \E m \in Messages : Save(m) \/ Publish(m) \/ SendReply(m)
    /\ UNCHANGED instance

\* The sender of the monologue stays in the channel, for the sake of its size.
MonologueNext ==
    instance = "monologue" /\ Monologue!Next /\ (a \in open => a \in open') /\ UNCHANGED instance

GuildNext == instance = "guild" /\ Guild!Next /\ UNCHANGED instance

LoadingNext == instance = "loading" /\ LateMember!Next /\ UNCHANGED instance

InviteNext == instance = "invite" /\ Dialog!Next /\ UNCHANGED instance

MCNext == NumbersNext \/ MonologueNext \/ GuildNext \/ LoadingNext \/ InviteNext

MCSpec == MCInit /\ [][MCNext]_<<vars, instance>>
=============================================================================
