--------------------------- MODULE MCRelationships ---------------------------
(***************************************************************************)
(* Relationships on two instances: the one of the configuration, in which   *)
(* requests are in flight at once and fail half way, and one in which they  *)
(* come one at a time and web clients follow them.  Users, ids and slots    *)
(* are interchangeable.                                                     *)
(***************************************************************************)
EXTENDS Relationships, TLC

CONSTANTS SerialIds, SerialRequests

VARIABLE serial  \* which of the two it is

allVars == <<vars, serial>>

Serial == INSTANCE Relationships WITH
    Clients <- Users, Ids <- SerialIds, Requests <- SerialRequests, Faults <- FALSE,
    MaxInbox <- 2

MCInit ==
    \/ serial = TRUE /\ Serial!Init
    \/ serial = FALSE /\ Init

SerialNext == serial /\ Serial!Next /\ UNCHANGED serial

ConcurrentNext == ~serial /\ Next /\ UNCHANGED serial

MCNext == SerialNext \/ ConcurrentNext

MCSpec == MCInit /\ [][MCNext]_allVars

Symmetry == Permutations(Users) \cup Permutations(Ids) \cup Permutations(Requests)

=============================================================================
