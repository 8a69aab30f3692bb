------------------------------- MODULE MCGuild -------------------------------
(***************************************************************************)
(* One guild for TLC: an owner and a member, in three scenarios.           *)
(* "roles": requests come one at a time and none fails; two channels, one  *)
(* of which may be the parent of the other, and a role.                    *)
(* "depth": likewise with three channels, so that a parent can have a      *)
(* parent, overwrites for a member, and no role but @everyone.             *)
(* "crossing": two requests in flight, which can fail half way.            *)
(***************************************************************************)
EXTENDS Guild

CONSTANTS u1, u2, everyone, mod, cat, txt, sub, q1, q2

VARIABLE scenario

allVars == <<vars, scenario>>

const_Users == {u1, u2}
const_Roles == {everyone, mod}
const_Channels == {cat, txt, sub}
const_Requests == {q1, q2}

const_Permissions == {VIEW_CHANNELS, MANAGE_CHANNELS, MANAGE_ROLES, MANAGE_SERVERS}
const_Default == {VIEW_CHANNELS}

const_TargetInputs == {everyone, mod, u2}

\* Shows the channel and hands it over, takes role management away, contradicts itself.
const_OverwriteInputs ==
    {[allow |-> {VIEW_CHANNELS, MANAGE_CHANNELS, MANAGE_SERVERS},
      deny  |-> {MANAGE_ROLES, MANAGE_SERVERS}]}

const_RoleInputs == {{MANAGE_ROLES}}

Roles1 == INSTANCE Guild WITH
    Requests <- {q1}, Faults <- FALSE, TargetInputs <- {everyone, mod}

Depth == INSTANCE Guild WITH
    Requests <- {q1}, Faults <- FALSE, TargetInputs <- {everyone, u2}

Crossing == INSTANCE Guild WITH TargetInputs <- {everyone}

MCInit ==
    \/ scenario = "roles" /\ Roles1!Init
    \/ scenario = "depth" /\ Depth!Init
    \/ scenario = "crossing" /\ Crossing!Init

\* Bound: the third channel is there in "depth" alone.
TwoChannels == sub \notin Existing'

RolesNext == scenario = "roles" /\ Roles1!Next /\ TwoChannels

DepthNext ==
    /\ scenario = "depth"
    /\ \/ Depth!ChannelRequest(q1) \/ Depth!RequestStep(q1)
       \/ \E u \in Users : Join(u) \/ Leave(u)

CrossingNext ==
    /\ scenario = "crossing"
    /\ \/ \E q \in Requests : Crossing!ChannelRequest(q) \/ RequestStep(q)
       \/ \E u \in Users : Join(u) \/ Leave(u)
       \/ \E u, m \in Users, rs \in SUBSET {everyone} : UpdateMember(u, m, rs)
    /\ TwoChannels

\* The ids of channels are interchangeable: let them be issued in one order.
IssuedInOrder == (txt \in issued' => cat \in issued') /\ (sub \in issued' => txt \in issued')

MCNext ==
    /\ RolesNext \/ DepthNext \/ CrossingNext
    /\ IssuedInOrder
    /\ UNCHANGED scenario

MCSpec == MCInit /\ [][MCNext]_allVars

-----------------------------------------------------------------------------
\* When requests come one at a time: a synced channel has a parent to be synced with;
\* syncChannel refuses a channel without one (1433).
SerialSyncedHasParent == scenario # "crossing" => SyncedHasParent
=============================================================================
