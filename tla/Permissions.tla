----------------------------- MODULE Permissions -----------------------------
(***************************************************************************)
(* The permission arithmetic of guild-service and of the web client.       *)
(*                                                                         *)
(* A bigint mask is the set of the permissions whose bits are 1, so that   *)
(* "mask | bits" is a union and "mask & ~bits" a set difference.  The      *)
(* overwrites of a channel give each target (a role or a member) its row.  *)
(***************************************************************************)
EXTENDS FiniteSets

CONSTANTS
    Users,            \* user ids
    Roles,            \* role ids of the guild, @everyone's among them
    Everyone,         \* the id of the @everyone role, which is the guild's id
    ALL_PERMISSIONS,  \* every permission bit
    NoRow             \* what a table has for a key without a row

ASSUME PermissionsAssumption ==
    /\ Everyone \in Roles
    /\ Users \cap Roles = {}
    /\ NoRow \notin [allow : SUBSET ALL_PERMISSIONS, deny : SUBSET ALL_PERMISSIONS]

Mask == SUBSET ALL_PERMISSIONS

Overwrite == [allow : Mask, deny : Mask]

Target == Roles \cup Users

Overwrites == [Target -> Overwrite \cup {NoRow}]

NoOverwrites == [t \in Target |-> NoRow]

TargetsOf(ows) == {t \in Target : ows[t] # NoRow}

-----------------------------------------------------------------------------
(* One layer: what it denies is taken away, then what it allows is given.  *)

Apply(mask, ow) == (mask \ ow.deny) \cup ow.allow

(* The overwrites of a member's roles are merged before they are applied,  *)
(* so that an allow of one role beats a deny of another.                   *)
MergedRoles(ows, roles) ==
    LET rows == {ows[r] : r \in roles \cap TargetsOf(ows)}
    IN  [allow |-> UNION {ow.allow : ow \in rows},
         deny  |-> UNION {ow.deny : ow \in rows}]

ApplyIfSet(mask, ows, target) ==
    IF target \in TargetsOf(ows) THEN Apply(mask, ows[target]) ELSE mask

\* A mistake: @everyone's overwrite over those of the roles.
ApplyChannelOverwrites_Mutant(base, ows, user, memberRoles) ==
    ApplyIfSet(ApplyIfSet(Apply(base, MergedRoles(ows, memberRoles)), ows, Everyone), ows, user)

ApplyChannelOverwrites(base, ows, user, memberRoles) ==
    LET afterEveryone == ApplyIfSet(base, ows, Everyone)
        afterRoles    == Apply(afterEveryone, MergedRoles(ows, memberRoles))
    IN  ApplyIfSet(afterRoles, ows, user)

-----------------------------------------------------------------------------
(* What a reader of the overwrites expects, bit by bit: the most specific  *)
(* layer that mentions the permission decides it.                          *)

Mentions(ow, p) == p \in ow.allow \cup ow.deny

MostSpecificGrants(p, base, ows, user, memberRoles) ==
    LET own == memberRoles \cap TargetsOf(ows) IN
    IF user \in TargetsOf(ows) /\ Mentions(ows[user], p)
    THEN p \in ows[user].allow
    ELSE IF \E r \in own : Mentions(ows[r], p)
    THEN \E r \in own : p \in ows[r].allow
    ELSE IF Everyone \in TargetsOf(ows) /\ Mentions(ows[Everyone], p)
    THEN p \in ows[Everyone].allow
    ELSE p \in base
=============================================================================
