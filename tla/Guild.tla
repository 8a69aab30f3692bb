-------------------------------- MODULE Guild --------------------------------
(***************************************************************************)
(* One guild as guild-service keeps it in its database: members and their  *)
(* roles, roles and their permissions, channels and their overwrites.      *)
(*                                                                         *)
(* A handler is an async function, and the handlers of different requests  *)
(* interleave at every await.  All the reads with which a handler begins   *)
(* are one step, and every write is a step of its own.  A handler that     *)
(* writes what it read carries it in its request slot; a handler that      *)
(* makes a single write, of nothing it has read, is one step.              *)
(* Repository.save(row) writes every column of the loaded row and inserts  *)
(* the row again when it is gone.                                          *)
(*                                                                         *)
(* The requests on roles and members are one step as well, although three  *)
(* of them load what they save (guilds.service.ts:433-479, 505-566, 683-   *)
(* 725): what two of those lose to each other is not followed here.        *)
(***************************************************************************)
EXTENDS Permissions

CONSTANTS
    Channels,            \* ids the database can hand to channels
    NoParent,            \* a null parent_id
    Owner,               \* guild.ownerId
    VIEW_CHANNELS, MANAGE_CHANNELS, MANAGE_ROLES, MANAGE_SERVERS,
    DefaultPermissions,  \* what @everyone gets when the guild is created
    Requests,            \* slots: the requests that can be in flight at once
    Faults,              \* whether a write can fail, or the service stop, half way
    TargetInputs,        \* bound: the targets overwrite requests name
    OverwriteInputs,     \* bound: the masks an overwrite request carries
    RoleInputs           \* bound: the masks a role update carries

ASSUME GuildAssumption ==
    /\ NoParent \notin Channels
    /\ NoRow \notin [parent : Channels \cup {NoParent}, isSynced : BOOLEAN, ownerId : Users]
    /\ Channels \cap Roles = {}
    /\ Owner \in Users
    /\ {VIEW_CHANNELS, MANAGE_CHANNELS, MANAGE_ROLES, MANAGE_SERVERS} \subseteq ALL_PERMISSIONS
    /\ DefaultPermissions \in Mask
    /\ IsFiniteSet(Requests)
    /\ Faults \in BOOLEAN
    /\ TargetInputs \subseteq Target
    /\ OverwriteInputs \subseteq Overwrite
    /\ RoleInputs \subseteq Mask

VARIABLES
    members,      \* the users who are members
    memberRoles,  \* memberRoles[u]: the roles of u, none unless u is a member
    roles,        \* the ids of the guild's roles
    permissions,  \* permissions[r]: the permissions of role r, none unless r is a role
    channels,     \* channels[c]: the row of channel c, or NoRow
    overwrites,   \* overwrites[c]: the overwrites of channel c
    issued,       \* the channel and role ids handed out; uuids are not used twice
    requests,     \* requests[q]: the handler that runs in slot q
    bare          \* history: the channels that were unsynced from one without @everyone's row

guildVars == <<members, memberRoles, roles, permissions>>
channelVars == <<channels, overwrites, issued, requests, bare>>
vars == <<guildVars, channelVars>>

-----------------------------------------------------------------------------
(* Rows and requests *)

Row == [parent : Channels \cup {NoParent}, isSynced : BOOLEAN, ownerId : Users]

Idle == [op |-> "idle"]

CreateRequest == [op : {"create"}, ch : Channels, rows : Overwrites]

\* An overwrite update: the clones of the parent's overwrites, the row, the overwrite.
OverwriteRequest ==
    [op : {"overwrite"}, stage : {"clones", "row", "overwrite"}, ch : Channels, row : Row,
     clones : Overwrites, target : Target, ow : Overwrite]

SyncRequest ==
    [op : {"sync"}, stage : {"clear", "row"}, ch : Channels, row : Row,
     targets : SUBSET Target]

\* A rename, or a message that makes the channel remember its last message.
TouchRequest == [op : {"touch"}, stage : {"row"}, ch : Channels, row : Row]

Request == CreateRequest \cup OverwriteRequest \cup SyncRequest \cup TouchRequest

\* Every variable has its type, only members hold roles, and only roles that exist.
TypeOK ==
    /\ members \subseteq Users
    /\ memberRoles \in [Users -> SUBSET roles]
    /\ \A u \in Users \ members : memberRoles[u] = {}
    /\ roles \subseteq Roles
    /\ permissions \in [Roles -> Mask]
    /\ channels \in [Channels -> Row \cup {NoRow}]
    /\ overwrites \in [Channels -> Overwrites]
    /\ issued \subseteq Channels \cup Roles
    /\ bare \subseteq Channels
    /\ requests \in [Requests -> Request \cup {Idle}]

Existing == {c \in Channels : channels[c] # NoRow}
Exists(c) == c \in Existing

-----------------------------------------------------------------------------
(* Who may do what.  An operator whose name ends in _Mutant is a plausible   *)
(* mistake in the one it is named for, and part of no behaviour.             *)

RolePermissions(rs) == UNION {permissions[r] : r \in rs}

BasePermission(u) ==
    IF u = Owner THEN ALL_PERMISSIONS ELSE RolePermissions({Everyone} \cup memberRoles[u])

Follows(c) == channels[c].isSynced /\ channels[c].parent # NoParent

EffectiveOverwrites(c) ==
    IF Follows(c) THEN overwrites[channels[c].parent] ELSE overwrites[c]

EffectivePermission(u, c) ==
    IF ~Exists(c) THEN {}
    ELSE IF channels[c].ownerId = u THEN BasePermission(u)
    ELSE ApplyChannelOverwrites(BasePermission(u), EffectiveOverwrites(c), u, memberRoles[u])

\* The members a message or an event of the channel goes to.  Reading the overwrites of
\* the parent of a synced channel that has none throws, so the listing is then undefined.
ListingThrows(c) ==
    channels[c].isSynced /\ channels[c].parent = NoParent /\ members \ {Owner} # {}

MembersWithChannelPermission(c, p) ==
    {u \in members :
        \/ u = Owner
        \/ p \in ApplyChannelOverwrites(RolePermissions({Everyone} \cup memberRoles[u]),
                                        EffectiveOverwrites(c), u, memberRoles[u])}

\* What the web client computes to decide what it shows.
ClientEffectivePermission_Mutant(u, c) ==
    IF u = Owner THEN ALL_PERMISSIONS
    ELSE ApplyChannelOverwrites(BasePermission(u), overwrites[c], u, memberRoles[u])

ClientEffectivePermission(u, c) ==
    LET own == memberRoles[u] \cap roles IN
    IF u = Owner THEN ALL_PERMISSIONS
    ELSE ApplyChannelOverwrites(RolePermissions({Everyone} \cup own),
                                EffectiveOverwrites(c), u, own)

-----------------------------------------------------------------------------
(* Tables *)

Upsert(rows, new) == [t \in Target |-> IF new[t] # NoRow THEN new[t] ELSE rows[t]]

Without(rows, targets) == [t \in Target |-> IF t \in targets THEN NoRow ELSE rows[t]]

One(target, ow) == [NoOverwrites EXCEPT ![target] = ow]

ParentExists_Mutant(row) == TRUE

\* parent_id is a foreign key: a row whose parent is gone cannot be written.
ParentExists(row) == row.parent = NoParent \/ Exists(row.parent)

Start(q, request) ==
    /\ requests[q] = Idle
    /\ requests' = [requests EXCEPT ![q] = request]

Finish(q) == requests' = [requests EXCEPT ![q] = Idle]

MoveTo(q, stage) == requests' = [requests EXCEPT ![q].stage = stage]

-----------------------------------------------------------------------------
(* Channels *)

\* A channel without a parent starts unsynced with an empty @everyone overwrite, a private
\* one with a parent with an overwrite that hides it, and any other one synced.
InitialRows(parent, isPrivate) ==
    IF parent = NoParent THEN One(Everyone, [allow |-> {}, deny |-> {}])
    ELSE IF isPrivate THEN One(Everyone, [allow |-> {}, deny |-> {VIEW_CHANNELS}])
    ELSE NoOverwrites

\* Any channel can be the parent of any other: the handler asks for no type, of either.
CreateChannel(q, u, c, parent, isPrivate) ==
    LET rows == InitialRows(parent, isPrivate) IN
    /\ c \notin issued
    /\ parent # NoParent => Exists(parent)
    /\ MANAGE_CHANNELS \in
         (IF parent = NoParent THEN BasePermission(u) ELSE EffectivePermission(u, parent))
    /\ issued' = issued \cup {c}
    /\ channels' = [channels EXCEPT ![c] =
           [parent |-> parent, isSynced |-> rows = NoOverwrites, ownerId |-> u]]
    /\ requests[q] = Idle
    /\ IF rows = NoOverwrites
       THEN UNCHANGED requests
       ELSE Start(q, [op |-> "create", ch |-> c, rows |-> rows])
    /\ UNCHANGED <<guildVars, overwrites, bare>>

FinishCreate(q) ==
    LET req == requests[q] IN
    /\ req.op = "create"
    /\ IF Exists(req.ch)
       THEN overwrites' = [overwrites EXCEPT ![req.ch] = Upsert(@, req.rows)]
       ELSE UNCHANGED overwrites
    /\ Finish(q)
    /\ UNCHANGED <<guildVars, channels, issued, bare>>

\* A synced channel is judged by its parent's permissions.  When it has none the query
\* is for a null id, which matches no condition and so returns any channel at all.
JudgedBy(c) ==
    IF ~channels[c].isSynced THEN {c}
    ELSE IF Follows(c) THEN {channels[c].parent}
    ELSE Existing

DeleteChannel(q, u, c) ==
    /\ requests[q] = Idle
    /\ Exists(c)
    /\ \E judge \in JudgedBy(c) : MANAGE_CHANNELS \in EffectivePermission(u, judge)
    /\ channels' = [d \in Channels |->
           IF d = c THEN NoRow
           ELSE IF Exists(d) /\ channels[d].parent = c
           THEN [channels[d] EXCEPT !.parent = NoParent]
           ELSE channels[d]]
    /\ overwrites' = [overwrites EXCEPT ![c] = NoOverwrites]
    /\ UNCHANGED <<guildVars, issued, requests, bare>>

Rename(q, u, c) ==
    /\ Exists(c)
    /\ MANAGE_CHANNELS \in EffectivePermission(u, c)
    /\ Start(q, [op |-> "touch", stage |-> "row", ch |-> c, row |-> channels[c]])
    /\ UNCHANGED <<guildVars, channels, overwrites, issued, bare>>

\* MESSAGE_CREATED arrives: the handler loads the row to set lastMessageId on it.
MessageCreated(q, c) ==
    /\ Exists(c)
    /\ ~ListingThrows(c)
    /\ Start(q, [op |-> "touch", stage |-> "row", ch |-> c, row |-> channels[c]])
    /\ UNCHANGED <<guildVars, channels, overwrites, issued, bare>>

-----------------------------------------------------------------------------
(* Overwrites *)

ValidTarget(t) == t \in members \cup roles

\* The first overwrite set on a synced channel unsyncs it: it then keeps copies of the
\* overwrites its parent has, with the requested one among them.
ClonedOverwrites_Mutant(c, t, ow) == One(t, ow)

ClonedOverwrites(c, t, ow) == Upsert(overwrites[channels[c].parent], One(t, ow))

\* A synced channel need not have a row for @everyone to clone, nor one that cloned from such a
\* channel.
LacksEveryone(parent) == channels[parent].isSynced \/ parent \in bare

UpdateOverwrite(q, u, c, t, ow) ==
    /\ Exists(c)
    /\ MANAGE_CHANNELS \in EffectivePermission(u, c)
    /\ ValidTarget(t)
    /\ LET row == channels[c] IN
       Start(q, [op |-> "overwrite", ch |-> c, target |-> t, ow |-> ow,
                 stage  |-> IF Follows(c) THEN "clones" ELSE "row",
                 row    |-> IF Follows(c) THEN [row EXCEPT !.isSynced = FALSE] ELSE row,
                 clones |-> IF Follows(c) THEN ClonedOverwrites(c, t, ow) ELSE NoOverwrites])
    /\ bare' = IF Follows(c) /\ t # Everyone /\ LacksEveryone(channels[c].parent)
               THEN bare \cup {c}
               ELSE IF Follows(c) \/ t = Everyone THEN bare \ {c} ELSE bare
    /\ UNCHANGED <<guildVars, channels, overwrites, issued>>

SaveClones(q) ==
    LET req == requests[q] IN
    /\ req.op = "overwrite" /\ req.stage = "clones"
    /\ IF Exists(req.ch)
       THEN /\ overwrites' = [overwrites EXCEPT ![req.ch] = Upsert(@, req.clones)]
            /\ MoveTo(q, "row")
       ELSE UNCHANGED overwrites /\ Finish(q)
    /\ UNCHANGED <<guildVars, channels, issued, bare>>

\* A permission both allowed and denied is neither.
Cleaned(ow) == [allow |-> ow.allow \ ow.deny, deny |-> ow.deny \ ow.allow]

SaveOverwrite(q) ==
    LET req == requests[q] IN
    /\ req.op = "overwrite" /\ req.stage = "overwrite"
    /\ IF Exists(req.ch)
       THEN overwrites' =
              [overwrites EXCEPT ![req.ch] = Upsert(@, One(req.target, Cleaned(req.ow)))]
       ELSE UNCHANGED overwrites
    /\ Finish(q)
    /\ UNCHANGED <<guildVars, channels, issued, bare>>

DeleteOverwrite(q, u, c, t) ==
    /\ requests[q] = Idle
    /\ Exists(c)
    /\ t \in TargetsOf(overwrites[c])
    /\ MANAGE_ROLES \in EffectivePermission(u, c)
    /\ t # Everyone
    /\ overwrites' = [overwrites EXCEPT ![c] = Without(@, {t})]
    /\ UNCHANGED <<guildVars, channels, issued, requests, bare>>

SyncChannel(q, u, c) ==
    /\ Exists(c)
    /\ channels[c].parent # NoParent
    /\ MANAGE_CHANNELS \in EffectivePermission(u, c)
    /\ Start(q, [op |-> "sync", stage |-> "clear", ch |-> c,
                 row |-> [channels[c] EXCEPT !.isSynced = TRUE],
                 targets |-> TargetsOf(overwrites[c])])
    /\ UNCHANGED <<guildVars, channels, overwrites, issued, bare>>

ClearOverwrites_Mutant(q) ==
    /\ requests[q].op = "sync" /\ requests[q].stage = "clear"
    /\ MoveTo(q, "row")
    /\ UNCHANGED <<guildVars, channels, overwrites, issued, bare>>

ClearOverwrites(q) ==
    LET req == requests[q] IN
    /\ req.op = "sync" /\ req.stage = "clear"
    /\ overwrites' = [overwrites EXCEPT ![req.ch] = Without(@, req.targets)]
    /\ MoveTo(q, "row")
    /\ UNCHANGED <<guildVars, channels, issued, bare>>

\* channelsRepository.save(channel), of whatever handler.
SaveRow(q) ==
    LET req == requests[q] IN
    /\ req.op \in {"touch", "overwrite", "sync"} /\ req.stage = "row"
    /\ IF ParentExists(req.row)
       THEN /\ channels' = [channels EXCEPT ![req.ch] = req.row]
            /\ IF req.op = "overwrite" THEN MoveTo(q, "overwrite") ELSE Finish(q)
       ELSE UNCHANGED channels /\ Finish(q)
    /\ UNCHANGED <<guildVars, overwrites, issued, bare>>

\* A write fails, or the service stops: nothing undoes the writes already made.
Abandon(q) ==
    /\ Faults
    /\ requests[q] # Idle
    /\ Finish(q)
    /\ UNCHANGED <<guildVars, channels, overwrites, issued, bare>>

-----------------------------------------------------------------------------
(* Members and roles *)

Join(u) ==
    /\ u \notin members
    /\ members' = members \cup {u}
    /\ UNCHANGED <<memberRoles, roles, permissions, channelVars>>

Leave(u) ==
    /\ u \in members \ {Owner}
    /\ members' = members \ {u}
    /\ memberRoles' = [memberRoles EXCEPT ![u] = {}]
    /\ UNCHANGED <<roles, permissions, channelVars>>

\* The position of a new role is one above the lowest: with no role left there is none.
CreateRole(r) ==
    /\ r \notin issued
    /\ roles # {}
    /\ roles' = roles \cup {r}
    /\ issued' = issued \cup {r}
    /\ UNCHANGED <<members, memberRoles, permissions, channels, overwrites, requests, bare>>

UpdateRole(r, mask) ==
    /\ r \in roles
    /\ permissions' = [permissions EXCEPT ![r] = mask]
    /\ UNCHANGED <<members, memberRoles, roles, channelVars>>

AssignRole(u, r, assignees) ==
    /\ MANAGE_ROLES \in BasePermission(u)
    /\ r \in roles \ {Everyone}
    /\ assignees \subseteq members
    /\ memberRoles' = [m \in Users |->
           IF m \in assignees THEN memberRoles[m] \cup {r} ELSE memberRoles[m]]
    /\ UNCHANGED <<members, roles, permissions, channelVars>>

UpdateMember(u, m, rs) ==
    /\ m \in members
    /\ MANAGE_ROLES \in BasePermission(u)
    /\ memberRoles' = [memberRoles EXCEPT ![m] = rs \cap roles]
    /\ UNCHANGED <<members, roles, permissions, channelVars>>

\* The overwrites for the role have no foreign key to it and stay.
DeleteRole(u, r) ==
    /\ r \in roles
    /\ MANAGE_SERVERS \in BasePermission(u)
    /\ roles' = roles \ {r}
    /\ permissions' = [permissions EXCEPT ![r] = {}]
    /\ memberRoles' = [m \in Users |-> memberRoles[m] \ {r}]
    /\ UNCHANGED <<members, channelVars>>

-----------------------------------------------------------------------------
Init ==
    /\ members = {Owner}
    /\ memberRoles = [u \in Users |-> {}]
    /\ roles = {Everyone}
    /\ permissions = [r \in Roles |-> IF r = Everyone THEN DefaultPermissions ELSE {}]
    /\ channels = [c \in Channels |-> NoRow]
    /\ overwrites = [c \in Channels |-> NoOverwrites]
    /\ issued = {Everyone}
    /\ requests = [q \in Requests |-> Idle]
    /\ bare = {}

ChannelRequest(q) ==
    \/ \E u \in Users, c \in Channels :
         \/ \E parent \in Channels \cup {NoParent}, isPrivate \in BOOLEAN :
              CreateChannel(q, u, c, parent, isPrivate)
         \/ DeleteChannel(q, u, c)
         \/ Rename(q, u, c)
         \/ SyncChannel(q, u, c)
         \/ \E t \in TargetInputs : \/ DeleteOverwrite(q, u, c, t)
                                    \/ \E ow \in OverwriteInputs : UpdateOverwrite(q, u, c, t, ow)
    \/ \E c \in Channels : MessageCreated(q, c)

RequestStep(q) ==
    \/ FinishCreate(q)
    \/ SaveClones(q)
    \/ SaveRow(q)
    \/ SaveOverwrite(q)
    \/ ClearOverwrites(q)
    \/ Abandon(q)

GuildRequest ==
    \/ \E u \in Users : Join(u) \/ Leave(u)
    \/ \E r \in Roles :
         \/ CreateRole(r)
         \/ \E mask \in RoleInputs : UpdateRole(r, mask)
         \/ \E u \in Users : \/ DeleteRole(u, r)
                             \/ \E ms \in SUBSET Users : AssignRole(u, r, ms)
    \/ \E u, m \in Users, rs \in SUBSET Roles : UpdateMember(u, m, rs)

Next ==
    \/ \E q \in Requests : ChannelRequest(q) \/ RequestStep(q)
    \/ GuildRequest

Spec == Init /\ [][Next]_vars

-----------------------------------------------------------------------------
(* Properties *)

OneAtATime == Cardinality(DOMAIN requests) = 1

AtRest(c) == \A q \in DOMAIN requests : requests[q] = Idle \/ requests[q].ch # c

\* A stored overwrite never both allows and denies a permission: the masks an update
\* carries reach the table uncleaned with the clones (channels.service.ts:1351), but only
\* until the same request stores them cleaned (1377).
OverlapIsTransient ==
    \A c \in Channels : \A t \in TargetsOf(overwrites[c]) :
        overwrites[c][t].allow \cap overwrites[c][t].deny # {} =>
            \E q \in DOMAIN requests : /\ requests[q].op = "overwrite"
                                       /\ requests[q].ch = c
                                       /\ requests[q].target = t

\* A channel that is not synced keeps an overwrite for @everyone, which its settings page takes
\* for granted (channel-permissions-section.tsx:561): the one it was created with (117, 128), the
\* one cloned from its parent (1325), and never the one deleted (1556).  There is one way to lose
\* it: what a synced parent follows is not cloned, so that a channel below one is left without.
UnsyncedHasEveryone ==
    \A c \in Existing :
        AtRest(c) /\ ~channels[c].isSynced /\ c \notin bare => Everyone \in TargetsOf(overwrites[c])

\* A channel that follows its parent has no overwrites of its own: they would come back to
\* life with the clones of the next update, which overwrites only the targets that the
\* parent has (1351).
FollowerHasNoOverwrites ==
    \A c \in Existing : AtRest(c) /\ Follows(c) => overwrites[c] = NoOverwrites

\* When requests come one at a time, and none fails half way, the overwrites of every channel
\* are in order.
OverwritesAreInOrder ==
    OneAtATime => OverlapIsTransient /\ UnsyncedHasEveryone /\ FollowerHasNoOverwrites

Concerns(t, u) == t = u \/ t = Everyone \/ t \in memberRoles[u]

OverwriteStepIsLocal ==
    \A q \in DOMAIN requests, c \in Channels, u \in members :
        /\ requests[q].op = "overwrite"
        /\ requests[q].ch = c
        /\ requests'[q] # requests[q]
        /\ ~Concerns(requests[q].target, u)
        => EffectivePermission(u, c)' = EffectivePermission(u, c)

\* When requests come one at a time: whatever unsyncing, cloning and cleaning a request to set
\* one overwrite implies, the permissions on the channel change for no member but those the
\* target stands for (1308-1377).
OverwriteUpdateIsLocal == [][OneAtATime => OverwriteStepIsLocal]_vars

\* The permission check of the API, the listing that decides who gets a channel's messages
\* (1229) and the web client agree on every member but the guild's owner (whom the
\* overwrites bind in the first alone) and the channel's creator (whom they spare in it),
\* wherever the listing is defined.
EvaluatorsAgree ==
    \A c \in Existing : \A u \in members \ {Owner, channels[c].ownerId} :
        /\ ClientEffectivePermission(u, c) = EffectivePermission(u, c)
        /\ ~ListingThrows(c) =>
             \A p \in ALL_PERMISSIONS :
                u \in MembersWithChannelPermission(c, p) <=> p \in EffectivePermission(u, c)

\* Permission by permission, the most specific overwrite that mentions it decides: the
\* member's own, else those of the member's roles, where an allow beats a deny, else
\* @everyone's, else the base permissions.
MostSpecificWins ==
    \A c \in Existing : \A u \in members \ {channels[c].ownerId} :
        \A p \in ALL_PERMISSIONS :
            p \in EffectivePermission(u, c) <=>
                MostSpecificGrants(p, BasePermission(u), EffectiveOverwrites(c), u, memberRoles[u])

\* Deleting a category or a channel leaves no row that refers to it, whatever rows the
\* requests in flight had read before (channel.entity.ts:56, permission-overwrite.entity.ts:50).
NoDanglingReference ==
    \A c \in Channels :
        /\ Exists(c) => channels[c].parent \in Existing \cup {NoParent}
        /\ ~Exists(c) => overwrites[c] = NoOverwrites

\* A synced channel has a parent to be synced with: syncChannel refuses a channel without
\* one (1433).
SyncedHasParent ==
    \A c \in Existing : channels[c].isSynced => channels[c].parent # NoParent
=============================================================================
