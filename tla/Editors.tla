------------------------------- MODULE Editors -------------------------------
(***************************************************************************)
(* The members of a guild edit it at the same time: each has a web client  *)
(* with a copy of the guild (the guilds store) and the settings pages that *)
(* show and change it.                                                     *)
(*                                                                         *)
(* A click that asks for a change reaches guild-service and is handled in  *)
(* one step (Guild has the steps in between).  The answer goes to the one  *)
(* who asked over HTTP, and an event to the other members over their web   *)
(* sockets: events keep their order, an answer overtakes and is overtaken. *)
(* inbox[u] holds both in the order in which the server sent them.         *)
(***************************************************************************)
EXTENDS Permissions, Naturals, SequencesExt

CONSTANTS
    Channels, Categories, NoParent, Owner,
    VIEW_CHANNELS, MANAGE_CHANNELS, MANAGE_ROLES, MANAGE_SERVERS,
    Names,         \* the names of the guild and of its channels
    Colors,
    NoColor,       \* a null color
    Moderator,     \* the role the guild has beside @everyone when the model begins
    Category, Text, \* the channels every guild is created with
    TargetInputs,  \* bound: the targets users give an overwrite to
    Clickable,     \* bound: the permissions that users click on
    MaxClicks      \* bound: MaxClicks[u], how many requests u makes

ASSUME EditorsAssumption ==
    /\ Categories \subseteq Channels
    /\ NoParent \notin Channels
    /\ Owner \in Users
    /\ Moderator \in Roles \ {Everyone}
    /\ Category \in Categories /\ Text \in Channels \ Categories
    /\ Names # {}
    /\ {VIEW_CHANNELS, MANAGE_CHANNELS, MANAGE_ROLES, MANAGE_SERVERS} \subseteq ALL_PERMISSIONS
    /\ NoColor \notin Colors
    /\ Clickable \subseteq ALL_PERMISSIONS /\ TargetInputs \subseteq Target
    /\ MaxClicks \in [Users -> Nat]

VARIABLES
    server,  \* the guild in the database
    view,    \* view[u]: the guild in the store of u's client
    inbox,   \* inbox[u]: the events and the answers under way to u
    screen,  \* screen[u]: the settings page u has open
    \* history
    issued,  \* the channel and role ids handed out
    clicks,  \* clicks[u]: the requests u has made
    raced,   \* the users whose client took in a change in the wrong order
    private  \* private[u]: the channels u has ticked "Private Channel" of

vars == <<server, view, inbox, screen, issued, clicks, raced, private>>

-----------------------------------------------------------------------------
(* Rows *)

ChannelRow == [name : Names, parent : Categories \cup {NoParent}, isSynced : BOOLEAN,
               ownerId : Users, overwrites : Overwrites]

RoleRow == [permissions : Mask, color : Colors \cup {NoColor}, position : Nat]

ASSUME RowAssumption == NoRow \notin ChannelRow \cup RoleRow

\* Only the store of a client can be without the guild, or without the guild's lists.
Guilds == [present : BOOLEAN, name : Names, members : SUBSET Users,
           memberRoles : [Users -> SUBSET Roles],
           roles : [Roles -> RoleRow \cup {NoRow}],
           channels : [Channels -> ChannelRow \cup {NoRow}]]

RolesOf(g) == {r \in Roles : g.roles[r] # NoRow}
ChannelsOf(g) == {c \in Channels : g.channels[c] # NoRow}

\* The permission arithmetic of guild-service and of the client, on either copy.
At(g) == INSTANCE Guild WITH
    members <- g.members, memberRoles <- g.memberRoles, roles <- RolesOf(g),
    permissions <- [r \in Roles |-> IF g.roles[r] = NoRow THEN {} ELSE g.roles[r].permissions],
    channels <- g.channels,
    overwrites <- [c \in Channels |->
        IF g.channels[c] = NoRow THEN NoOverwrites ELSE g.channels[c].overwrites],
    issued <- issued, requests <- << >>, bare <- {}, Requests <- {}, Faults <- FALSE,
    DefaultPermissions <- {}, OverwriteInputs <- {}, RoleInputs <- {}

May(u, p) == p \in At(server)!BasePermission(u)
MayOn(u, p, c) == p \in At(server)!EffectivePermission(u, c)

\* What a client shows of a channel: of a synced one, its category's overwrites.
Source(g, c) ==
    IF g.channels[c] = NoRow THEN NoParent
    ELSE IF g.channels[c].isSynced THEN g.channels[c].parent ELSE c

Shown(g, c) ==
    IF Source(g, c) \in ChannelsOf(g) THEN g.channels[Source(g, c)].overwrites ELSE NoOverwrites

-----------------------------------------------------------------------------
(* The guilds store.  An operator whose name ends in _Mutant is a plausible *)
(* mistake in the one it is named for, and part of no behaviour.            *)

HasLists(g) == g.present /\ g.members # {}

\* { ...old, ...new }: JSON has dropped the fields of new that were undefined.
Merge(old, new) == [f \in DOMAIN old |-> IF f \in DOMAIN new THEN new[f] ELSE old[f]]

Blank == [name |-> CHOOSE n \in Names : TRUE, parent |-> NoParent, isSynced |-> FALSE,
          ownerId |-> Owner, overwrites |-> NoOverwrites]

UpsertChannel(g, c, data) ==
    [g EXCEPT !.channels[c] = Merge(IF @ = NoRow THEN Blank ELSE @, data)]

WithoutChannel(g, c) ==
    [g EXCEPT !.channels = [d \in Channels |->
        IF d = c \/ @[d] = NoRow THEN NoRow
        ELSE IF @[d].parent = c THEN [@[d] EXCEPT !.parent = NoParent]
        ELSE @[d]]]

UpsertMembers(g, data) ==
    [g EXCEPT !.members = @ \cup DOMAIN data,
              !.memberRoles = [u \in Users |-> IF u \in DOMAIN data THEN data[u] ELSE @[u]]]

RemoveMember(g, u) == [g EXCEPT !.members = @ \ {u}, !.memberRoles[u] = {}]

UpsertRole(g, r, row) == [g EXCEPT !.roles[r] = row]

RemoveRole_Mutant(g, r) == [g EXCEPT !.roles[r] = NoRow]

RemoveRole(g, r) ==
    [g EXCEPT !.roles[r] = NoRow, !.memberRoles = [u \in Users |-> @[u] \ {r}]]

NoGuild(g) ==
    [g EXCEPT !.present = FALSE, !.members = {}, !.memberRoles = [u \in Users |-> {}],
              !.roles = [r \in Roles |-> NoRow], !.channels = [c \in Channels |-> NoRow]]

\* The answer to a saved overwrite is that overwrite alone: the client works out what the
\* server made of the channel, from its own copy of the category.
MergeOverwrite_Mutant(g, c, row) == [g EXCEPT !.channels[c].overwrites = At(g)!Upsert(@, row)]

MergeOverwrite(g, c, row) ==
    LET ch == g.channels[c]
        follows == ch.isSynced /\ ch.parent # NoParent
    IN  IF ch = NoRow THEN g
        ELSE IF ~follows THEN [g EXCEPT !.channels[c].overwrites = At(g)!Upsert(@, row)]
        ELSE IF ch.parent \notin ChannelsOf(g) THEN [g EXCEPT !.channels[c].isSynced = FALSE]
        ELSE [g EXCEPT !.channels[c].isSynced = FALSE,
                       !.channels[c].overwrites = At(g)!Upsert(g.channels[ch.parent].overwrites, row)]

DropOverwrite(g, c, t) ==
    IF g.channels[c] = NoRow THEN g ELSE [g EXCEPT !.channels[c].overwrites[t] = NoRow]

\* What a client does with an event.
OnEvent(g, m) ==
    IF m.type = "GUILD_UPDATE" THEN [g EXCEPT !.present = TRUE, !.name = m.data]
    ELSE IF ~HasLists(g) THEN g
    ELSE CASE m.type = "CHANNEL_UPDATE" -> UpsertChannel(g, m.id, m.data)
           [] m.type = "CHANNEL_DELETE" -> WithoutChannel(g, m.id)
           [] m.type = "MEMBERS_UPDATE" -> UpsertMembers(g, m.data)
           [] m.type = "MEMBER_LEAVE" -> RemoveMember(g, m.id)
           [] m.type = "ROLE_UPDATE" -> UpsertRole(g, m.id, m.data)
           [] m.type = "ROLE_DELETE" -> RemoveRole(g, m.id)

\* What a client does with the answer to its own request.
OnAnswer(g, m) ==
    CASE m.type = "LEFT" -> NoGuild(g)
      [] m.type = "RENAMED" /\ HasLists(g) -> UpsertChannel(g, m.id, m.data)
      [] m.type = "OVERWRITE" /\ HasLists(g) -> MergeOverwrite(g, m.id, m.data)
      [] m.type = "OVERWRITE_DELETE" /\ HasLists(g) -> DropOverwrite(g, m.id, m.data)
      [] m.type = "ROLE_CREATED" /\ HasLists(g) -> UpsertRole(g, m.id, m.data)
      [] OTHER -> OnEvent(g, m)

Applied(g, m) == IF m.reply THEN OnAnswer(g, m) ELSE OnEvent(g, m)

-----------------------------------------------------------------------------
(* guild-service *)

Message(type, id, data, about) ==
    [type |-> type, id |-> id, data |-> data, about |-> about, reply |-> FALSE]

Reply(m) == [m EXCEPT !.reply = TRUE]
Event(m) == [m EXCEPT !.reply = FALSE]

AwaitsRename(u) == \E i \in DOMAIN inbox[u] : inbox[u][i].type = "RENAMED"

\* The server makes the guild g of a request of u.  Bound: while u waits for the answer
\* to a rename, u asks for nothing else.
Handle(u, g, event, reply) ==
    /\ clicks[u] < MaxClicks[u]
    /\ ~AwaitsRename(u)
    /\ clicks' = [clicks EXCEPT ![u] = @ + 1]
    /\ server' = g
    /\ inbox' = [v \in Users |->
           IF v = u THEN Append(inbox[v], Reply(reply))
           ELSE IF v \in server.members THEN Append(inbox[v], Event(event))
           ELSE inbox[v]]
    /\ UNCHANGED <<view, raced, private>>

Told(u, g, m) == Handle(u, g, m, m)

\* The payload of an update that has loaded neither the parent nor the overwrites.
Bare(ch) == [name |-> ch.name, isSynced |-> ch.isSynced, ownerId |-> ch.ownerId]

WithOverwrites(ch) ==
    [name |-> ch.name, isSynced |-> ch.isSynced, ownerId |-> ch.ownerId, overwrites |-> ch.overwrites]

\* No page offers a parent but a category (create-channel-modal.tsx:167).
CreateChannel(u, c, parent, isPrivate) ==
    LET rows == At(server)!InitialRows(parent, isPrivate)
        ch == [name |-> Blank.name, parent |-> parent, isSynced |-> rows = NoOverwrites,
               ownerId |-> u, overwrites |-> rows]
    IN  /\ c \notin issued
        /\ IF parent = NoParent THEN May(u, MANAGE_CHANNELS) ELSE MayOn(u, MANAGE_CHANNELS, parent)
        /\ issued' = issued \cup {c}
        /\ Told(u, [server EXCEPT !.channels[c] = ch],
                Message("CHANNEL_UPDATE", c, ch, {c, parent}))
        /\ UNCHANGED screen

DeleteChannel(u, c) ==
    /\ c \in ChannelsOf(server)
    /\ \E judge \in At(server)!JudgedBy(c) : MayOn(u, MANAGE_CHANNELS, judge)
    /\ Told(u, WithoutChannel(server, c), Message("CHANNEL_DELETE", c, NoRow, {c}))
    /\ UNCHANGED <<issued, screen>>

\* answer is what the page that asked makes of the channel when it is told of the success.
UpdateChannel(u, c, n, answer) ==
    LET ch == [server.channels[c] EXCEPT !.name = n] IN
    /\ c \in ChannelsOf(server)
    /\ MayOn(u, MANAGE_CHANNELS, c)
    /\ Handle(u, [server EXCEPT !.channels[c] = ch],
              Message("CHANNEL_UPDATE", c, Bare(ch), {c}), Message("RENAMED", c, answer, {c}))
    /\ UNCHANGED <<issued, screen>>

\* The first overwrite set on a synced channel unsyncs it.
Overwritten(c, row) ==
    LET ch == server.channels[c] IN
    [ch EXCEPT !.isSynced = @ /\ ~At(server)!Follows(c),
               !.overwrites = At(server)!Upsert(
                   IF At(server)!Follows(c)
                   THEN At(server)!Upsert(@, server.channels[ch.parent].overwrites)
                   ELSE @, row)]

UpdateOverwrite(u, c, t, ow) ==
    LET row == [NoOverwrites EXCEPT ![t] = At(server)!Cleaned(ow)] IN
    /\ c \in ChannelsOf(server)
    /\ MayOn(u, MANAGE_CHANNELS, c)
    /\ t \in server.members \cup RolesOf(server)
    /\ Handle(u, [server EXCEPT !.channels[c] = Overwritten(c, row)],
              Message("CHANNEL_UPDATE", c, WithOverwrites(Overwritten(c, row)), {c}),
              Message("OVERWRITE", c, row, {c, view[u].channels[c].parent}))
    /\ UNCHANGED issued

DeleteOverwrite(u, c, t) ==
    LET ch == [server.channels[c] EXCEPT !.overwrites[t] = NoRow] IN
    /\ c \in ChannelsOf(server) /\ t \in TargetsOf(server.channels[c].overwrites)
    /\ MayOn(u, MANAGE_ROLES, c)
    /\ t # Everyone
    /\ Handle(u, [server EXCEPT !.channels[c] = ch],
              Message("CHANNEL_UPDATE", c, WithOverwrites(ch), {c}),
              Message("OVERWRITE_DELETE", c, t, {c}))
    /\ UNCHANGED <<issued, screen>>

SyncChannel(u, c) ==
    LET ch == [server.channels[c] EXCEPT !.isSynced = TRUE, !.overwrites = NoOverwrites] IN
    /\ c \in ChannelsOf(server) /\ server.channels[c].parent # NoParent
    /\ MayOn(u, MANAGE_CHANNELS, c)
    /\ Told(u, [server EXCEPT !.channels[c] = ch], Message("CHANNEL_UPDATE", c, Bare(ch), {c}))
    /\ UNCHANGED <<issued, screen>>

UpdateGuild(u, n) ==
    /\ u = Owner
    /\ Told(u, [server EXCEPT !.name = n], Message("GUILD_UPDATE", NoRow, n, {"guild"}))
    /\ UNCHANGED <<issued, screen>>

Leave(u) ==
    /\ u \in server.members \ {Owner}
    /\ Handle(u, RemoveMember(server, u), Message("MEMBER_LEAVE", u, NoRow, {u}),
              Message("LEFT", u, NoRow, Target \cup Channels \cup {"guild"}))
    /\ UNCHANGED <<issued, screen>>

AboveLowest(row, lowest) ==
    IF row # NoRow /\ row.position > lowest THEN [row EXCEPT !.position = @ + 1] ELSE row

\* Room is made above the lowest role, if there is one: without any the role is not saved.
\* The roles that move up are announced to no one.
CreateRole(u, r) ==
    \E lowest \in {server.roles[q].position : q \in RolesOf(server)} :
        LET row == [permissions |-> {}, color |-> NoColor, position |-> lowest + 1]
            m == Message("ROLE_UPDATE", r, row, {r})
        IN  /\ u = Owner /\ r \notin issued
            /\ \A q \in RolesOf(server) : lowest <= server.roles[q].position
            /\ issued' = issued \cup {r}
            /\ Handle(u, [server EXCEPT !.roles = [q \in Roles |->
                              IF q = r THEN row ELSE AboveLowest(@[q], lowest)]],
                      m, [m EXCEPT !.type = "ROLE_CREATED"])
            /\ UNCHANGED screen

\* A null color and a position of 0 are taken for fields that were left out.
Saved(old, r, draft) ==
    IF r = Everyone THEN [old EXCEPT !.permissions = draft.permissions]
    ELSE [permissions |-> draft.permissions,
          color |-> IF draft.color = NoColor THEN old.color ELSE draft.color,
          position |-> IF draft.position = 0 THEN old.position ELSE draft.position]

UpdateRole(u, r, draft) ==
    LET row == Saved(server.roles[r], r, draft) IN
    /\ u = Owner /\ r \in RolesOf(server)
    /\ Told(u, UpsertRole(server, r, row), Message("ROLE_UPDATE", r, row, {r}))
    /\ UNCHANGED issued

DeleteRole(u, r) ==
    /\ r \in RolesOf(server)
    /\ May(u, MANAGE_SERVERS)
    /\ Told(u, RemoveRole(server, r), Message("ROLE_DELETE", r, NoRow, {r}))
    /\ UNCHANGED <<issued, screen>>

SetMembers(u, data) ==
    /\ May(u, MANAGE_ROLES)
    /\ Told(u, UpsertMembers(server, data),
            Message("MEMBERS_UPDATE", NoRow, data,
                    DOMAIN data \cup UNION {data[v] : v \in DOMAIN data}))
    /\ UNCHANGED <<issued, screen>>

\* Only those who do not have the role yet are saved and announced.
AssignRole(u, r, assignees) ==
    /\ r \in RolesOf(server) \ {Everyone}
    /\ assignees \subseteq server.members
    /\ SetMembers(u, [v \in {w \in assignees : r \notin server.memberRoles[w]} |->
                         server.memberRoles[v] \cup {r}])

UpdateMember(u, v, rs) ==
    /\ v \in server.members
    /\ SetMembers(u, [w \in {v} |-> rs \cap RolesOf(server)])

-----------------------------------------------------------------------------
(* The settings pages: what was selected, the draft of it, the clicks made *)
(* since the draft was last set (history), and whether a save is awaited.  *)

NoScreen == [page |-> "none"]

Page(page, id, target, selected) ==
    [page |-> page, id |-> id, target |-> target, selected |-> selected, draft |-> selected,
     touched |-> {}, saving |-> FALSE]

PermissionsPage(u, c, t) == Page("permissions", c, t, Shown(view[u], c)[t])

RolePage(u, r) == Page("role", r, r, view[u].roles[r])

On(u, page) == screen[u].page = page /\ HasLists(view[u])

OnPermissions(u) == On(u, "permissions") /\ screen[u].id \in ChannelsOf(view[u])

\* The menus offer to edit or delete a channel to those the client finds may manage it.
Offers(u, c) ==
    /\ c \in ChannelsOf(view[u])
    /\ MANAGE_CHANNELS \in At(view[u])!ClientEffectivePermission(u, c)

Show(u, page) ==
    /\ screen' = [screen EXCEPT ![u] = page]
    /\ UNCHANGED <<server, view, inbox, issued, clicks, raced>>

Close(u) == screen[u] # NoScreen /\ Show(u, NoScreen) /\ UNCHANGED private

OpenPermissions(u, c) ==
    /\ screen[u] = NoScreen /\ HasLists(view[u]) /\ Offers(u, c)
    /\ Everyone \in TargetsOf(Shown(view[u], c))
    /\ Show(u, PermissionsPage(u, c, Everyone))
    /\ UNCHANGED private

SelectTarget(u, t) ==
    /\ OnPermissions(u)
    /\ t \in TargetsOf(Shown(view[u], screen[u].id))
    /\ Show(u, [PermissionsPage(u, screen[u].id, t) EXCEPT !.saving = screen[u].saving])
    /\ UNCHANGED private

OpenRole(u, r) ==
    /\ screen[u] = NoScreen /\ HasLists(view[u])
    /\ MANAGE_SERVERS \in At(view[u])!BasePermission(u)
    /\ r \in RolesOf(view[u])
    /\ Show(u, RolePage(u, r))
    /\ UNCHANGED private

SelectRole(u, r) ==
    /\ On(u, "role")
    /\ r \in RolesOf(view[u]) \ {screen[u].id}
    /\ Show(u, [RolePage(u, r) EXCEPT !.saving = screen[u].saving])
    /\ UNCHANGED private

Draft(u, draft, p) ==
    Show(u, [screen[u] EXCEPT !.draft = draft, !.touched = @ \cup {p}]) /\ UNCHANGED private

Allow(ow, p) == [allow |-> ow.allow \cup {p}, deny |-> ow.deny \ {p}]
Deny(ow, p) == [allow |-> ow.allow \ {p}, deny |-> ow.deny \cup {p}]
Neither(ow, p) == [allow |-> ow.allow \ {p}, deny |-> ow.deny \ {p}]

ClickPermission(u, p) ==
    /\ OnPermissions(u)
    /\ \E draft \in {Allow(screen[u].draft, p), Deny(screen[u].draft, p), Neither(screen[u].draft, p)} :
          Draft(u, draft, p)

TickPermission(u, p) ==
    /\ On(u, "role")
    /\ \E mask \in {screen[u].draft.permissions \cup {p}, screen[u].draft.permissions \ {p}} :
          Draft(u, [screen[u].draft EXCEPT !.permissions = mask], p)

PickColor(u, color) ==
    /\ On(u, "role") /\ screen[u].id # Everyone
    /\ Draft(u, [screen[u].draft EXCEPT !.color = color], "color")

HaveChanges(u) == screen[u].draft # screen[u].selected

Reset(u) ==
    /\ OnPermissions(u) \/ On(u, "role")
    /\ HaveChanges(u) /\ ~screen[u].saving
    /\ Show(u, [screen[u] EXCEPT !.draft = screen[u].selected, !.touched = {}])
    /\ UNCHANGED private

\* The checkbox changes @everyone's overwrite in the client's own copy, and nothing else.
MakePrivate(u) ==
    LET c == screen[u].id IN
    /\ OnPermissions(u) /\ Everyone \in TargetsOf(view[u].channels[c].overwrites)
    /\ private' = [private EXCEPT ![u] = @ \cup {c}]
    /\ view' = [view EXCEPT ![u].channels[c].overwrites[Everyone].deny = @ \cup {VIEW_CHANNELS}]
    /\ UNCHANGED <<server, inbox, screen, issued, clicks, raced>>

Saving(u) == screen' = [screen EXCEPT ![u].saving = TRUE]

SavePermissions(u) ==
    /\ OnPermissions(u) /\ HaveChanges(u) /\ ~screen[u].saving
    /\ UpdateOverwrite(u, screen[u].id, screen[u].target, screen[u].draft)
    /\ Saving(u)

\* The menu leaves out the targets that the channel itself has overwrites for.
AddTarget(u, t) ==
    /\ OnPermissions(u)
    /\ t \in RolesOf(view[u]) \cup view[u].members
    /\ t \notin TargetsOf(view[u].channels[screen[u].id].overwrites)
    /\ UpdateOverwrite(u, screen[u].id, t, [allow |-> {}, deny |-> {}])
    /\ Saving(u)

RemoveTarget(u, t) ==
    /\ OnPermissions(u)
    /\ t \in TargetsOf(Shown(view[u], screen[u].id)) \cap (RolesOf(view[u]) \cup view[u].members)
    /\ DeleteOverwrite(u, screen[u].id, t)

SyncNow(u) ==
    /\ OnPermissions(u)
    /\ view[u].channels[screen[u].id].parent # NoParent
    /\ ~view[u].channels[screen[u].id].isSynced
    /\ SyncChannel(u, screen[u].id)

SaveRole(u) ==
    /\ On(u, "role") /\ HaveChanges(u) /\ ~screen[u].saving
    /\ UpdateRole(u, screen[u].id, screen[u].draft)
    /\ Saving(u)

\* A private channel is made so by the server; the menu of a category makes one in it.
NewCategory(u, c) == c \in Categories /\ \E isPrivate \in BOOLEAN :
    CreateChannel(u, c, NoParent, isPrivate)

NewChannel(u, c) == c \notin Categories /\ \E isPrivate \in BOOLEAN :
    \E parent \in (Categories \cap ChannelsOf(view[u])) \cup {NoParent} :
        CreateChannel(u, c, parent, isPrivate)

RemoveChannel(u, c) == Offers(u, c) /\ DeleteChannel(u, c)

\* The Overview page writes back the row it had when it was asked to save, renamed.
SaveOverview(u, c, n) ==
    /\ screen[u] = NoScreen /\ Offers(u, c)
    /\ n # view[u].channels[c].name
    /\ \A i \in DOMAIN inbox[u] : ~inbox[u][i].reply
    /\ UpdateChannel(u, c, n, [view[u].channels[c] EXCEPT !.name = n])

SaveProfile(u, n) ==
    /\ HasLists(view[u]) /\ n # view[u].name
    /\ UpdateGuild(u, n)

NewRole(u, r) == On(u, "role") /\ CreateRole(u, r)

RemoveSelectedRole(u) == On(u, "role") /\ DeleteRole(u, screen[u].id)

AddMembers(u) ==
    /\ On(u, "role")
    /\ \E assignees \in SUBSET {v \in view[u].members : screen[u].id \notin view[u].memberRoles[v]} :
          assignees # {} /\ AssignRole(u, screen[u].id, assignees)

\* The page sends all the roles that it finds the member has left.
RemoveFromRole(u, v) ==
    /\ On(u, "role") /\ screen[u].id \in view[u].memberRoles[v]
    /\ UpdateMember(u, v, view[u].memberRoles[v] \ {screen[u].id})

LeaveGuild(u) == HasLists(view[u]) /\ u # Owner /\ Leave(u)

-----------------------------------------------------------------------------
(* An event or an answer reaches the client *)

\* Whose array of overwrites is a new one after m, with another content or not.
Replaced(u, m) ==
    CASE m.type = "CHANNEL_UPDATE" /\ "overwrites" \in DOMAIN m.data -> {m.id}
      [] m.type \in {"OVERWRITE", "OVERWRITE_DELETE"} -> {m.id}
      [] m.type = "RENAMED" /\ view[u].channels[m.id] # NoRow ->
            {c \in {m.id} : view[u].channels[c].overwrites # m.data.overwrites}
      [] OTHER -> {}

\* The effect on permissionOverwrites: the latest overwrite of the selected target is
\* selected again, and edits of the last one are dropped.
Reselected_Mutant(u, g, m) ==
    LET s == screen[u] IN
    IF Source(g, s.id) \in Replaced(u, m) /\ s.target \in TargetsOf(Shown(g, s.id))
    THEN [s EXCEPT !.selected = Shown(g, s.id)[s.target]]
    ELSE s

Reselected(u, g, m) ==
    LET s == screen[u]
        isNew == Source(g, s.id) # Source(view[u], s.id) \/ Source(g, s.id) \in Replaced(u, m)
        latest == Shown(g, s.id)[s.target]
    IN  IF isNew /\ latest # NoRow
        THEN [s EXCEPT !.selected = latest, !.draft = latest, !.touched = {}]
        ELSE s

\* The effects on guild.roles and on the selected role do the same for a role.
RoleReselected(u, g, m) ==
    LET s == screen[u] IN
    IF m.type = "ROLE_CREATED" \/ (m.type = "ROLE_UPDATE" /\ m.id = s.id)
    THEN [Page("role", m.id, m.id, g.roles[m.id]) EXCEPT !.saving = s.saving]
    ELSE s

Rerendered(u, g, m) ==
    LET done(s, type) == [s EXCEPT !.saving = @ /\ ~(m.reply /\ m.type = type)] IN
    IF m.reply /\ m.type = "CHANNEL_DELETE" THEN NoScreen
    ELSE IF ~HasLists(g) THEN NoScreen
    ELSE IF screen[u].page = "permissions" THEN done(Reselected(u, g, m), "OVERWRITE")
    ELSE IF screen[u].page = "role" THEN done(RoleReselected(u, g, m), "ROLE_UPDATE")
    ELSE NoScreen

\* Two changes to one row, the later first; or a row written back that is not the latest.
Races(u, i) ==
    LET m == inbox[u][i] IN
    \/ \E j \in 1..(i - 1) : inbox[u][j].about \cap m.about # {}
    \/ m.type = "RENAMED" /\ \A n \in Names : view[u].channels[m.id] # [m.data EXCEPT !.name = n]

Take(u, i) ==
    LET m == inbox[u][i] IN
    /\ m.reply \/ \A j \in 1..(i - 1) : inbox[u][j].reply
    /\ inbox' = [inbox EXCEPT ![u] = RemoveAt(@, i)]
    /\ view' = [view EXCEPT ![u] = Applied(@, m)]
    /\ screen' = [screen EXCEPT ![u] = Rerendered(u, Applied(view[u], m), m)]
    /\ raced' = IF Races(u, i) THEN raced \cup {u} ELSE raced
    /\ UNCHANGED <<server, issued, clicks, private>>

-----------------------------------------------------------------------------
\* A guild as it is created, with a second member and a role that manages it.
DefaultGuild ==
    [present |-> TRUE, name |-> Blank.name, members |-> Users,
     memberRoles |-> [u \in Users |-> IF u = Owner THEN {} ELSE {Moderator}],
     roles |-> [r \in Roles |->
         IF r = Everyone THEN [permissions |-> {VIEW_CHANNELS}, color |-> NoColor, position |-> 0]
         ELSE IF r = Moderator
         THEN [permissions |-> ALL_PERMISSIONS, color |-> NoColor, position |-> 1]
         ELSE NoRow],
     channels |-> [c \in Channels |->
         IF c = Category
         THEN [Blank EXCEPT !.overwrites[Everyone] = [allow |-> {}, deny |-> {}]]
         ELSE IF c = Text THEN [Blank EXCEPT !.parent = Category, !.isSynced = TRUE]
         ELSE NoRow]]

Init ==
    /\ server = DefaultGuild
    /\ view = [u \in Users |-> server]
    /\ inbox = [u \in Users |-> << >>]
    /\ screen = [u \in Users |-> NoScreen]
    /\ issued = ChannelsOf(server) \cup RolesOf(server)
    /\ clicks = [u \in Users |-> 0]
    /\ raced = {}
    /\ private = [u \in Users |-> {}]

Browse(u) ==
    \/ Close(u)
    \/ \E r \in Roles : OpenRole(u, r) \/ SelectRole(u, r)
    \/ \E c \in Channels : OpenPermissions(u, c)
    \/ \E t \in Target : SelectTarget(u, t)

Edit(u) ==
    \/ Reset(u)
    \/ MakePrivate(u)
    \/ \E p \in Clickable : ClickPermission(u, p) \/ TickPermission(u, p)
    \/ \E color \in Colors \cup {NoColor} : PickColor(u, color)

OverwriteRequest(u) ==
    \/ SavePermissions(u)
    \/ SyncNow(u)
    \/ \E t \in TargetInputs : AddTarget(u, t) \/ RemoveTarget(u, t)

ChannelRequest(u) ==
    \E c \in Channels :
        /\ HasLists(view[u])
        /\ NewCategory(u, c) \/ NewChannel(u, c) \/ RemoveChannel(u, c)
           \/ \E n \in Names : SaveOverview(u, c, n)

RoleRequest(u) ==
    \/ SaveRole(u)
    \/ RemoveSelectedRole(u)
    \/ \E r \in Roles : NewRole(u, r)

MemberRequest(u) ==
    \/ AddMembers(u)
    \/ \E v \in Users : RemoveFromRole(u, v)
    \/ LeaveGuild(u)
    \/ \E n \in Names : SaveProfile(u, n)

Next ==
    \E u \in Users :
        \/ Browse(u) \/ Edit(u)
        \/ OverwriteRequest(u) \/ ChannelRequest(u) \/ RoleRequest(u) \/ MemberRequest(u)
        \/ \E i \in DOMAIN inbox[u] : Take(u, i)

Spec == Init /\ [][Next]_vars

-----------------------------------------------------------------------------
(* Properties *)

\* Every variable has its type, and on the server only members hold roles, that exist.
TypeOK ==
    /\ server \in Guilds /\ server.present
    /\ \A u \in Users :
          server.memberRoles[u] \subseteq IF u \in server.members THEN RolesOf(server) ELSE {}
    /\ view \in [Users -> Guilds]
    /\ \A u \in Users : \A i \in DOMAIN inbox[u] : inbox[u][i].reply \in BOOLEAN
    /\ \A u \in Users : screen[u] # NoScreen =>
          /\ screen[u].draft \in IF screen[u].page = "role" THEN RoleRow ELSE Overwrite
          /\ screen[u].touched \subseteq ALL_PERMISSIONS \cup {"color"}
    /\ issued \subseteq Channels \cup Roles
    /\ clicks \in [Users -> Nat] /\ raced \subseteq Users
    /\ private \in [Users -> SUBSET Channels]

\* What a client must know of a channel: the overwrites of one that is synced are never
\* looked at, and those of one that lost its category are what the client had before.
Known(ch) == IF ch = NoRow \/ ~ch.isSynced THEN ch ELSE [ch EXCEPT !.overwrites = NoOverwrites]

KnownRole(row) == IF row = NoRow THEN row ELSE [row EXCEPT !.position = 0]

Agrees(g, h) ==
    /\ g.present /\ g.name = h.name
    /\ g.members = h.members /\ g.memberRoles = h.memberRoles
    /\ \A r \in Roles : KnownRole(g.roles[r]) = KnownRole(h.roles[r])
    /\ \A c \in Channels : Known(g.channels[c]) = Known(h.channels[c])

\* Whoever edits what at the same time, a client that has taken in every event and answer
\* shows the guild as the database has it, though the answers hold less than the events
\* (mutations.ts:404) and overtake them: it does unless two changes to one row changed
\* places, the Overview page wrote an old row back (channel-overview-section.tsx:104), or the
\* user ticked "Private Channel", which no answer takes back (channel-permissions-section.tsx:558).
Converged ==
    \A u \in Users :
        inbox[u] = << >> /\ u \notin raced /\ private[u] = {} =>
            IF u \in server.members THEN Agrees(view[u], server) ELSE ~view[u].present

\* A draft differs from what the client shows only in what the user has clicked on since
\* (channel-permissions-section.tsx:545, roles-settings-section.tsx:670, 686): saving it
\* undoes no change of another member that the user has been shown.  Exempt is who has ticked
\* "Private Channel", which changes the client's copy and saves it nowhere (558-562).
DraftFollowsView ==
    \A u \in Users : private[u] = {} =>
        LET s == screen[u] IN
        /\ OnPermissions(u) /\ s.target \in TargetsOf(Shown(view[u], s.id)) =>
              \A p \in ALL_PERMISSIONS \ s.touched :
                  /\ p \in s.draft.allow <=> p \in Shown(view[u], s.id)[s.target].allow
                  /\ p \in s.draft.deny <=> p \in Shown(view[u], s.id)[s.target].deny
        /\ On(u, "role") /\ s.id \in RolesOf(view[u]) =>
              /\ \A p \in ALL_PERMISSIONS \ s.touched :
                    p \in s.draft.permissions <=> p \in view[u].roles[s.id].permissions
              /\ "color" \in s.touched \/ s.draft.color = view[u].roles[s.id].color
=============================================================================
