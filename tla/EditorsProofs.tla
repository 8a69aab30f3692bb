---------------------------- MODULE EditorsProofs ----------------------------
(***************************************************************************)
(* Theorems about members who edit a guild at the same time, for every set *)
(* of users, roles, channels and permissions, whatever they ask for.       *)
(***************************************************************************)
EXTENDS Editors, SequenceTheorems, TLAPS

-----------------------------------------------------------------------------
(* Types *)

ChannelData ==
    ChannelRow
    \cup [name : Names, isSynced : BOOLEAN, ownerId : Users]
    \cup [name : Names, isSynced : BOOLEAN, ownerId : Users, overwrites : Overwrites]

MemberData == UNION {[D -> SUBSET Roles] : D \in SUBSET Users}

Ids == Target \cup Channels \cup {NoRow}

Data == ChannelData \cup MemberData \cup RoleRow \cup Names \cup Overwrites \cup Target \cup {NoRow}

Subjects == Target \cup Channels \cup {NoParent, "guild"}

\* What a message of each type says, of whom, and whether it can only be an answer.
FitsAs(type, id, data, reply) ==
    \/ type = "CHANNEL_UPDATE" /\ id \in Channels /\ data \in ChannelData
    \/ type = "CHANNEL_DELETE" /\ id \in Channels
    \/ type = "MEMBERS_UPDATE" /\ data \in MemberData
    \/ type = "MEMBER_LEAVE" /\ id \in Users
    \/ type = "ROLE_UPDATE" /\ id \in Roles /\ data \in RoleRow
    \/ type = "ROLE_DELETE" /\ id \in Roles
    \/ type = "GUILD_UPDATE" /\ data \in Names
    \/ type = "LEFT" /\ reply
    \/ type = "RENAMED" /\ id \in Channels /\ data \in ChannelRow /\ reply
    \/ type = "OVERWRITE" /\ id \in Channels /\ data \in Overwrites /\ reply
    \/ type = "OVERWRITE_DELETE" /\ id \in Channels /\ data \in Target /\ reply
    \/ type = "ROLE_CREATED" /\ id \in Roles /\ data \in RoleRow /\ reply

Fits(m) == FitsAs(m.type, m.id, m.data, m.reply)

Kinds ==
    {"CHANNEL_UPDATE", "CHANNEL_DELETE", "MEMBERS_UPDATE", "MEMBER_LEAVE", "ROLE_UPDATE", "ROLE_DELETE",
     "GUILD_UPDATE", "LEFT", "RENAMED", "OVERWRITE", "OVERWRITE_DELETE", "ROLE_CREATED"}

Messages ==
    {m \in [type : Kinds, id : Ids, data : Data, about : SUBSET Subjects, reply : BOOLEAN] : Fits(m)}

Touchable == SUBSET (ALL_PERMISSIONS \cup {"color"})

PermissionsPages ==
    [page : {"permissions"}, id : Channels, target : Target, selected : Overwrite,
     draft : Overwrite, touched : Touchable, saving : BOOLEAN]

RolePages ==
    [page : {"role"}, id : Roles, target : Roles, selected : RoleRow,
     draft : RoleRow, touched : Touchable, saving : BOOLEAN]

Screens == {NoScreen} \cup PermissionsPages \cup RolePages

\* Members alone hold roles, which exist.
RolesAreHeld(g) ==
    \A u \in Users : g.memberRoles[u] \subseteq IF u \in g.members THEN RolesOf(g) ELSE {}

\* The database: a parent is a row that has none; what follows it has no overwrites.
ChannelsAreOrdered(g) ==
    \A c \in ChannelsOf(g) : LET ch == g.channels[c] IN
        /\ ch.parent # NoParent => c \notin Categories /\ ch.parent \in ChannelsOf(g)
        /\ ch.isSynced /\ ch.parent # NoParent => ch.overwrites = NoOverwrites
        /\ c \in Categories => ~ch.isSynced

Coherent(g) == g.present /\ RolesAreHeld(g) /\ ChannelsAreOrdered(g)

Typed ==
    /\ server \in Guilds /\ Coherent(server)
    /\ view \in [Users -> Guilds]
    /\ inbox \in [Users -> Seq(Messages)]
    /\ screen \in [Users -> Screens]
    /\ issued \subseteq Channels \cup Roles
    /\ clicks \in [Users -> Nat]
    /\ raced \subseteq Users
    /\ private \in [Users -> SUBSET Channels]

LEMMA TypedScreen ==
    ASSUME NEW s \in Screens
    PROVE  /\ s.page = "permissions" => s \in PermissionsPages
           /\ s.page = "role" => s \in RolePages
BY DEF Screens, NoScreen, PermissionsPages, RolePages

LEMMA TypedGivesTypeOK == Typed => TypeOK
<1> SUFFICES ASSUME Typed PROVE TypeOK
  OBVIOUS
<1>1. \A u \in Users : \A i \in DOMAIN inbox[u] : inbox[u][i].reply \in BOOLEAN
  <2> TAKE u \in Users
  <2>1. inbox[u] \in Seq(Messages)
    BY DEF Typed
  <2> TAKE i \in DOMAIN inbox[u]
  <2>2. inbox[u][i] \in Messages
    BY <2>1, ElementOfSeq
  <2> QED
    BY <2>2 DEF Messages
<1>2. ASSUME NEW u \in Users, screen[u] # NoScreen
      PROVE  /\ screen[u].draft \in IF screen[u].page = "role" THEN RoleRow ELSE Overwrite
             /\ screen[u].touched \subseteq ALL_PERMISSIONS \cup {"color"}
  <2>1. screen[u] \in PermissionsPages \/ screen[u] \in RolePages
    BY <1>2 DEF Typed, Screens
  <2> QED
    BY <2>1 DEF PermissionsPages, RolePages, Touchable
<1> QED
  BY <1>1, <1>2 DEF Typed, TypeOK, Coherent, RolesAreHeld

-----------------------------------------------------------------------------
(* The operators of the store keep the type of a guild *)

LEMMA BlankType == Blank \in ChannelRow /\ NoOverwrites \in Overwrites
<1>1. (CHOOSE n \in Names : TRUE) \in Names
  BY EditorsAssumption
<1> QED
  BY <1>1, EditorsAssumption DEF Blank, ChannelRow, Overwrites, NoOverwrites

LEMMA MergeType ==
    ASSUME NEW old \in ChannelRow, NEW data \in ChannelData
    PROVE  Merge(old, data) \in ChannelRow
BY DEF Merge, ChannelData, ChannelRow

LEMMA UpsertType ==
    ASSUME NEW g, NEW rows \in Overwrites, NEW new \in Overwrites
    PROVE  At(g)!Upsert(rows, new) \in Overwrites
BY DEF At!Upsert, At!Target, Overwrites, Target

LEMMA UpsertAnyType ==
    ASSUME NEW g, NEW rows, NEW new \in Overwrites, \A t \in Target : rows[t] \in Overwrite \cup {NoRow}
    PROVE  At(g)!Upsert(rows, new) \in Overwrites
BY DEF At!Upsert, At!Target, Overwrites, Target

LEMMA UpsertChannelType ==
    ASSUME NEW g \in Guilds, NEW c \in Channels, NEW data \in ChannelData
    PROVE  UpsertChannel(g, c, data) \in Guilds
<1> DEFINE old == IF g.channels[c] = NoRow THEN Blank ELSE g.channels[c]
<1>1. old \in ChannelRow
  BY BlankType DEF Guilds
<1>2. Merge(old, data) \in ChannelRow
  BY <1>1, MergeType
<1>3. UpsertChannel(g, c, data) = [g EXCEPT !.channels = [g.channels EXCEPT ![c] = Merge(old, data)]]
  BY DEF UpsertChannel, Guilds
<1> HIDE DEF old
<1> QED
  BY <1>2, <1>3 DEF Guilds

LEMMA WithoutChannelType ==
    ASSUME NEW g \in Guilds, NEW c \in Channels
    PROVE  WithoutChannel(g, c) \in Guilds
<1> DEFINE row(d) == IF d = c \/ g.channels[d] = NoRow THEN NoRow
                     ELSE IF g.channels[d].parent = c THEN [g.channels[d] EXCEPT !.parent = NoParent]
                     ELSE g.channels[d]
<1>1. ASSUME NEW d \in Channels PROVE row(d) \in ChannelRow \cup {NoRow}
  BY DEF Guilds, ChannelRow
<1>2. WithoutChannel(g, c) = [g EXCEPT !.channels = [d \in Channels |-> row(d)]]
  BY DEF WithoutChannel
<1> HIDE DEF row
<1> QED
  BY <1>1, <1>2 DEF Guilds

LEMMA UpsertMembersType ==
    ASSUME NEW g \in Guilds, NEW data \in MemberData
    PROVE  UpsertMembers(g, data) \in Guilds
<1>1. PICK D \in SUBSET Users : data \in [D -> SUBSET Roles]
  BY DEF MemberData
<1>2. DOMAIN data = D
  BY <1>1
<1> QED
  BY <1>1, <1>2 DEF UpsertMembers, Guilds

LEMMA RemoveMemberType ==
    ASSUME NEW g \in Guilds, NEW u \in Users
    PROVE  RemoveMember(g, u) \in Guilds
BY DEF RemoveMember, Guilds

LEMMA UpsertRoleType ==
    ASSUME NEW g \in Guilds, NEW r \in Roles, NEW row \in RoleRow
    PROVE  UpsertRole(g, r, row) \in Guilds
BY DEF UpsertRole, Guilds

LEMMA RemoveRoleType ==
    ASSUME NEW g \in Guilds, NEW r \in Roles
    PROVE  RemoveRole(g, r) \in Guilds
BY DEF RemoveRole, Guilds

LEMMA NoGuildType ==
    ASSUME NEW g \in Guilds
    PROVE  NoGuild(g) \in Guilds
BY DEF NoGuild, Guilds

LEMMA MergeOverwriteType ==
    ASSUME NEW g \in Guilds, NEW c \in Channels, NEW row \in Overwrites
    PROVE  MergeOverwrite(g, c, row) \in Guilds
<1> DEFINE ch == g.channels[c]
<1>1. CASE ch = NoRow
  BY <1>1 DEF MergeOverwrite
<1>2. CASE ch # NoRow
  <2>1. ch \in ChannelRow
    BY <1>2 DEF Guilds
  <2>2. CASE ~(ch.isSynced /\ ch.parent # NoParent)
    <3>1. At(g)!Upsert(ch.overwrites, row) \in Overwrites
      BY <2>1, UpsertType DEF ChannelRow
    <3>2. MergeOverwrite(g, c, row) = [g EXCEPT !.channels = [g.channels EXCEPT
                ![c] = [ch EXCEPT !.overwrites = At(g)!Upsert(ch.overwrites, row)]]]
      BY <1>2, <2>2 DEF MergeOverwrite, Guilds
    <3>3. [ch EXCEPT !.overwrites = At(g)!Upsert(ch.overwrites, row)] \in ChannelRow
      BY <2>1, <3>1 DEF ChannelRow
    <3> QED
      BY <3>2, <3>3 DEF Guilds
  <2>3. CASE ch.isSynced /\ ch.parent # NoParent /\ ch.parent \notin ChannelsOf(g)
    <3>1. MergeOverwrite(g, c, row) = [g EXCEPT !.channels = [g.channels EXCEPT
                ![c] = [ch EXCEPT !.isSynced = FALSE]]]
      BY <1>2, <2>3 DEF MergeOverwrite, Guilds
    <3>2. [ch EXCEPT !.isSynced = FALSE] \in ChannelRow
      BY <2>1 DEF ChannelRow
    <3> QED
      BY <3>1, <3>2 DEF Guilds
  <2>4. CASE ch.isSynced /\ ch.parent # NoParent /\ ch.parent \in ChannelsOf(g)
    <3> DEFINE ows == At(g)!Upsert(g.channels[ch.parent].overwrites, row)
    <3>1. ows \in Overwrites
      <4>1. g.channels[ch.parent] \in ChannelRow
        BY <2>4 DEF Guilds, ChannelsOf
      <4> QED
        BY <4>1, UpsertType DEF ChannelRow
    <3>2. MergeOverwrite(g, c, row) = [g EXCEPT !.channels = [g.channels EXCEPT
                ![c] = [ch EXCEPT !.isSynced = FALSE, !.overwrites = ows]]]
      BY <1>2, <2>4 DEF MergeOverwrite, Guilds
    <3> HIDE DEF ows
    <3>3. [ch EXCEPT !.isSynced = FALSE, !.overwrites = ows] \in ChannelRow
      BY <2>1, <3>1 DEF ChannelRow
    <3> QED
      BY <3>2, <3>3 DEF Guilds
  <2> QED
    BY <2>2, <2>3, <2>4
<1> QED
  BY <1>1, <1>2

LEMMA DropOverwriteType ==
    ASSUME NEW g \in Guilds, NEW c \in Channels, NEW t \in Target
    PROVE  DropOverwrite(g, c, t) \in Guilds
<1>1. CASE g.channels[c] = NoRow
  BY <1>1 DEF DropOverwrite
<1>2. CASE g.channels[c] # NoRow
  <2> DEFINE ch == g.channels[c]
  <2>1. ch \in ChannelRow
    BY <1>2 DEF Guilds
  <2>2. DropOverwrite(g, c, t) = [g EXCEPT !.channels = [g.channels EXCEPT
              ![c] = [ch EXCEPT !.overwrites = [ch.overwrites EXCEPT ![t] = NoRow]]]]
    BY <1>2, <2>1 DEF DropOverwrite, Guilds, ChannelRow
  <2>3. [ch EXCEPT !.overwrites = [ch.overwrites EXCEPT ![t] = NoRow]] \in ChannelRow
    BY <2>1 DEF ChannelRow, Overwrites
  <2> QED
    BY <2>2, <2>3 DEF Guilds
<1> QED
  BY <1>1, <1>2

-----------------------------------------------------------------------------
(* What a client does with a message, by its type *)

Change(g, m) ==
    CASE m.type = "CHANNEL_UPDATE" -> UpsertChannel(g, m.id, m.data)
      [] m.type = "RENAMED" -> UpsertChannel(g, m.id, m.data)
      [] m.type = "CHANNEL_DELETE" -> WithoutChannel(g, m.id)
      [] m.type = "OVERWRITE" -> MergeOverwrite(g, m.id, m.data)
      [] m.type = "OVERWRITE_DELETE" -> DropOverwrite(g, m.id, m.data)
      [] m.type = "MEMBERS_UPDATE" -> UpsertMembers(g, m.data)
      [] m.type = "MEMBER_LEAVE" -> RemoveMember(g, m.id)
      [] m.type = "ROLE_UPDATE" -> UpsertRole(g, m.id, m.data)
      [] m.type = "ROLE_CREATED" -> UpsertRole(g, m.id, m.data)
      [] m.type = "ROLE_DELETE" -> RemoveRole(g, m.id)

\* A change to its lists is lost on a client without them.
LEMMA AppliedIs ==
    ASSUME NEW g, NEW m \in Messages
    PROVE  Applied(g, m) =
             IF m.type = "GUILD_UPDATE" THEN [g EXCEPT !.present = TRUE, !.name = m.data]
             ELSE IF m.type = "LEFT" THEN NoGuild(g)
             ELSE IF HasLists(g) THEN Change(g, m) ELSE g
<1>1. Fits(m) /\ m.reply \in BOOLEAN
  BY DEF Messages
<1> HIDE DEF HasLists
<1>2. CASE m.type = "CHANNEL_UPDATE"
  BY <1>1, <1>2 DEF Applied, OnAnswer, OnEvent, Change
<1>3. CASE m.type = "CHANNEL_DELETE"
  BY <1>1, <1>3 DEF Applied, OnAnswer, OnEvent, Change
<1>4. CASE m.type = "MEMBERS_UPDATE"
  BY <1>1, <1>4 DEF Applied, OnAnswer, OnEvent, Change
<1>5. CASE m.type = "MEMBER_LEAVE"
  BY <1>1, <1>5 DEF Applied, OnAnswer, OnEvent, Change
<1>6. CASE m.type = "ROLE_UPDATE"
  BY <1>1, <1>6 DEF Applied, OnAnswer, OnEvent, Change
<1>7. CASE m.type = "ROLE_DELETE"
  BY <1>1, <1>7 DEF Applied, OnAnswer, OnEvent, Change
<1>8. CASE m.type = "GUILD_UPDATE"
  BY <1>1, <1>8 DEF Applied, OnAnswer, OnEvent, Change
<1>9. CASE m.type = "LEFT" /\ m.reply
  BY <1>1, <1>9 DEF Applied, OnAnswer, OnEvent, Change
<1>10. CASE m.type = "RENAMED" /\ m.reply
  BY <1>1, <1>10 DEF Applied, OnAnswer, OnEvent, Change
<1>11. CASE m.type = "OVERWRITE" /\ m.reply
  BY <1>1, <1>11 DEF Applied, OnAnswer, OnEvent, Change
<1>12. CASE m.type = "OVERWRITE_DELETE" /\ m.reply
  BY <1>1, <1>12 DEF Applied, OnAnswer, OnEvent, Change
<1>13. CASE m.type = "ROLE_CREATED" /\ m.reply
  BY <1>1, <1>13 DEF Applied, OnAnswer, OnEvent, Change
<1> QED
  BY <1>1, <1>2, <1>3, <1>4, <1>5, <1>6, <1>7, <1>8, <1>9, <1>10, <1>11, <1>12, <1>13 DEF Fits, FitsAs

LEMMA ChangeType ==
    ASSUME NEW g \in Guilds, NEW m \in Messages, m.type \notin {"GUILD_UPDATE", "LEFT"}
    PROVE  Change(g, m) \in Guilds
<1>1. Fits(m)
  BY DEF Messages
<1>2. CASE m.type = "CHANNEL_UPDATE"
  <2>1. m.id \in Channels /\ m.data \in ChannelData
    BY <1>1, <1>2 DEF Fits, FitsAs
  <2> QED
    BY <1>2, <2>1, UpsertChannelType DEF Change
<1>3. CASE m.type = "CHANNEL_DELETE"
  <2>1. m.id \in Channels
    BY <1>1, <1>3 DEF Fits, FitsAs
  <2> QED
    BY <1>3, <2>1, WithoutChannelType DEF Change
<1>4. CASE m.type = "MEMBERS_UPDATE"
  <2>1. m.data \in MemberData
    BY <1>1, <1>4 DEF Fits, FitsAs
  <2> QED
    BY <1>4, <2>1, UpsertMembersType DEF Change
<1>5. CASE m.type = "MEMBER_LEAVE"
  <2>1. m.id \in Users
    BY <1>1, <1>5 DEF Fits, FitsAs
  <2> QED
    BY <1>5, <2>1, RemoveMemberType DEF Change
<1>6. CASE m.type \in {"ROLE_UPDATE", "ROLE_CREATED"}
  <2>1. m.id \in Roles /\ m.data \in RoleRow
    BY <1>1, <1>6 DEF Fits, FitsAs
  <2>2. Change(g, m) = UpsertRole(g, m.id, m.data)
    BY <1>6 DEF Change
  <2> QED
    BY <2>1, <2>2, UpsertRoleType
<1>7. CASE m.type = "ROLE_DELETE"
  <2>1. m.id \in Roles
    BY <1>1, <1>7 DEF Fits, FitsAs
  <2> QED
    BY <1>7, <2>1, RemoveRoleType DEF Change
<1>8. CASE m.type = "RENAMED"
  <2>1. m.id \in Channels /\ m.data \in ChannelData
    BY <1>1, <1>8 DEF Fits, FitsAs, ChannelData
  <2> QED
    BY <1>8, <2>1, UpsertChannelType DEF Change
<1>9. CASE m.type = "OVERWRITE"
  <2>1. m.id \in Channels /\ m.data \in Overwrites
    BY <1>1, <1>9 DEF Fits, FitsAs
  <2> QED
    BY <1>9, <2>1, MergeOverwriteType DEF Change
<1>10. CASE m.type = "OVERWRITE_DELETE"
  <2>1. m.id \in Channels /\ m.data \in Target
    BY <1>1, <1>10 DEF Fits, FitsAs
  <2> QED
    BY <1>10, <2>1, DropOverwriteType DEF Change
<1> QED
  BY <1>1, <1>2, <1>3, <1>4, <1>5, <1>6, <1>7, <1>8, <1>9, <1>10 DEF Fits, FitsAs

LEMMA AppliedType ==
    ASSUME NEW g \in Guilds, NEW m \in Messages
    PROVE  Applied(g, m) \in Guilds
<1>1. CASE m.type = "GUILD_UPDATE"
  <2>1. m.data \in Names
    BY <1>1 DEF Messages, Fits, FitsAs
  <2>2. Applied(g, m) = [g EXCEPT !.present = TRUE, !.name = m.data]
    BY <1>1, AppliedIs
  <2> QED
    BY <2>1, <2>2 DEF Guilds
<1>2. CASE m.type = "LEFT"
  BY <1>2, AppliedIs, NoGuildType
<1>3. CASE m.type \notin {"GUILD_UPDATE", "LEFT"}
  BY <1>3, AppliedIs, ChangeType
<1> QED
  BY <1>1, <1>2, <1>3

-----------------------------------------------------------------------------
(* What guild-service sends *)

LEMMA Marked ==
    ASSUME NEW type, NEW id, NEW data, NEW about, NEW old, NEW new
    PROVE  [[type |-> type, id |-> id, data |-> data, about |-> about, reply |-> old] EXCEPT !.reply = new]
             = [type |-> type, id |-> id, data |-> data, about |-> about, reply |-> new]
OBVIOUS

LEMMA MessageParts ==
    ASSUME NEW type, NEW id, NEW data, NEW about
    PROVE  /\ Reply(Message(type, id, data, about))
                = [type |-> type, id |-> id, data |-> data, about |-> about, reply |-> TRUE]
           /\ Event(Message(type, id, data, about))
                = [type |-> type, id |-> id, data |-> data, about |-> about, reply |-> FALSE]
<1>1. PICK no : no = FALSE
  OBVIOUS
<1>2. PICK yes : yes = TRUE
  OBVIOUS
<1>3. [[type |-> type, id |-> id, data |-> data, about |-> about, reply |-> no] EXCEPT !.reply = yes]
        = [type |-> type, id |-> id, data |-> data, about |-> about, reply |-> yes]
  BY Marked
<1>4. [[type |-> type, id |-> id, data |-> data, about |-> about, reply |-> no] EXCEPT !.reply = no]
        = [type |-> type, id |-> id, data |-> data, about |-> about, reply |-> no]
  BY Marked
<1>5. Reply(Message(type, id, data, about))
        = [[type |-> type, id |-> id, data |-> data, about |-> about, reply |-> no] EXCEPT !.reply = yes]
  BY <1>1, <1>2, Zenon DEF Reply, Message
<1>6. Event(Message(type, id, data, about))
        = [[type |-> type, id |-> id, data |-> data, about |-> about, reply |-> no] EXCEPT !.reply = no]
  BY <1>1, Zenon DEF Event, Message
<1> QED
  BY <1>1, <1>2, <1>3, <1>4, <1>5, <1>6, Zenon

Answers(type, id, data) == FitsAs(type, id, data, TRUE)
Tells(type, id, data) == FitsAs(type, id, data, FALSE)

LEMMA MessageType ==
    ASSUME NEW type \in Kinds, NEW id \in Ids, NEW data \in Data, NEW about \in SUBSET Subjects,
           NEW reply \in BOOLEAN, FitsAs(type, id, data, reply)
    PROVE  [type |-> type, id |-> id, data |-> data, about |-> about, reply |-> reply] \in Messages
BY DEF Messages, Fits

\* A message is typed by what it says; an answer can be of any type.
LEMMA BothTyped ==
    ASSUME NEW type \in Kinds, NEW id \in Ids, NEW data \in Data, NEW about \in SUBSET Subjects
    PROVE  /\ Answers(type, id, data) => Reply(Message(type, id, data, about)) \in Messages
           /\ Tells(type, id, data) => Event(Message(type, id, data, about)) \in Messages
<1>1. PICK yes \in BOOLEAN : yes = TRUE
  OBVIOUS
<1>2. PICK no \in BOOLEAN : no = FALSE
  OBVIOUS
<1>3. /\ Reply(Message(type, id, data, about))
           = [type |-> type, id |-> id, data |-> data, about |-> about, reply |-> yes]
      /\ Event(Message(type, id, data, about))
           = [type |-> type, id |-> id, data |-> data, about |-> about, reply |-> no]
  BY <1>1, <1>2, MessageParts, Zenon
<1>4. /\ Answers(type, id, data) => FitsAs(type, id, data, yes)
      /\ Tells(type, id, data) => FitsAs(type, id, data, no)
  BY <1>1, <1>2, Zenon DEF Answers, Tells
<1>5. FitsAs(type, id, data, yes)
      => [type |-> type, id |-> id, data |-> data, about |-> about, reply |-> yes] \in Messages
  BY MessageType
<1>6. FitsAs(type, id, data, no)
      => [type |-> type, id |-> id, data |-> data, about |-> about, reply |-> no] \in Messages
  BY MessageType
<1> QED
  BY <1>3, <1>4, <1>5, <1>6, Zenon

LEMMA HandleType ==
    ASSUME Typed, NEW u \in Users, NEW g \in Guilds, Coherent(g), NEW event, NEW reply,
           Event(event) \in Messages, Reply(reply) \in Messages,
           Handle(u, g, event, reply), screen' \in [Users -> Screens],
           issued' \subseteq Channels \cup Roles
    PROVE  Typed'
<1>1. inbox' \in [Users -> Seq(Messages)]
  <2>1. ASSUME NEW v \in Users
        PROVE  /\ Append(inbox[v], Reply(reply)) \in Seq(Messages)
               /\ Append(inbox[v], Event(event)) \in Seq(Messages)
               /\ inbox[v] \in Seq(Messages)
    <3>1. inbox[v] \in Seq(Messages)
      BY DEF Typed
    <3> QED
      BY <3>1, AppendProperties
  <2> QED
    BY <2>1 DEF Handle
<1>2. clicks' \in [Users -> Nat]
  BY DEF Typed, Handle
<1>3. server' \in Guilds /\ Coherent(server)'
  BY DEF Handle, Coherent, RolesAreHeld, ChannelsAreOrdered, RolesOf, ChannelsOf
<1> QED
  BY <1>1, <1>2, <1>3 DEF Typed, Handle

-----------------------------------------------------------------------------
(* The requests: what each makes of the guild and whom it tells *)

Request(u) == OverwriteRequest(u) \/ ChannelRequest(u) \/ RoleRequest(u) \/ MemberRequest(u)

OnlySaves(u) == screen' = screen \/ (screen[u] # NoScreen /\ Saving(u))

Creates(u, c, ch) ==
    /\ c \notin issued /\ issued' = issued \cup {c}
    /\ ch.parent # NoParent => c \notin Categories /\ ch.parent \in ChannelsOf(server)
    /\ ch.isSynced => ch.parent # NoParent /\ ch.overwrites = NoOverwrites
    /\ Told(u, [server EXCEPT !.channels[c] = ch],
            Message("CHANNEL_UPDATE", c, ch, {c, ch.parent}))

Deletes(u, c) ==
    /\ c \in ChannelsOf(server) /\ issued' = issued
    /\ Told(u, WithoutChannel(server, c), Message("CHANNEL_DELETE", c, NoRow, {c}))

Renames(u, c, n) ==
    LET ch == [server.channels[c] EXCEPT !.name = n] IN
    /\ c \in ChannelsOf(server) \cap ChannelsOf(view[u]) /\ issued' = issued
    /\ \A i \in DOMAIN inbox[u] : ~inbox[u][i].reply
    /\ Handle(u, [server EXCEPT !.channels[c] = ch], Message("CHANNEL_UPDATE", c, Bare(ch), {c}),
              Message("RENAMED", c, [view[u].channels[c] EXCEPT !.name = n], {c}))

SetsOverwrite(u, c, row) ==
    /\ c \in ChannelsOf(server) \cap ChannelsOf(view[u]) /\ issued' = issued
    /\ Handle(u, [server EXCEPT !.channels[c] = Overwritten(c, row)],
              Message("CHANNEL_UPDATE", c, WithOverwrites(Overwritten(c, row)), {c}),
              Message("OVERWRITE", c, row, {c, view[u].channels[c].parent}))

DropsOverwrite(u, c, t) ==
    LET ch == [server.channels[c] EXCEPT !.overwrites[t] = NoRow] IN
    /\ c \in ChannelsOf(server) /\ t \in TargetsOf(server.channels[c].overwrites) /\ issued' = issued
    /\ Handle(u, [server EXCEPT !.channels[c] = ch],
              Message("CHANNEL_UPDATE", c, WithOverwrites(ch), {c}),
              Message("OVERWRITE_DELETE", c, t, {c}))

Syncs(u, c) ==
    LET ch == [server.channels[c] EXCEPT !.isSynced = TRUE, !.overwrites = NoOverwrites] IN
    /\ c \in ChannelsOf(server) /\ server.channels[c].parent # NoParent /\ issued' = issued
    /\ Told(u, [server EXCEPT !.channels[c] = ch], Message("CHANNEL_UPDATE", c, Bare(ch), {c}))

RenamesGuild(u, n) ==
    /\ u = Owner /\ issued' = issued
    /\ Told(u, [server EXCEPT !.name = n], Message("GUILD_UPDATE", NoRow, n, {"guild"}))

Leaves(u) ==
    /\ u \in server.members \ {Owner} /\ issued' = issued
    /\ Handle(u, RemoveMember(server, u), Message("MEMBER_LEAVE", u, NoRow, {u}),
              Message("LEFT", u, NoRow, Target \cup Channels \cup {"guild"}))

\* The roles of g, of which some have moved, but for r.
Moved(g, h, r) ==
    \A q \in Roles \ {r} :
        IF g.roles[q] = NoRow THEN h.roles[q] = NoRow
        ELSE \E n \in Nat : h.roles[q] = [g.roles[q] EXCEPT !.position = n]

CreatesRole(u, r, row, g) ==
    /\ r \notin issued /\ issued' = issued \cup {r}
    /\ g \in Guilds /\ g = [server EXCEPT !.roles = g.roles] /\ g.roles[r] = row /\ Moved(server, g, r)
    /\ Handle(u, g, Message("ROLE_UPDATE", r, row, {r}), Message("ROLE_CREATED", r, row, {r}))

SavesRole(u, r, row) ==
    /\ r \in RolesOf(server) /\ issued' = issued
    /\ Told(u, UpsertRole(server, r, row), Message("ROLE_UPDATE", r, row, {r}))

DeletesRole(u, r) ==
    /\ issued' = issued
    /\ Told(u, RemoveRole(server, r), Message("ROLE_DELETE", r, NoRow, {r}))

SetsMembers(u, data) ==
    /\ issued' = issued
    /\ DOMAIN data \subseteq server.members
    /\ \A v \in DOMAIN data : data[v] \subseteq RolesOf(server)
    /\ Told(u, UpsertMembers(server, data),
            Message("MEMBERS_UPDATE", NoRow, data, DOMAIN data \cup UNION {data[v] : v \in DOMAIN data}))

Asks(u) ==
    \/ \E c \in Channels, ch \in ChannelRow : Creates(u, c, ch)
    \/ \E c \in Channels : Deletes(u, c) \/ Syncs(u, c)
    \/ \E c \in Channels, n \in Names : Renames(u, c, n)
    \/ \E c \in Channels, row \in Overwrites : SetsOverwrite(u, c, row)
    \/ \E c \in Channels, t \in Target : DropsOverwrite(u, c, t)
    \/ \E n \in Names : RenamesGuild(u, n)
    \/ Leaves(u)
    \/ \E r \in Roles, row \in RoleRow : SavesRole(u, r, row) \/ \E g : CreatesRole(u, r, row, g)
    \/ \E r \in Roles : DeletesRole(u, r)
    \/ \E data \in MemberData : SetsMembers(u, data)

LEMMA CreateChannelAsks ==
    ASSUME Typed, NEW u \in Users, NEW c \in Channels, NEW parent \in Categories \cup {NoParent},
           NEW isPrivate \in BOOLEAN, parent # NoParent => c \notin Categories,
           CreateChannel(u, c, parent, isPrivate)
    PROVE  \E ch \in ChannelRow : Creates(u, c, ch)
<1> DEFINE rows == At(server)!InitialRows(parent, isPrivate)
           ch == [name |-> Blank.name, parent |-> parent, isSynced |-> rows = NoOverwrites,
                  ownerId |-> u, overwrites |-> rows]
<1>1. /\ rows \in Overwrites
      /\ parent = NoParent => rows # NoOverwrites
  <2>1. [allow |-> {}, deny |-> {}] \in Overwrite /\ [allow |-> {}, deny |-> {VIEW_CHANNELS}] \in Overwrite
    BY EditorsAssumption DEF Overwrite, Mask
  <2>2. Everyone \in Target /\ NoRow \notin Overwrite
    BY PermissionsAssumption DEF Target, Overwrite, Mask
  <2>3. ASSUME NEW ow \in Overwrite
        PROVE  At(server)!One(Everyone, ow) \in Overwrites /\ At(server)!One(Everyone, ow) # NoOverwrites
    <3>1. At(server)!One(Everyone, ow) = [NoOverwrites EXCEPT ![Everyone] = ow]
      BY DEF At!One, At!NoOverwrites, At!Target, NoOverwrites, Target
    <3>2. [NoOverwrites EXCEPT ![Everyone] = ow][Everyone] = ow /\ NoOverwrites[Everyone] = NoRow
      BY <2>2 DEF NoOverwrites
    <3>3. [NoOverwrites EXCEPT ![Everyone] = ow] \in Overwrites
      BY <2>2 DEF NoOverwrites, Overwrites
    <3> QED
      BY <2>2, <3>1, <3>2, <3>3
  <2>4. /\ parent = NoParent => rows = At(server)!One(Everyone, [allow |-> {}, deny |-> {}])
        /\ parent # NoParent /\ isPrivate => rows = At(server)!One(Everyone, [allow |-> {}, deny |-> {VIEW_CHANNELS}])
        /\ parent # NoParent /\ ~isPrivate => rows = NoOverwrites
    BY DEF At!InitialRows, At!NoOverwrites, At!Target, NoOverwrites, Target
  <2> QED
    BY <2>1, <2>3, <2>4, BlankType
<1>2. parent # NoParent => parent \in ChannelsOf(server)
  <2>1. parent # NoParent => MANAGE_CHANNELS \in At(server)!EffectivePermission(u, parent)
    BY DEF CreateChannel, MayOn
  <2>2. parent \notin At(server)!Existing => At(server)!EffectivePermission(u, parent) = {}
    BY DEF At!EffectivePermission, At!Exists
  <2>3. At(server)!Existing = ChannelsOf(server)
    BY DEF At!Existing, ChannelsOf
  <2> QED
    BY <2>1, <2>2, <2>3
<1> HIDE DEF rows
<1>3. ch \in ChannelRow
  BY <1>1, BlankType DEF ChannelRow
<1>4. /\ c \notin issued /\ issued' = issued \cup {c}
      /\ Told(u, [server EXCEPT !.channels[c] = ch], Message("CHANNEL_UPDATE", c, ch, {c, parent}))
  BY DEF CreateChannel, rows
<1>5. ch.parent = parent /\ ch.isSynced = (rows = NoOverwrites) /\ ch.overwrites = rows
  OBVIOUS
<1> HIDE DEF ch
<1>6. Creates(u, c, ch)
  BY <1>1, <1>2, <1>4, <1>5 DEF Creates
<1> QED
  BY <1>3, <1>6

LEMMA NewChannelAsks ==
    ASSUME Typed, NEW u \in Users, NEW c \in Channels, NewCategory(u, c) \/ NewChannel(u, c)
    PROVE  Asks(u)
<1>1. CASE NewCategory(u, c)
  <2>1. PICK isPrivate \in BOOLEAN : CreateChannel(u, c, NoParent, isPrivate)
    BY <1>1 DEF NewCategory
  <2>2. \E ch \in ChannelRow : Creates(u, c, ch)
    BY <2>1, CreateChannelAsks
  <2> QED
    BY <2>2 DEF Asks
<1>2. CASE NewChannel(u, c)
  <2>1. PICK isPrivate \in BOOLEAN, parent \in Categories \cup {NoParent} :
            c \notin Categories /\ CreateChannel(u, c, parent, isPrivate)
    BY <1>2 DEF NewChannel
  <2>2. \E ch \in ChannelRow : Creates(u, c, ch)
    BY <2>1, CreateChannelAsks
  <2> QED
    BY <2>2 DEF Asks
<1> QED
  BY <1>1, <1>2

LEMMA ChannelRequestAsks ==
    ASSUME Typed, NEW u \in Users, ChannelRequest(u)
    PROVE  Asks(u) /\ OnlySaves(u)
<1>1. PICK c \in Channels :
          NewCategory(u, c) \/ NewChannel(u, c) \/ RemoveChannel(u, c)
          \/ \E n \in Names : SaveOverview(u, c, n)
  BY DEF ChannelRequest
<1>2. CASE NewCategory(u, c) \/ NewChannel(u, c)
  <2>1. Asks(u)
    BY <1>2, NewChannelAsks
  <2> QED
    BY <1>2, <2>1 DEF NewCategory, NewChannel, CreateChannel, OnlySaves
<1>3. CASE RemoveChannel(u, c)
  <2>1. Deletes(u, c) /\ UNCHANGED screen
    BY <1>3 DEF RemoveChannel, DeleteChannel, Deletes
  <2> QED
    BY <2>1 DEF Asks, OnlySaves
<1>4. CASE \E n \in Names : SaveOverview(u, c, n)
  <2>1. PICK n \in Names : SaveOverview(u, c, n)
    BY <1>4
  <2>2. Renames(u, c, n) /\ UNCHANGED screen
    BY <2>1 DEF SaveOverview, UpdateChannel, Renames, Offers
  <2> QED
    BY <2>2 DEF Asks, OnlySaves
<1> QED
  BY <1>1, <1>2, <1>3, <1>4

LEMMA UpdateOverwriteAsks ==
    ASSUME Typed, NEW u \in Users, NEW c \in Channels, NEW t \in Target, NEW ow \in Overwrite,
           c \in ChannelsOf(view[u]), UpdateOverwrite(u, c, t, ow)
    PROVE  \E row \in Overwrites : SetsOverwrite(u, c, row)
<1> DEFINE row == [NoOverwrites EXCEPT ![t] = At(server)!Cleaned(ow)]
<1>1. At(server)!Cleaned(ow) \in Overwrite
  BY DEF At!Cleaned, Overwrite, Mask
<1>2. row \in Overwrites
  BY <1>1 DEF Overwrites, NoOverwrites
<1>3. SetsOverwrite(u, c, row)
  BY DEF UpdateOverwrite, SetsOverwrite
<1> QED
  BY <1>2, <1>3

LEMMA OverwriteRequestAsks ==
    ASSUME Typed, NEW u \in Users, OverwriteRequest(u)
    PROVE  Asks(u) /\ OnlySaves(u)
<1>1. OnPermissions(u) => /\ screen[u] \in PermissionsPages /\ screen[u].id \in ChannelsOf(view[u])
                           /\ screen[u] # NoScreen
  BY TypedScreen DEF OnPermissions, On, Typed, NoScreen
<1>2. CASE SavePermissions(u)
  <2>1. /\ screen[u].id \in Channels /\ screen[u].target \in Target /\ screen[u].draft \in Overwrite
        /\ screen[u].id \in ChannelsOf(view[u])
    BY <1>1, <1>2 DEF SavePermissions, PermissionsPages
  <2>2. \E row \in Overwrites : SetsOverwrite(u, screen[u].id, row)
    BY <1>2, <2>1, UpdateOverwriteAsks DEF SavePermissions
  <2> QED
    BY <1>1, <1>2, <2>1, <2>2 DEF Asks, OnlySaves, SavePermissions
<1>3. CASE SyncNow(u)
  <2>1. screen[u].id \in Channels
    BY <1>1, <1>3 DEF SyncNow, PermissionsPages
  <2>2. Syncs(u, screen[u].id) /\ UNCHANGED screen
    BY <1>3 DEF SyncNow, SyncChannel, Syncs
  <2> QED
    BY <2>1, <2>2 DEF Asks, OnlySaves
<1>4. CASE \E t \in TargetInputs : AddTarget(u, t)
  <2>1. PICK t \in TargetInputs : AddTarget(u, t)
    BY <1>4
  <2>2. t \in Target /\ [allow |-> {}, deny |-> {}] \in Overwrite
    BY EditorsAssumption DEF Overwrite, Mask
  <2>3. screen[u].id \in Channels /\ screen[u].id \in ChannelsOf(view[u])
    BY <1>1, <2>1 DEF AddTarget, PermissionsPages
  <2>4. \E row \in Overwrites : SetsOverwrite(u, screen[u].id, row)
    BY <2>1, <2>2, <2>3, UpdateOverwriteAsks DEF AddTarget
  <2> QED
    BY <1>1, <2>1, <2>3, <2>4 DEF Asks, OnlySaves, AddTarget
<1>5. CASE \E t \in TargetInputs : RemoveTarget(u, t)
  <2>1. PICK t \in TargetInputs : RemoveTarget(u, t)
    BY <1>5
  <2>2. screen[u].id \in Channels /\ t \in Target
    BY <1>1, <2>1, EditorsAssumption DEF RemoveTarget, PermissionsPages
  <2>3. DropsOverwrite(u, screen[u].id, t) /\ UNCHANGED screen
    BY <2>1 DEF RemoveTarget, DeleteOverwrite, DropsOverwrite
  <2> QED
    BY <2>2, <2>3 DEF Asks, OnlySaves
<1> QED
  BY <1>2, <1>3, <1>4, <1>5 DEF OverwriteRequest

LEMMA SavedType ==
    ASSUME NEW old \in RoleRow, NEW r, NEW draft \in RoleRow
    PROVE  Saved(old, r, draft) \in RoleRow
BY DEF Saved, RoleRow

LEMMA CreateRoleAsks ==
    ASSUME Typed, NEW u \in Users, NEW r \in Roles, CreateRole(u, r)
    PROVE  (\E row \in RoleRow : \E g : CreatesRole(u, r, row, g)) /\ UNCHANGED screen
<1>1. PICK lowest \in {server.roles[q].position : q \in RolesOf(server)} :
        LET row == [permissions |-> {}, color |-> NoColor, position |-> lowest + 1]
            m == Message("ROLE_UPDATE", r, row, {r})
        IN  /\ u = Owner /\ r \notin issued
            /\ \A q \in RolesOf(server) : lowest <= server.roles[q].position
            /\ issued' = issued \cup {r}
            /\ Handle(u, [server EXCEPT !.roles = [q \in Roles |->
                              IF q = r THEN row ELSE AboveLowest(@[q], lowest)]],
                      m, [m EXCEPT !.type = "ROLE_CREATED"])
            /\ UNCHANGED screen
  BY DEF CreateRole
<1> DEFINE row == [permissions |-> {}, color |-> NoColor, position |-> lowest + 1]
           rows == [q \in Roles |-> IF q = r THEN row ELSE AboveLowest(server.roles[q], lowest)]
           g == [server EXCEPT !.roles = rows]
<1>2. server \in Guilds /\ \A q \in Roles : server.roles[q] # NoRow => server.roles[q] \in RoleRow
  BY DEF Typed, Guilds
<1>3. lowest \in Nat
  BY <1>2 DEF RolesOf, RoleRow
<1>4. row \in RoleRow
  BY <1>3 DEF RoleRow, Mask
<1>5. ASSUME NEW old \in RoleRow
      PROVE  \E n \in Nat : AboveLowest(old, lowest) = [old EXCEPT !.position = n]
  <2>1. old # NoRow /\ old.position \in Nat /\ old = [old EXCEPT !.position = old.position]
    BY RowAssumption DEF RoleRow
  <2>2. CASE old.position > lowest
    <3>1. AboveLowest(old, lowest) = [old EXCEPT !.position = old.position + 1]
      BY <2>1, <2>2 DEF AboveLowest
    <3> QED
      BY <2>1, <3>1
  <2>3. CASE ~(old.position > lowest)
    BY <2>1, <2>3 DEF AboveLowest
  <2> QED
    BY <2>2, <2>3
<1>6. g \in Guilds /\ g = [server EXCEPT !.roles = g.roles] /\ g.roles = rows /\ rows[r] = row
  <2>1. \A q \in Roles : AboveLowest(server.roles[q], lowest) \in RoleRow \cup {NoRow}
    <3> SUFFICES ASSUME NEW q \in Roles PROVE AboveLowest(server.roles[q], lowest) \in RoleRow \cup {NoRow}
      OBVIOUS
    <3>1. CASE server.roles[q] = NoRow
      BY <3>1 DEF AboveLowest
    <3>2. CASE server.roles[q] # NoRow
      <4>1. server.roles[q] \in RoleRow
        BY <1>2, <3>2
      <4>2. PICK n \in Nat : AboveLowest(server.roles[q], lowest) = [server.roles[q] EXCEPT !.position = n]
        BY <1>5, <4>1
      <4> QED
        BY <4>1, <4>2 DEF RoleRow
    <3> QED
      BY <3>1, <3>2
  <2>2. rows \in [Roles -> RoleRow \cup {NoRow}]
    BY <1>4, <2>1
  <2>3. rows[r] = row
    OBVIOUS
  <2> HIDE DEF rows
  <2>4. g \in Guilds /\ g = [server EXCEPT !.roles = g.roles] /\ g.roles = rows
    BY <1>2, <2>2 DEF Guilds
  <2> QED
    BY <2>3, <2>4
<1>7. Moved(server, g, r)
  <2> SUFFICES ASSUME NEW q \in Roles, q # r
               PROVE  IF server.roles[q] = NoRow THEN rows[q] = NoRow
                      ELSE \E n \in Nat : rows[q] = [server.roles[q] EXCEPT !.position = n]
    BY <1>6 DEF Moved
  <2>1. rows[q] = AboveLowest(server.roles[q], lowest)
    OBVIOUS
  <2>2. CASE server.roles[q] = NoRow
    BY <2>1, <2>2 DEF AboveLowest
  <2>3. CASE server.roles[q] # NoRow
    <3>1. server.roles[q] \in RoleRow
      BY <1>2, <2>3
    <3> HIDE DEF rows
    <3> QED
      BY <1>5, <2>1, <2>3, <3>1
  <2> QED
    BY <2>2, <2>3
<1>8. Message("ROLE_CREATED", r, row, {r}) = [Message("ROLE_UPDATE", r, row, {r}) EXCEPT !.type = "ROLE_CREATED"]
  <2>1. PICK no : no = FALSE
    OBVIOUS
  <2>2. [[type |-> "ROLE_UPDATE", id |-> r, data |-> row, about |-> {r}, reply |-> no] EXCEPT !.type = "ROLE_CREATED"]
          = [type |-> "ROLE_CREATED", id |-> r, data |-> row, about |-> {r}, reply |-> no]
    OBVIOUS
  <2> QED
    BY <2>1, <2>2, Zenon DEF Message
<1>9. Handle(u, g, Message("ROLE_UPDATE", r, row, {r}), Message("ROLE_CREATED", r, row, {r}))
  BY <1>1, <1>8
<1>10. r \notin issued /\ issued' = issued \cup {r} /\ UNCHANGED screen
  BY <1>1
<1> HIDE DEF g, rows, row
<1>11. CreatesRole(u, r, row, g)
  BY <1>6, <1>7, <1>9, <1>10 DEF CreatesRole
<1> QED
  BY <1>4, <1>10, <1>11

LEMMA RoleRequestAsks ==
    ASSUME Typed, NEW u \in Users, RoleRequest(u)
    PROVE  Asks(u) /\ OnlySaves(u)
<1>1. On(u, "role") => screen[u] \in RolePages /\ screen[u] # NoScreen
  BY TypedScreen DEF On, Typed, NoScreen
<1>2. CASE SaveRole(u)
  <2> DEFINE r == screen[u].id
             row == Saved(server.roles[r], r, screen[u].draft)
  <2>1. r \in Roles /\ screen[u].draft \in RoleRow
    BY <1>1, <1>2 DEF SaveRole, RolePages
  <2>2. r \in RolesOf(server)
    BY <1>2 DEF SaveRole, UpdateRole
  <2>3. server.roles[r] \in RoleRow
    BY <2>2 DEF RolesOf, Typed, Guilds
  <2>4. row \in RoleRow
    BY <2>1, <2>3, SavedType
  <2>5. SavesRole(u, r, row) /\ Saving(u) /\ screen[u] # NoScreen
    BY <1>1, <1>2, <2>2 DEF SaveRole, UpdateRole, SavesRole
  <2> QED
    BY <2>1, <2>4, <2>5 DEF Asks, OnlySaves
<1>3. CASE RemoveSelectedRole(u)
  <2>1. screen[u].id \in Roles
    BY <1>1, <1>3 DEF RemoveSelectedRole, RolePages
  <2>2. DeletesRole(u, screen[u].id) /\ UNCHANGED screen
    BY <1>3 DEF RemoveSelectedRole, DeleteRole, DeletesRole
  <2> QED
    BY <2>1, <2>2 DEF Asks, OnlySaves
<1>4. CASE \E r \in Roles : NewRole(u, r)
  <2>1. PICK r \in Roles : CreateRole(u, r)
    BY <1>4 DEF NewRole
  <2> QED
    BY <2>1, CreateRoleAsks DEF Asks, OnlySaves
<1> QED
  BY <1>2, <1>3, <1>4 DEF RoleRequest

LEMMA MemberRequestAsks ==
    ASSUME Typed, NEW u \in Users, MemberRequest(u)
    PROVE  Asks(u) /\ OnlySaves(u)
<1>1. server \in Guilds /\ RolesAreHeld(server)
  BY DEF Typed, Coherent
<1>2. CASE AddMembers(u)
  <2>1. PICK assignees : AssignRole(u, screen[u].id, assignees)
    BY <1>2 DEF AddMembers
  <2> DEFINE r == screen[u].id
             D == {w \in assignees : r \notin server.memberRoles[w]}
             data == [v \in D |-> server.memberRoles[v] \cup {r}]
  <2>2. r \in RolesOf(server) /\ assignees \subseteq server.members /\ SetMembers(u, data)
    BY <2>1 DEF AssignRole
  <2>3. D \subseteq server.members /\ D \subseteq Users
    BY <1>1, <2>2 DEF Guilds
  <2>4. \A v \in D : data[v] \subseteq RolesOf(server)
    BY <1>1, <2>2, <2>3 DEF RolesAreHeld
  <2>5. data \in [D -> SUBSET Roles] /\ DOMAIN data = D
    BY <2>4 DEF RolesOf
  <2> HIDE DEF data, D
  <2>6. data \in MemberData
    BY <2>3, <2>5 DEF MemberData
  <2>7. SetsMembers(u, data) /\ UNCHANGED screen
    BY <2>2, <2>3, <2>4, <2>5 DEF SetMembers, SetsMembers
  <2> QED
    BY <2>6, <2>7 DEF Asks, OnlySaves
<1>3. CASE \E v \in Users : RemoveFromRole(u, v)
  <2>0. PICK v \in Users : \E rs : UpdateMember(u, v, rs)
    BY <1>3 DEF RemoveFromRole
  <2>1. PICK rs : UpdateMember(u, v, rs)
    BY <2>0
  <2> DEFINE data == [w \in {v} |-> rs \cap RolesOf(server)]
  <2>2. v \in server.members /\ SetMembers(u, data)
    BY <2>1 DEF UpdateMember
  <2>3. data \in [{v} -> SUBSET Roles] /\ DOMAIN data = {v} /\ data[v] \subseteq RolesOf(server)
    BY DEF RolesOf
  <2> HIDE DEF data
  <2>4. data \in MemberData
    BY <2>3 DEF MemberData
  <2>5. SetsMembers(u, data) /\ UNCHANGED screen
    BY <2>2, <2>3 DEF SetMembers, SetsMembers
  <2> QED
    BY <2>4, <2>5 DEF Asks, OnlySaves
<1>4. CASE LeaveGuild(u)
  BY <1>4 DEF LeaveGuild, Leave, Leaves, Asks, OnlySaves
<1>5. CASE \E n \in Names : SaveProfile(u, n)
  BY <1>5 DEF SaveProfile, UpdateGuild, RenamesGuild, Asks, OnlySaves
<1> QED
  BY <1>2, <1>3, <1>4, <1>5 DEF MemberRequest

\* Every request is one of these.
LEMMA RequestAsks ==
    ASSUME Typed, NEW u \in Users, Request(u)
    PROVE  Asks(u) /\ OnlySaves(u)
BY ChannelRequestAsks, OverwriteRequestAsks, RoleRequestAsks, MemberRequestAsks DEF Request

-----------------------------------------------------------------------------
(* Types: the steps *)

LEMMA SavesType ==
    ASSUME Typed, NEW u \in Users, OnlySaves(u)
    PROVE  screen' \in [Users -> Screens]
<1>1. screen \in [Users -> Screens]
  BY DEF Typed
<1>2. CASE screen[u] # NoScreen /\ Saving(u)
  <2>1. screen[u] \in PermissionsPages \/ screen[u] \in RolePages
    BY <1>1, <1>2 DEF Screens
  <2>2. [screen[u] EXCEPT !.saving = TRUE] \in Screens
    BY <2>1 DEF Screens, PermissionsPages, RolePages
  <2>3. screen' = [screen EXCEPT ![u] = [screen[u] EXCEPT !.saving = TRUE]]
    BY <1>1, <1>2 DEF Saving
  <2> QED
    BY <1>1, <2>2, <2>3
<1> QED
  BY <1>1, <1>2 DEF OnlySaves

LEMMA ServerRow ==
    ASSUME Typed, NEW c \in ChannelsOf(server)
    PROVE  c \in Channels /\ server.channels[c] \in ChannelRow
BY DEF Typed, Guilds, ChannelsOf

LEMMA ViewRow ==
    ASSUME Typed, NEW u \in Users, NEW c \in ChannelsOf(view[u])
    PROVE  c \in Channels /\ view[u].channels[c] \in ChannelRow
<1>1. view[u] \in Guilds
  BY DEF Typed
<1> QED
  BY <1>1 DEF Guilds, ChannelsOf

\* What a row must be to be written.
Fitting(c, ch) ==
    /\ ch.parent # NoParent => c \notin Categories /\ ch.parent \in ChannelsOf(server) \ {c}
    /\ ch.isSynced /\ ch.parent # NoParent => ch.overwrites = NoOverwrites
    /\ c \in Categories => ~ch.isSynced

LEMMA RowWritten ==
    ASSUME Typed, NEW c \in Channels, NEW ch \in ChannelRow, Fitting(c, ch)
    PROVE  [server EXCEPT !.channels[c] = ch] \in Guilds /\ Coherent([server EXCEPT !.channels[c] = ch])
<1> DEFINE g == [server EXCEPT !.channels[c] = ch]
<1>1. /\ g \in Guilds /\ g.present = server.present /\ g.members = server.members
      /\ g.memberRoles = server.memberRoles /\ g.roles = server.roles
      /\ g.channels = [server.channels EXCEPT ![c] = ch]
  BY DEF Typed, Guilds
<1>2. g.present /\ RolesAreHeld(g)
  BY <1>1 DEF Typed, Coherent, RolesAreHeld, RolesOf
<1>3. ch # NoRow /\ ChannelsOf(g) = ChannelsOf(server) \cup {c}
  BY <1>1, RowAssumption DEF Typed, Guilds, ChannelsOf
<1>4. ChannelsAreOrdered(g)
  <2> SUFFICES ASSUME NEW d \in ChannelsOf(g)
               PROVE  /\ g.channels[d].parent # NoParent
                         => d \notin Categories /\ g.channels[d].parent \in ChannelsOf(g)
                      /\ g.channels[d].isSynced /\ g.channels[d].parent # NoParent
                         => g.channels[d].overwrites = NoOverwrites
                      /\ d \in Categories => ~g.channels[d].isSynced
    BY DEF ChannelsAreOrdered
  <2>1. CASE d = c
    <3>1. g.channels[d] = ch
      BY <1>1, <2>1 DEF Typed, Guilds
    <3> QED
      BY <1>3, <2>1, <3>1 DEF Fitting
  <2>2. CASE d # c
    <3>1. d \in ChannelsOf(server)
      BY <1>3, <2>2
    <3>2. d \in DOMAIN server.channels
      BY <3>1 DEF Typed, Guilds, ChannelsOf
    <3> HIDE DEF g
    <3>3. g.channels[d] = server.channels[d]
      BY <1>1, <2>2, <3>2
    <3> QED
      BY <1>3, <3>1, <3>3 DEF Typed, Coherent, ChannelsAreOrdered
  <2> QED
    BY <2>1, <2>2
<1> QED
  BY <1>1, <1>2, <1>4 DEF Coherent

LEMMA ServerFits ==
    ASSUME Typed, NEW c \in ChannelsOf(server)
    PROVE  Fitting(c, server.channels[c])
<1>1. /\ server.channels[c].parent # NoParent
         => c \notin Categories /\ server.channels[c].parent \in ChannelsOf(server)
      /\ server.channels[c].isSynced /\ server.channels[c].parent # NoParent
         => server.channels[c].overwrites = NoOverwrites
      /\ c \in Categories => ~server.channels[c].isSynced
  BY DEF Typed, Coherent, ChannelsAreOrdered
<1>2. server.channels[c].parent \in Categories \cup {NoParent}
  BY ServerRow DEF ChannelRow
<1> QED
  BY <1>1, <1>2 DEF Fitting

\* The guild keeps its channels: only who holds which role is to be shown.
LEMMA ChannelsKept ==
    ASSUME Typed, NEW g \in Guilds, g.present, RolesAreHeld(g), g.channels = server.channels
    PROVE  Coherent(g)
BY DEF Typed, Coherent, ChannelsAreOrdered, ChannelsOf

LEMMA ChannelMessageType ==
    ASSUME NEW c \in Channels, NEW data \in ChannelData, NEW about \in SUBSET Subjects
    PROVE  /\ Reply(Message("CHANNEL_UPDATE", c, data, about)) \in Messages
           /\ Event(Message("CHANNEL_UPDATE", c, data, about)) \in Messages
<1>1. c \in Ids /\ data \in Data
  BY DEF Ids, Data, Target, ChannelData
<1>2. Answers("CHANNEL_UPDATE", c, data) /\ Tells("CHANNEL_UPDATE", c, data)
  BY DEF Answers, Tells, FitsAs
<1> QED
  BY <1>1, <1>2, BothTyped DEF Kinds

LEMMA DeletionMessageType ==
    ASSUME NEW c \in Channels, NEW about \in SUBSET Subjects
    PROVE  /\ Reply(Message("CHANNEL_DELETE", c, NoRow, about)) \in Messages
           /\ Event(Message("CHANNEL_DELETE", c, NoRow, about)) \in Messages
<1>1. c \in Ids /\ NoRow \in Data
  BY DEF Ids, Data, Target, ChannelData
<1>2. Answers("CHANNEL_DELETE", c, NoRow) /\ Tells("CHANNEL_DELETE", c, NoRow)
  BY DEF Answers, Tells, FitsAs
<1> QED
  BY <1>1, <1>2, BothTyped DEF Kinds

LEMMA RenameMessageType ==
    ASSUME NEW c \in Channels, NEW data \in ChannelRow, NEW about \in SUBSET Subjects
    PROVE  Reply(Message("RENAMED", c, data, about)) \in Messages
<1>1. c \in Ids /\ data \in Data
  BY DEF Ids, Data, Target, ChannelData
<1>2. Answers("RENAMED", c, data)
  BY DEF Answers, Tells, FitsAs
<1> QED
  BY <1>1, <1>2, BothTyped DEF Kinds

LEMMA OverwriteMessageType ==
    ASSUME NEW c \in Channels, NEW data \in Overwrites, NEW about \in SUBSET Subjects
    PROVE  Reply(Message("OVERWRITE", c, data, about)) \in Messages
<1>1. c \in Ids /\ data \in Data
  BY DEF Ids, Data, Target, ChannelData
<1>2. Answers("OVERWRITE", c, data)
  BY DEF Answers, Tells, FitsAs
<1> QED
  BY <1>1, <1>2, BothTyped DEF Kinds

LEMMA OverwriteGoneMessageType ==
    ASSUME NEW c \in Channels, NEW data \in Target, NEW about \in SUBSET Subjects
    PROVE  Reply(Message("OVERWRITE_DELETE", c, data, about)) \in Messages
<1>1. c \in Ids /\ data \in Data
  BY DEF Ids, Data, Target, ChannelData
<1>2. Answers("OVERWRITE_DELETE", c, data)
  BY DEF Answers, Tells, FitsAs
<1> QED
  BY <1>1, <1>2, BothTyped DEF Kinds

LEMMA RoleMessageType ==
    ASSUME NEW r \in Roles, NEW data \in RoleRow, NEW about \in SUBSET Subjects
    PROVE  /\ Reply(Message("ROLE_UPDATE", r, data, about)) \in Messages
           /\ Event(Message("ROLE_UPDATE", r, data, about)) \in Messages
<1>1. r \in Ids /\ data \in Data
  BY DEF Ids, Data, Target, ChannelData
<1>2. Answers("ROLE_UPDATE", r, data) /\ Tells("ROLE_UPDATE", r, data)
  BY DEF Answers, Tells, FitsAs
<1> QED
  BY <1>1, <1>2, BothTyped DEF Kinds

LEMMA NewRoleMessageType ==
    ASSUME NEW r \in Roles, NEW data \in RoleRow, NEW about \in SUBSET Subjects
    PROVE  Reply(Message("ROLE_CREATED", r, data, about)) \in Messages
<1>1. r \in Ids /\ data \in Data
  BY DEF Ids, Data, Target, ChannelData
<1>2. Answers("ROLE_CREATED", r, data)
  BY DEF Answers, Tells, FitsAs
<1> QED
  BY <1>1, <1>2, BothTyped DEF Kinds

LEMMA RoleGoneMessageType ==
    ASSUME NEW r \in Roles, NEW about \in SUBSET Subjects
    PROVE  /\ Reply(Message("ROLE_DELETE", r, NoRow, about)) \in Messages
           /\ Event(Message("ROLE_DELETE", r, NoRow, about)) \in Messages
<1>1. r \in Ids /\ NoRow \in Data
  BY DEF Ids, Data, Target, ChannelData
<1>2. Answers("ROLE_DELETE", r, NoRow) /\ Tells("ROLE_DELETE", r, NoRow)
  BY DEF Answers, Tells, FitsAs
<1> QED
  BY <1>1, <1>2, BothTyped DEF Kinds

LEMMA GuildMessageType ==
    ASSUME NEW data \in Names, NEW about \in SUBSET Subjects
    PROVE  /\ Reply(Message("GUILD_UPDATE", NoRow, data, about)) \in Messages
           /\ Event(Message("GUILD_UPDATE", NoRow, data, about)) \in Messages
<1>1. NoRow \in Ids /\ data \in Data
  BY DEF Ids, Data, Target, ChannelData
<1>2. Answers("GUILD_UPDATE", NoRow, data) /\ Tells("GUILD_UPDATE", NoRow, data)
  BY DEF Answers, Tells, FitsAs
<1> QED
  BY <1>1, <1>2, BothTyped DEF Kinds

LEMMA DepartureMessageType ==
    ASSUME NEW u \in Users, NEW about \in SUBSET Subjects
    PROVE  /\ Reply(Message("MEMBER_LEAVE", u, NoRow, about)) \in Messages
           /\ Event(Message("MEMBER_LEAVE", u, NoRow, about)) \in Messages
<1>1. u \in Ids /\ NoRow \in Data
  BY DEF Ids, Data, Target, ChannelData
<1>2. Answers("MEMBER_LEAVE", u, NoRow) /\ Tells("MEMBER_LEAVE", u, NoRow)
  BY DEF Answers, Tells, FitsAs
<1> QED
  BY <1>1, <1>2, BothTyped DEF Kinds

LEMMA GoodbyeMessageType ==
    ASSUME NEW u \in Users, NEW about \in SUBSET Subjects
    PROVE  Reply(Message("LEFT", u, NoRow, about)) \in Messages
<1>1. u \in Ids /\ NoRow \in Data
  BY DEF Ids, Data, Target, ChannelData
<1>2. Answers("LEFT", u, NoRow)
  BY DEF Answers, Tells, FitsAs
<1> QED
  BY <1>1, <1>2, BothTyped DEF Kinds

LEMMA MembersMessageType ==
    ASSUME NEW data \in MemberData, NEW about \in SUBSET Subjects
    PROVE  /\ Reply(Message("MEMBERS_UPDATE", NoRow, data, about)) \in Messages
           /\ Event(Message("MEMBERS_UPDATE", NoRow, data, about)) \in Messages
<1>1. NoRow \in Ids /\ data \in Data
  BY DEF Ids, Data, Target, ChannelData
<1>2. Answers("MEMBERS_UPDATE", NoRow, data) /\ Tells("MEMBERS_UPDATE", NoRow, data)
  BY DEF Answers, Tells, FitsAs
<1> QED
  BY <1>1, <1>2, BothTyped DEF Kinds

LEMMA PartsOfRow ==
    ASSUME NEW ch \in ChannelRow
    PROVE  ch \in ChannelData /\ Bare(ch) \in ChannelData /\ WithOverwrites(ch) \in ChannelData
BY DEF ChannelRow, ChannelData, Bare, WithOverwrites

LEMMA OverwrittenType ==
    ASSUME Typed, NEW c \in ChannelsOf(server), NEW row \in Overwrites
    PROVE  /\ Overwritten(c, row) \in ChannelRow
           /\ Fitting(c, Overwritten(c, row))
<1> DEFINE ch == server.channels[c]
           old == IF At(server)!Follows(c)
                  THEN At(server)!Upsert(ch.overwrites, server.channels[ch.parent].overwrites)
                  ELSE ch.overwrites
<1>1. c \in Channels /\ ch \in ChannelRow
  BY ServerRow
<1>2. At(server)!Upsert(old, row) \in Overwrites
  <2>1. ch.overwrites \in Overwrites
    BY <1>1 DEF ChannelRow
  <2>2. ASSUME At(server)!Follows(c)
        PROVE  At(server)!Upsert(ch.overwrites, server.channels[ch.parent].overwrites) \in Overwrites
    <3>1. ch.parent # NoParent
      BY <2>2 DEF At!Follows
    <3>2. ch.parent \in ChannelsOf(server)
      BY <3>1, ServerFits DEF Fitting
    <3>3. server.channels[ch.parent].overwrites \in Overwrites
      BY <3>2, ServerRow DEF ChannelRow
    <3> QED
      BY <2>1, <3>3, UpsertType
  <2>3. old \in Overwrites
    BY <2>1, <2>2
  <2> QED
    BY <2>3, UpsertType
<1>3. Overwritten(c, row) = [ch EXCEPT !.isSynced = ch.isSynced /\ ~At(server)!Follows(c),
                                       !.overwrites = At(server)!Upsert(old, row)]
  BY DEF Overwritten
<1> HIDE DEF old, ch
<1>4. (ch.isSynced /\ ~At(server)!Follows(c)) \in BOOLEAN
  OBVIOUS
<1>5. Overwritten(c, row) \in ChannelRow
  BY <1>1, <1>2, <1>3, <1>4 DEF ChannelRow
<1>6. /\ Overwritten(c, row).parent = ch.parent
      /\ Overwritten(c, row).isSynced => ch.isSynced /\ ~At(server)!Follows(c)
  BY <1>1, <1>3 DEF ChannelRow
<1>7. At(server)!Follows(c) <=> ch.isSynced /\ ch.parent # NoParent
  BY DEF At!Follows, ch
<1>8. Fitting(c, ch)
  BY ServerFits DEF ch
<1> QED
  BY <1>5, <1>6, <1>7, <1>8 DEF Fitting

LEMMA WithoutChannelCoherent ==
    ASSUME Typed, NEW c \in Channels
    PROVE  Coherent(WithoutChannel(server, c))
<1> DEFINE g == WithoutChannel(server, c)
<1>1. /\ g.present = server.present /\ g.members = server.members
      /\ g.memberRoles = server.memberRoles /\ g.roles = server.roles
      /\ g.channels = [d \in Channels |->
             IF d = c \/ server.channels[d] = NoRow THEN NoRow
             ELSE IF server.channels[d].parent = c THEN [server.channels[d] EXCEPT !.parent = NoParent]
             ELSE server.channels[d]]
  BY DEF Typed, Guilds, WithoutChannel
<1>2. g.present /\ RolesAreHeld(g)
  BY <1>1 DEF Typed, Coherent, RolesAreHeld, RolesOf
<1>3. ChannelsOf(g) = ChannelsOf(server) \ {c}
  <2> SUFFICES ASSUME NEW d \in Channels
               PROVE  g.channels[d] # NoRow <=> d # c /\ server.channels[d] # NoRow
    BY DEF ChannelsOf
  <2>1. CASE d # c /\ server.channels[d] # NoRow /\ server.channels[d].parent = c
    <3>1. g.channels[d] = [server.channels[d] EXCEPT !.parent = NoParent]
      BY <1>1, <2>1
    <3>2. server.channels[d] \in ChannelRow
      BY <2>1, ServerRow DEF ChannelsOf
    <3>3. g.channels[d] \in ChannelRow
      BY <3>1, <3>2 DEF ChannelRow
    <3> QED
      BY <2>1, <3>3, RowAssumption
  <2> QED
    BY <1>1, <2>1
<1>4. ChannelsAreOrdered(g)
  <2> SUFFICES ASSUME NEW d \in ChannelsOf(g)
               PROVE  /\ g.channels[d].parent # NoParent
                         => d \notin Categories /\ g.channels[d].parent \in ChannelsOf(g)
                      /\ g.channels[d].isSynced /\ g.channels[d].parent # NoParent
                         => g.channels[d].overwrites = NoOverwrites
                      /\ d \in Categories => ~g.channels[d].isSynced
    BY DEF ChannelsAreOrdered
  <2> HIDE DEF g
  <2>1. d \in ChannelsOf(server) /\ d # c /\ server.channels[d] \in ChannelRow /\ d \in Channels
    BY <1>3, ServerRow
  <2>2. Fitting(d, server.channels[d])
    BY <2>1, ServerFits
  <2>3. server.channels[d] # NoRow
    BY <2>1 DEF ChannelsOf
  <2>4. CASE server.channels[d].parent = c
    <3>1. g.channels[d] = [server.channels[d] EXCEPT !.parent = NoParent]
      BY <1>1, <2>1, <2>3, <2>4
    <3>2. g.channels[d].parent = NoParent /\ g.channels[d].isSynced = server.channels[d].isSynced
      BY <2>1, <3>1 DEF ChannelRow
    <3> QED
      BY <2>2, <3>2 DEF Fitting
  <2>5. CASE server.channels[d].parent # c
    <3>1. g.channels[d] = server.channels[d]
      BY <1>1, <2>1, <2>3, <2>5
    <3> QED
      BY <1>3, <2>2, <2>5, <3>1 DEF Fitting
  <2> QED
    BY <2>4, <2>5
<1> QED
  BY <1>2, <1>4 DEF Coherent

LEMMA ChannelAsksType ==
    ASSUME Typed, NEW u \in Users, screen' \in [Users -> Screens],
           \/ \E c \in Channels, ch \in ChannelRow : Creates(u, c, ch)
           \/ \E c \in Channels : Deletes(u, c) \/ Syncs(u, c)
           \/ \E c \in Channels, n \in Names : Renames(u, c, n)
    PROVE  Typed'
<1>1. ASSUME NEW c \in Channels, NEW ch \in ChannelRow, Creates(u, c, ch) PROVE Typed'
  <2> DEFINE m == Message("CHANNEL_UPDATE", c, ch, {c, ch.parent})
  <2>1. {c, ch.parent} \in SUBSET Subjects
    BY EditorsAssumption DEF ChannelRow, Subjects
  <2>2. Reply(m) \in Messages /\ Event(m) \in Messages
    BY <2>1, ChannelMessageType, PartsOfRow
  <2>3. issued' \subseteq Channels \cup Roles
    BY <1>1 DEF Creates, Typed
  <2>4. Fitting(c, ch)
    <3>1. ch.parent # NoParent => ch.parent # c
      BY <1>1, EditorsAssumption DEF Creates, ChannelRow
    <3> QED
      BY <1>1, <3>1 DEF Creates, Fitting
  <2>5. Told(u, [server EXCEPT !.channels[c] = ch], m)
    BY <1>1 DEF Creates
  <2> QED
    BY <2>2, <2>3, <2>4, <2>5, HandleType, RowWritten DEF Told
<1>2. ASSUME NEW c \in Channels, Deletes(u, c) PROVE Typed'
  <2> DEFINE m == Message("CHANNEL_DELETE", c, NoRow, {c})
  <2>1. Reply(m) \in Messages /\ Event(m) \in Messages
    BY DeletionMessageType DEF Subjects
  <2>2. WithoutChannel(server, c) \in Guilds
    BY WithoutChannelType DEF Typed
  <2>3. Coherent(WithoutChannel(server, c))
    BY <1>2, WithoutChannelCoherent
  <2> QED
    BY <1>2, <2>1, <2>2, <2>3, HandleType, ChannelsKept DEF Deletes, Told, Typed
<1>3. ASSUME NEW c \in Channels, Syncs(u, c) PROVE Typed'
  <2> DEFINE ch == [server.channels[c] EXCEPT !.isSynced = TRUE, !.overwrites = NoOverwrites]
             m == Message("CHANNEL_UPDATE", c, Bare(ch), {c})
  <2>1. ch \in ChannelRow
    BY <1>3, ServerRow, BlankType DEF Syncs, ChannelRow
  <2>2. Reply(m) \in Messages /\ Event(m) \in Messages
    BY <2>1, ChannelMessageType, PartsOfRow DEF Subjects
  <2>3. Told(u, [server EXCEPT !.channels[c] = ch], m) /\ issued' = issued
    BY <1>3 DEF Syncs
  <2>4. ch.parent = server.channels[c].parent /\ ch.parent # NoParent /\ ch.overwrites = NoOverwrites
    BY <1>3, ServerRow DEF Syncs, ChannelRow
  <2>5. Fitting(c, server.channels[c])
    BY <1>3, ServerFits DEF Syncs
  <2> HIDE DEF ch
  <2>6. Fitting(c, ch)
    BY <2>4, <2>5 DEF Fitting
  <2> QED
    BY <2>1, <2>2, <2>3, <2>6, HandleType, RowWritten DEF Told, Typed
<1>4. ASSUME NEW c \in Channels, NEW n \in Names, Renames(u, c, n) PROVE Typed'
  <2> DEFINE ch == [server.channels[c] EXCEPT !.name = n]
             answer == [view[u].channels[c] EXCEPT !.name = n]
             m == Message("CHANNEL_UPDATE", c, Bare(ch), {c})
             r == Message("RENAMED", c, answer, {c})
  <2>1. ch \in ChannelRow
    BY <1>4, ServerRow DEF Renames, ChannelRow
  <2>2. answer \in ChannelRow
    BY <1>4, ViewRow DEF Renames, ChannelRow
  <2>3. Event(m) \in Messages
    BY <2>1, ChannelMessageType, PartsOfRow DEF Subjects
  <2>4. Handle(u, [server EXCEPT !.channels[c] = ch], m, r) /\ issued' = issued
    BY <1>4 DEF Renames
  <2>6. /\ ch.parent = server.channels[c].parent /\ ch.isSynced = server.channels[c].isSynced
        /\ ch.overwrites = server.channels[c].overwrites
    BY <1>4, ServerRow DEF Renames, ChannelRow
  <2>7. Fitting(c, server.channels[c])
    BY <1>4, ServerFits DEF Renames
  <2> HIDE DEF ch, answer
  <2>8. Fitting(c, ch)
    BY <2>6, <2>7 DEF Fitting
  <2>5. Reply(r) \in Messages
    BY <2>2, RenameMessageType DEF Subjects
  <2> QED
    BY <2>1, <2>3, <2>4, <2>5, <2>8, HandleType, RowWritten DEF Typed
<1> QED
  BY <1>1, <1>2, <1>3, <1>4

LEMMA OverwriteAsksType ==
    ASSUME Typed, NEW u \in Users, screen' \in [Users -> Screens],
           \/ \E c \in Channels, row \in Overwrites : SetsOverwrite(u, c, row)
           \/ \E c \in Channels, t \in Target : DropsOverwrite(u, c, t)
    PROVE  Typed'
<1>1. ASSUME NEW c \in Channels, NEW row \in Overwrites, SetsOverwrite(u, c, row) PROVE Typed'
  <2> DEFINE ch == Overwritten(c, row)
             about == {c, view[u].channels[c].parent}
             m == Message("CHANNEL_UPDATE", c, WithOverwrites(ch), {c})
             r == Message("OVERWRITE", c, row, about)
  <2>1. ch \in ChannelRow /\ Fitting(c, ch)
    BY <1>1, OverwrittenType DEF SetsOverwrite
  <2>2. about \in SUBSET Subjects
    BY <1>1, ViewRow, EditorsAssumption DEF SetsOverwrite, ChannelRow, Subjects
  <2>3. Event(m) \in Messages
    BY <2>1, ChannelMessageType, PartsOfRow DEF Subjects
  <2>4. Handle(u, [server EXCEPT !.channels[c] = ch], m, r) /\ issued' = issued
    BY <1>1 DEF SetsOverwrite
  <2> HIDE DEF ch, about
  <2>5. Reply(r) \in Messages
    BY <2>2, OverwriteMessageType
  <2> QED
    BY <2>1, <2>3, <2>4, <2>5, HandleType, RowWritten DEF Typed
<1>2. ASSUME NEW c \in Channels, NEW t \in Target, DropsOverwrite(u, c, t) PROVE Typed'
  <2> DEFINE ch == [server.channels[c] EXCEPT !.overwrites[t] = NoRow]
             m == Message("CHANNEL_UPDATE", c, WithOverwrites(ch), {c})
             r == Message("OVERWRITE_DELETE", c, t, {c})
  <2>1. ch \in ChannelRow
    BY <1>2, ServerRow DEF DropsOverwrite, ChannelRow, Overwrites
  <2>5. /\ ch.parent = server.channels[c].parent /\ ch.isSynced = server.channels[c].isSynced
        /\ server.channels[c].overwrites # NoOverwrites
    <3>1. server.channels[c].overwrites[t] # NoRow
      BY <1>2 DEF DropsOverwrite, TargetsOf
    <3> QED
      BY <1>2, <3>1, ServerRow DEF DropsOverwrite, ChannelRow, NoOverwrites
  <2>6. Fitting(c, server.channels[c])
    BY <1>2, ServerFits DEF DropsOverwrite
  <2>7. Fitting(c, ch)
    BY <2>5, <2>6 DEF Fitting
  <2>2. Event(m) \in Messages
    BY <2>1, ChannelMessageType, PartsOfRow DEF Subjects
  <2>3. Handle(u, [server EXCEPT !.channels[c] = ch], m, r) /\ issued' = issued
    BY <1>2 DEF DropsOverwrite
  <2> HIDE DEF ch
  <2>4. Reply(r) \in Messages
    BY OverwriteGoneMessageType DEF Subjects
  <2> QED
    BY <2>1, <2>2, <2>3, <2>4, <2>7, HandleType, RowWritten DEF Typed
<1> QED
  BY <1>1, <1>2

LEMMA RoleAsksType ==
    ASSUME Typed, NEW u \in Users, screen' \in [Users -> Screens],
           \/ \E r \in Roles, row \in RoleRow : SavesRole(u, r, row) \/ \E g : CreatesRole(u, r, row, g)
           \/ \E r \in Roles : DeletesRole(u, r)
    PROVE  Typed'
<1>1. ASSUME NEW r \in Roles, NEW row \in RoleRow, SavesRole(u, r, row) PROVE Typed'
  <2> DEFINE m == Message("ROLE_UPDATE", r, row, {r})
  <2>1. Reply(m) \in Messages /\ Event(m) \in Messages
    BY RoleMessageType DEF Subjects, Target
  <2>2. UpsertRole(server, r, row) \in Guilds
    BY UpsertRoleType DEF Typed
  <2>3. UpsertRole(server, r, row).present /\ RolesAreHeld(UpsertRole(server, r, row))
        /\ UpsertRole(server, r, row).channels = server.channels
    BY RowAssumption DEF UpsertRole, Typed, Coherent, Guilds, RolesAreHeld, RolesOf
  <2> QED
    BY <1>1, <2>1, <2>2, <2>3, HandleType, ChannelsKept DEF SavesRole, Told, Typed
<1>2. ASSUME NEW r \in Roles, NEW row \in RoleRow, NEW g, CreatesRole(u, r, row, g) PROVE Typed'
  <2> DEFINE e == Message("ROLE_UPDATE", r, row, {r})
             a == Message("ROLE_CREATED", r, row, {r})
  <2>1. Event(e) \in Messages
    BY RoleMessageType DEF Subjects, Target
  <2>2. Reply(a) \in Messages
    BY NewRoleMessageType DEF Subjects, Target
  <2>3. issued' \subseteq Channels \cup Roles /\ g \in Guilds
    BY <1>2 DEF CreatesRole, Typed
  <2>4. g.present /\ g.members = server.members /\ g.memberRoles = server.memberRoles
        /\ g.channels = server.channels
    BY <1>2 DEF CreatesRole, Typed, Coherent, Guilds
  <2>5. RolesOf(server) \subseteq RolesOf(g)
    <3> SUFFICES ASSUME NEW q \in Roles, server.roles[q] # NoRow PROVE g.roles[q] # NoRow
      BY DEF RolesOf
    <3>1. CASE q = r
      BY <1>2, <3>1, RowAssumption DEF CreatesRole
    <3>2. CASE q # r
      <4>1. PICK n \in Nat : g.roles[q] = [server.roles[q] EXCEPT !.position = n]
        BY <1>2, <3>2 DEF CreatesRole, Moved
      <4>2. server.roles[q] \in RoleRow
        BY DEF Typed, Guilds
      <4>3. g.roles[q] \in RoleRow
        BY <4>1, <4>2 DEF RoleRow
      <4> QED
        BY <4>3, RowAssumption
    <3> QED
      BY <3>1, <3>2
  <2>6. RolesAreHeld(g)
    BY <2>4, <2>5 DEF RolesAreHeld, Typed, Coherent
  <2> QED
    BY <1>2, <2>1, <2>2, <2>3, <2>4, <2>6, HandleType, ChannelsKept DEF CreatesRole
<1>3. ASSUME NEW r \in Roles, DeletesRole(u, r) PROVE Typed'
  <2> DEFINE m == Message("ROLE_DELETE", r, NoRow, {r})
  <2>1. Reply(m) \in Messages /\ Event(m) \in Messages
    BY RoleGoneMessageType DEF Subjects, Target
  <2>2. RemoveRole(server, r) \in Guilds
    BY RemoveRoleType DEF Typed
  <2>3. RemoveRole(server, r).present /\ RolesAreHeld(RemoveRole(server, r))
        /\ RemoveRole(server, r).channels = server.channels
    BY DEF RemoveRole, Typed, Coherent, Guilds, RolesAreHeld, RolesOf
  <2> QED
    BY <1>3, <2>1, <2>2, <2>3, HandleType, ChannelsKept DEF DeletesRole, Told, Typed
<1> QED
  BY <1>1, <1>2, <1>3

LEMMA MemberAsksType ==
    ASSUME Typed, NEW u \in Users, screen' \in [Users -> Screens],
           \/ \E n \in Names : RenamesGuild(u, n)
           \/ Leaves(u)
           \/ \E data \in MemberData : SetsMembers(u, data)
    PROVE  Typed'
<1>1. ASSUME NEW n \in Names, RenamesGuild(u, n) PROVE Typed'
  <2> DEFINE m == Message("GUILD_UPDATE", NoRow, n, {"guild"})
  <2>1. Reply(m) \in Messages /\ Event(m) \in Messages
    BY GuildMessageType DEF Subjects
  <2>2. [server EXCEPT !.name = n] \in Guilds /\ [server EXCEPT !.name = n].present
        /\ RolesAreHeld([server EXCEPT !.name = n])
        /\ [server EXCEPT !.name = n].channels = server.channels
    BY DEF Typed, Coherent, Guilds, RolesAreHeld, RolesOf
  <2> QED
    BY <1>1, <2>1, <2>2, HandleType, ChannelsKept DEF RenamesGuild, Told, Typed
<1>2. CASE Leaves(u)
  <2> DEFINE about == Target \cup Channels \cup {"guild"}
             e == Message("MEMBER_LEAVE", u, NoRow, {u})
             a == Message("LEFT", u, NoRow, about)
  <2>1. Event(e) \in Messages
    BY DepartureMessageType DEF Subjects, Target
  <2>2. about \in SUBSET Subjects
    BY DEF Subjects
  <2>3. Handle(u, RemoveMember(server, u), e, a) /\ issued' = issued
    BY <1>2 DEF Leaves
  <2> HIDE DEF about
  <2>4. Reply(a) \in Messages
    BY <2>2, GoodbyeMessageType
  <2>5. RemoveMember(server, u) \in Guilds
    BY RemoveMemberType DEF Typed
  <2>6. RemoveMember(server, u).present /\ RolesAreHeld(RemoveMember(server, u))
        /\ RemoveMember(server, u).channels = server.channels
    BY DEF RemoveMember, Typed, Coherent, Guilds, RolesAreHeld, RolesOf
  <2> QED
    BY <2>1, <2>3, <2>4, <2>5, <2>6, HandleType, ChannelsKept DEF Typed
<1>3. ASSUME NEW data \in MemberData, SetsMembers(u, data) PROVE Typed'
  <2> DEFINE about == DOMAIN data \cup UNION {data[v] : v \in DOMAIN data}
             m == Message("MEMBERS_UPDATE", NoRow, data, about)
  <2>1. PICK D \in SUBSET Users : data \in [D -> SUBSET Roles]
    BY DEF MemberData
  <2>2. DOMAIN data = D
    BY <2>1
  <2>3. about \in SUBSET Subjects
    BY <2>1, <2>2 DEF Subjects, Target
  <2>4. /\ Told(u, UpsertMembers(server, data), m) /\ issued' = issued
        /\ D \subseteq server.members /\ \A v \in D : data[v] \subseteq RolesOf(server)
    BY <1>3, <2>2 DEF SetsMembers
  <2> HIDE DEF about
  <2>5. Reply(m) \in Messages /\ Event(m) \in Messages
    BY <2>3, MembersMessageType
  <2>6. UpsertMembers(server, data) \in Guilds
    BY UpsertMembersType DEF Typed
  <2>7. UpsertMembers(server, data).present /\ RolesAreHeld(UpsertMembers(server, data))
        /\ UpsertMembers(server, data).channels = server.channels
    BY <2>1, <2>2, <2>4 DEF UpsertMembers, Typed, Coherent, Guilds, RolesAreHeld, RolesOf
  <2> QED
    BY <2>4, <2>5, <2>6, <2>7, HandleType, ChannelsKept DEF Told, Typed
<1> QED
  BY <1>1, <1>2, <1>3

LEMMA RequestType ==
    ASSUME Typed, NEW u \in Users, Request(u)
    PROVE  Typed'
<1>1. Asks(u) /\ screen' \in [Users -> Screens]
  BY RequestAsks, SavesType
<1> QED
  BY <1>1, ChannelAsksType, OverwriteAsksType, RoleAsksType, MemberAsksType DEF Asks

-----------------------------------------------------------------------------
(* A message is taken in *)

\* What is left in the place of each message when one is taken out.
LEMMA RemoveAtItems ==
    ASSUME NEW S, NEW s \in Seq(S), NEW i \in 1..Len(s), NEW r, r = RemoveAt(s, i)
    PROVE  /\ r \in Seq(S) /\ Len(r) \in Nat /\ Len(s) = Len(r) + 1
           /\ \A k \in 1..Len(r) : r[k] = IF k < i THEN s[k] ELSE s[k + 1]
<1>1. Len(s) \in Nat /\ \A j \in 1..Len(s) : s[j] \in S
  BY LenProperties, ElementOfSeq
<1>2. PICK a, b : a = SubSeq(s, 1, i - 1) /\ b = SubSeq(s, i + 1, Len(s))
  OBVIOUS
<1>3. /\ a \in Seq(S) /\ Len(a) = i - 1
      /\ \A k \in 1..(i - 1) : a[k] = s[k]
  BY <1>1, <1>2, SubSeqProperties
<1>4. /\ b \in Seq(S) /\ Len(b) = Len(s) - i
      /\ \A k \in 1..(Len(s) - i) : b[k] = s[k + i]
  <2>1. \A k \in (i + 1)..Len(s) : s[k] \in S
    BY <1>1
  <2>2. /\ b \in Seq(S) /\ Len(b) = IF i + 1 <= Len(s) THEN Len(s) - (i + 1) + 1 ELSE 0
        /\ \A k \in 1..(Len(s) - (i + 1) + 1) : b[k] = s[(i + 1) + k - 1]
    BY <1>1, <1>2, <2>1, SubSeqProperties
  <2> QED
    BY <1>1, <2>2
<1>5. r = a \o b
  BY <1>2 DEF RemoveAt
<1>6. /\ r \in Seq(S) /\ Len(r) = Len(s) - 1
      /\ \A k \in 1..(Len(s) - 1) : r[k] = IF k <= i - 1 THEN a[k] ELSE b[k - (i - 1)]
  <2>1. /\ r \in Seq(S) /\ Len(r) = Len(a) + Len(b)
        /\ \A k \in 1..(Len(a) + Len(b)) : r[k] = IF k <= Len(a) THEN a[k] ELSE b[k - Len(a)]
    <3>1. a \in Seq(S) /\ b \in Seq(S)
      BY <1>3, <1>4
    <3>2. /\ a \o b \in Seq(S) /\ Len(a \o b) = Len(a) + Len(b)
          /\ \A k \in 1..(Len(a) + Len(b)) :
                (a \o b)[k] = IF k <= Len(a) THEN a[k] ELSE b[k - Len(a)]
      BY <3>1, ConcatProperties
    <3> QED
      BY <1>5, <3>2
  <2>2. Len(a) + Len(b) = Len(s) - 1
    BY <1>1, <1>3, <1>4
  <2> QED
    BY <1>3, <2>1, <2>2
<1>7. PICK n \in Nat : Len(s) = n + 1 /\ Len(r) = n
  BY <1>1, <1>6
<1>8. ASSUME NEW k \in 1..n
      PROVE  r[k] = IF k < i THEN s[k] ELSE s[k + 1]
  <2>1. CASE k < i
    BY <1>1, <1>3, <1>6, <1>7, <2>1
  <2>2. CASE ~ k < i
    <3>1. k - (i - 1) \in 1..(Len(s) - i) /\ k - (i - 1) + i = k + 1
      BY <1>1, <1>7, <2>2
    <3>2. r[k] = b[k - (i - 1)]
      BY <1>1, <1>6, <1>7, <2>2
    <3> QED
      BY <1>4, <2>2, <3>1, <3>2
  <2> QED
    BY <2>1, <2>2
<1> QED
  BY <1>6, <1>7, <1>8

LEMMA ShownType ==
    ASSUME NEW g \in Guilds, NEW c \in Channels
    PROVE  /\ Shown(g, c) \in Overwrites
           /\ \A t \in Target : Shown(g, c)[t] # NoRow => Shown(g, c)[t] \in Overwrite
<1>1. Shown(g, c) \in Overwrites
  <2>1. CASE Source(g, c) \in ChannelsOf(g)
    <3>1. g.channels[Source(g, c)] \in ChannelRow
      BY <2>1 DEF ChannelsOf, Guilds
    <3> QED
      BY <2>1, <3>1 DEF Shown, ChannelRow
  <2>2. CASE Source(g, c) \notin ChannelsOf(g)
    BY <2>2, BlankType DEF Shown
  <2> QED
    BY <2>1, <2>2
<1> QED
  BY <1>1 DEF Overwrites

\* The row selected again takes the place of the draft; either keeps the type of the page.
LEMMA ReselectedType ==
    ASSUME NEW u \in Users, NEW g \in Guilds, NEW m \in Messages, screen[u] \in PermissionsPages
    PROVE  Reselected(u, g, m) \in PermissionsPages
<1> DEFINE s == screen[u]
           latest == Shown(g, s.id)[s.target]
           new == [s EXCEPT !.selected = latest, !.draft = latest, !.touched = {}]
<1>1. Reselected(u, g, m) = s \/ (latest # NoRow /\ Reselected(u, g, m) = new)
  BY DEF Reselected
<1>2. ASSUME latest # NoRow PROVE new \in PermissionsPages
  <2>1. s.id \in Channels /\ s.target \in Target
    BY DEF PermissionsPages
  <2>2. latest \in Overwrite
    BY <1>2, <2>1, ShownType
  <2> HIDE DEF latest
  <2> QED
    BY <2>2 DEF PermissionsPages, Touchable
<1> QED
  BY <1>1, <1>2

\* The role that is selected again is a row of the copy.
LEMMA RoleReselectedType ==
    ASSUME NEW u \in Users, NEW old \in Guilds, NEW m \in Messages, screen[u] \in RolePages,
           HasLists(Applied(old, m))
    PROVE  RoleReselected(u, Applied(old, m), m) \in RolePages
<1> DEFINE g == Applied(old, m)
           s == screen[u]
           new == [Page("role", m.id, m.id, g.roles[m.id]) EXCEPT !.saving = s.saving]
<1>1. CASE m.type \in {"ROLE_CREATED", "ROLE_UPDATE"}
  <2>1. m.id \in Roles /\ m.data \in RoleRow
    BY <1>1 DEF Messages, Fits, FitsAs
  <2>2. g = UpsertRole(old, m.id, m.data)
    <3>1. g = IF HasLists(old) THEN Change(old, m) ELSE old
      BY <1>1, AppliedIs
    <3>2. Change(old, m) = UpsertRole(old, m.id, m.data)
      BY <1>1 DEF Change
    <3> QED
      BY <3>1, <3>2
  <2>3. g.roles[m.id] = m.data
    BY <2>1, <2>2 DEF UpsertRole, Guilds
  <2> HIDE DEF g
  <2>4. s.saving \in BOOLEAN
    BY DEF RolePages
  <2>5. new = [page |-> "role", id |-> m.id, target |-> m.id, selected |-> m.data, draft |-> m.data,
               touched |-> {}, saving |-> s.saving]
    <3>1. PICK no : no = FALSE
      OBVIOUS
    <3>2. Page("role", m.id, m.id, g.roles[m.id])
          = [page |-> "role", id |-> m.id, target |-> m.id, selected |-> m.data, draft |-> m.data,
             touched |-> {}, saving |-> no]
      BY <2>3, <3>1, Zenon DEF Page
    <3> QED
      BY <3>2
  <2>6. new \in RolePages
    BY <2>1, <2>4, <2>5 DEF RolePages, Touchable
  <2>7. RoleReselected(u, g, m) = s \/ RoleReselected(u, g, m) = new
    BY DEF RoleReselected
  <2> QED
    BY <2>6, <2>7 DEF g
<1>2. CASE m.type \notin {"ROLE_CREATED", "ROLE_UPDATE"}
  BY <1>2 DEF RoleReselected
<1> QED
  BY <1>1, <1>2

LEMMA DoneType ==
    ASSUME NEW s, NEW b \in BOOLEAN
    PROVE  /\ s \in PermissionsPages => [s EXCEPT !.saving = @ /\ ~b] \in PermissionsPages
           /\ s \in RolePages => [s EXCEPT !.saving = @ /\ ~b] \in RolePages
<1>1. PICK saving : saving = (s.saving /\ ~b)
  OBVIOUS
<1>2. saving \in BOOLEAN
  BY <1>1
<1>3. [s EXCEPT !.saving = @ /\ ~b] = [s EXCEPT !.saving = saving]
  BY <1>1
<1>4. /\ s \in PermissionsPages => [s EXCEPT !.saving = saving] \in PermissionsPages
      /\ s \in RolePages => [s EXCEPT !.saving = saving] \in RolePages
  BY <1>2 DEF PermissionsPages, RolePages
<1> QED
  BY <1>3, <1>4

LEMMA RerenderedType ==
    ASSUME Typed, NEW u \in Users, NEW m \in Messages
    PROVE  Rerendered(u, Applied(view[u], m), m) \in Screens
<1> DEFINE g == Applied(view[u], m)
<1>1. view[u] \in Guilds /\ screen[u] \in Screens
  BY DEF Typed
<1>2. g \in Guilds
  BY <1>1, AppliedType
<1>3. PICK saved : saved = (m.reply /\ m.type = "OVERWRITE")
  OBVIOUS
<1>4. PICK savedRole : savedRole = (m.reply /\ m.type = "ROLE_UPDATE")
  OBVIOUS
<1>5. saved \in BOOLEAN /\ savedRole \in BOOLEAN
  BY <1>3, <1>4
<1>6. ASSUME screen[u].page = "permissions"
      PROVE  [Reselected(u, g, m) EXCEPT !.saving = @ /\ ~saved] \in Screens
  <2>1. Reselected(u, g, m) \in PermissionsPages
    BY <1>1, <1>2, <1>6, TypedScreen, ReselectedType
  <2> QED
    BY <1>5, <2>1, DoneType DEF Screens
<1>7. ASSUME screen[u].page = "role", HasLists(g)
      PROVE  [RoleReselected(u, g, m) EXCEPT !.saving = @ /\ ~savedRole] \in Screens
  <2>1. RoleReselected(u, g, m) \in RolePages
    BY <1>1, <1>7, TypedScreen, RoleReselectedType
  <2> QED
    BY <1>5, <2>1, DoneType DEF Screens
<1>8. \/ Rerendered(u, g, m) = NoScreen
      \/ /\ screen[u].page = "permissions"
         /\ Rerendered(u, g, m) = [Reselected(u, g, m) EXCEPT !.saving = @ /\ ~saved]
      \/ /\ screen[u].page = "role" /\ HasLists(g)
         /\ Rerendered(u, g, m) = [RoleReselected(u, g, m) EXCEPT !.saving = @ /\ ~savedRole]
  <2> HIDE DEF g
  <2> QED
    BY <1>3, <1>4, Zenon DEF Rerendered
<1>9. NoScreen \in Screens
  BY DEF Screens
<1> QED
  BY <1>6, <1>7, <1>8, <1>9

LEMMA TakeType ==
    ASSUME Typed, NEW u \in Users, NEW i \in DOMAIN inbox[u], Take(u, i)
    PROVE  Typed'
<1> DEFINE m == inbox[u][i]
<1>1. view[u] \in Guilds /\ inbox[u] \in Seq(Messages) /\ screen[u] \in Screens
  BY DEF Typed
<1>2. i \in 1..Len(inbox[u]) /\ m \in Messages
  BY <1>1, ElementOfSeq
<1>3. RemoveAt(inbox[u], i) \in Seq(Messages)
  BY <1>1, <1>2, RemoveAtItems
<1>4. inbox' \in [Users -> Seq(Messages)]
  BY <1>3 DEF Take, Typed
<1>5. view' \in [Users -> Guilds]
  BY <1>1, <1>2, AppliedType DEF Take, Typed
<1>6. screen' \in [Users -> Screens]
  BY <1>2, RerenderedType DEF Take, Typed
<1>7. raced' \subseteq Users
  BY DEF Take, Typed
<1> QED
  BY <1>4, <1>5, <1>6, <1>7 DEF Take, Typed, Coherent, RolesAreHeld, ChannelsAreOrdered, RolesOf, ChannelsOf

-----------------------------------------------------------------------------
(* The settings pages *)

LEMMA ShowType ==
    ASSUME Typed, NEW u \in Users, NEW s \in Screens, Show(u, s), private' = private
    PROVE  Typed'
BY DEF Typed, Show, Coherent, RolesAreHeld, ChannelsAreOrdered, RolesOf, ChannelsOf

LEMMA OpenedPageType ==
    ASSUME Typed, NEW u \in Users
    PROVE  /\ \A c \in Channels : \A t \in TargetsOf(Shown(view[u], c)) :
                PermissionsPage(u, c, t) \in PermissionsPages
           /\ \A r \in RolesOf(view[u]) : RolePage(u, r) \in RolePages
<1>1. view[u] \in Guilds
  BY DEF Typed
<1>2. PICK no \in BOOLEAN : no = FALSE
  OBVIOUS
<1>3. ASSUME NEW page, NEW id, NEW target, NEW selected
      PROVE  Page(page, id, target, selected)
               = [page |-> page, id |-> id, target |-> target, selected |-> selected,
                  draft |-> selected, touched |-> {}, saving |-> no]
  BY <1>2, Zenon DEF Page
<1>4. ASSUME NEW c \in Channels, NEW t \in TargetsOf(Shown(view[u], c))
      PROVE  PermissionsPage(u, c, t) \in PermissionsPages
  <2>1. t \in Target /\ Shown(view[u], c)[t] \in Overwrite
    BY <1>1, <1>4, ShownType DEF TargetsOf
  <2>2. PermissionsPage(u, c, t)
        = [page |-> "permissions", id |-> c, target |-> t, selected |-> Shown(view[u], c)[t],
           draft |-> Shown(view[u], c)[t], touched |-> {}, saving |-> no]
    BY <1>3, Zenon DEF PermissionsPage
  <2> QED
    BY <1>2, <2>1, <2>2 DEF PermissionsPages, Touchable
<1>5. ASSUME NEW r \in RolesOf(view[u]) PROVE RolePage(u, r) \in RolePages
  <2>1. r \in Roles /\ view[u].roles[r] \in RoleRow
    BY <1>1, <1>5 DEF RolesOf, Guilds
  <2>2. RolePage(u, r) = [page |-> "role", id |-> r, target |-> r, selected |-> view[u].roles[r],
                          draft |-> view[u].roles[r], touched |-> {}, saving |-> no]
    BY <1>3, Zenon DEF RolePage
  <2> QED
    BY <1>2, <2>1, <2>2 DEF RolePages, Touchable
<1> QED
  BY <1>4, <1>5

LEMMA SavingKeepsType ==
    ASSUME NEW s, NEW saving \in BOOLEAN
    PROVE  /\ s \in PermissionsPages => [s EXCEPT !.saving = saving] \in PermissionsPages
           /\ s \in RolePages => [s EXCEPT !.saving = saving] \in RolePages
BY DEF PermissionsPages, RolePages

LEMMA OnPage ==
    ASSUME Typed, NEW u \in Users
    PROVE  /\ OnPermissions(u) => /\ screen[u] \in PermissionsPages
                                  /\ screen[u].id \in Channels /\ screen[u].saving \in BOOLEAN
           /\ On(u, "role") => screen[u] \in RolePages /\ screen[u].saving \in BOOLEAN
<1>1. screen[u] \in Screens
  BY DEF Typed
<1> QED
  BY <1>1, TypedScreen DEF OnPermissions, On, PermissionsPages, RolePages

LEMMA BrowseType ==
    ASSUME Typed, NEW u \in Users, Browse(u)
    PROVE  Typed'
<1>1. ASSUME Close(u) PROVE Typed'
  BY <1>1, ShowType DEF Close, Screens
<1>2. ASSUME NEW c \in Channels, OpenPermissions(u, c) PROVE Typed'
  <2>1. PermissionsPage(u, c, Everyone) \in Screens
    BY <1>2, OpenedPageType DEF OpenPermissions, Screens
  <2> QED
    BY <1>2, <2>1, ShowType DEF OpenPermissions
<1>3. ASSUME NEW t \in Target, SelectTarget(u, t) PROVE Typed'
  <2>1. [PermissionsPage(u, screen[u].id, t) EXCEPT !.saving = screen[u].saving] \in Screens
    BY <1>3, OpenedPageType, OnPage, SavingKeepsType DEF SelectTarget, Screens
  <2> QED
    BY <1>3, <2>1, ShowType DEF SelectTarget
<1>4. ASSUME NEW r \in Roles, OpenRole(u, r) PROVE Typed'
  <2>1. RolePage(u, r) \in Screens
    BY <1>4, OpenedPageType DEF OpenRole, Screens
  <2> QED
    BY <1>4, <2>1, ShowType DEF OpenRole
<1>5. ASSUME NEW r \in Roles, SelectRole(u, r) PROVE Typed'
  <2>1. [RolePage(u, r) EXCEPT !.saving = screen[u].saving] \in Screens
    BY <1>5, OpenedPageType, OnPage, SavingKeepsType DEF SelectRole, Screens
  <2> QED
    BY <1>5, <2>1, ShowType DEF SelectRole
<1> QED
  BY <1>1, <1>2, <1>3, <1>4, <1>5 DEF Browse

LEMMA DraftType ==
    ASSUME Typed, NEW u \in Users, NEW draft, NEW p \in ALL_PERMISSIONS \cup {"color"},
           Draft(u, draft, p),
           \/ screen[u] \in PermissionsPages /\ draft \in Overwrite
           \/ screen[u] \in RolePages /\ draft \in RoleRow
    PROVE  Typed'
<1>1. [screen[u] EXCEPT !.draft = draft, !.touched = screen[u].touched \cup {p}] \in Screens
  BY DEF Screens, PermissionsPages, RolePages, Touchable
<1> QED
  BY <1>1, ShowType DEF Draft

\* The checkbox changes the overwrites of one row of the copy.
Ticked(u, ows) ==
    LET c == screen[u].id IN
    /\ c \in Channels /\ view[u].channels[c] \in ChannelRow
    /\ [view[u].channels[c] EXCEPT !.overwrites = ows] \in ChannelRow
    /\ view' = [view EXCEPT ![u] = [view[u] EXCEPT !.channels = [view[u].channels EXCEPT
                   ![c] = [view[u].channels[c] EXCEPT !.overwrites = ows]]]]

LEMMA MakePrivateTicks ==
    ASSUME Typed, NEW u \in Users, MakePrivate(u)
    PROVE  \E ows \in Overwrites : Ticked(u, ows)
<1> DEFINE g == view[u]
           c == screen[u].id
           ch == g.channels[c]
           ow == ch.overwrites[Everyone]
           new == [ow EXCEPT !.deny = ow.deny \cup {VIEW_CHANNELS}]
           ows == [ch.overwrites EXCEPT ![Everyone] = new]
<1>1. g \in Guilds
  BY DEF Typed
<1>2. c \in ChannelsOf(g) /\ c \in Channels /\ ch \in ChannelRow
  BY Zenon, <1>1 DEF MakePrivate, OnPermissions, ChannelsOf, Guilds
<1>3. ow \in Overwrite /\ Everyone \in Target
  <2>1. Everyone \in TargetsOf(ch.overwrites)
    BY Zenon DEF MakePrivate
  <2> QED
    BY <1>2, <2>1 DEF TargetsOf, ChannelRow, Overwrites
<1>4. new \in Overwrite
  <2> HIDE DEF ow
  <2> QED
    BY <1>3, EditorsAssumption DEF Overwrite, Mask
<1>5. view' = [view EXCEPT ![u] = [g EXCEPT !.channels = [g.channels EXCEPT
                  ![c] = [ch EXCEPT !.overwrites = ows]]]]
  BY Zenon, <1>1, <1>2, <1>3 DEF MakePrivate
<1> HIDE DEF new
<1>6. ows \in Overwrites
  BY <1>2, <1>3, <1>4 DEF ChannelRow, Overwrites
<1>7. [ch EXCEPT !.overwrites = ows] \in ChannelRow
  <2> HIDE DEF ows
  <2> QED
    BY <1>2, <1>6 DEF ChannelRow
<1> HIDE DEF ows
<1> QED
  BY <1>2, <1>5, <1>6, <1>7 DEF Ticked

LEMMA MakePrivateType ==
    ASSUME Typed, NEW u \in Users, MakePrivate(u)
    PROVE  Typed'
<1>1. PICK ows \in Overwrites : Ticked(u, ows)
  BY MakePrivateTicks
<1>2. view' \in [Users -> Guilds]
  <2>1. view \in [Users -> Guilds] /\ view[u] \in Guilds
    BY DEF Typed
  <2>2. [view[u].channels EXCEPT ![screen[u].id] = [view[u].channels[screen[u].id] EXCEPT !.overwrites = ows]]
        \in [Channels -> ChannelRow \cup {NoRow}]
    BY <1>1, <2>1 DEF Ticked, Guilds
  <2>3. [view[u] EXCEPT !.channels = [view[u].channels EXCEPT
            ![screen[u].id] = [view[u].channels[screen[u].id] EXCEPT !.overwrites = ows]]] \in Guilds
    BY <2>1, <2>2 DEF Guilds
  <2> QED
    BY <1>1, <2>1, <2>3 DEF Ticked
<1>3. private' \in [Users -> SUBSET Channels]
  BY <1>1 DEF MakePrivate, Ticked, Typed
<1> QED
  BY Zenon, <1>2, <1>3 DEF MakePrivate, Typed, Coherent, RolesAreHeld, ChannelsAreOrdered, RolesOf, ChannelsOf

LEMMA EditType ==
    ASSUME Typed, NEW u \in Users, Edit(u)
    PROVE  Typed'
<1>1. ASSUME Reset(u) PROVE Typed'
  <2>1. [screen[u] EXCEPT !.draft = screen[u].selected, !.touched = {}] \in Screens
    BY <1>1, OnPage DEF Reset, Screens, PermissionsPages, RolePages, Touchable
  <2> QED
    BY <1>1, <2>1, ShowType DEF Reset
<1>2. ASSUME NEW p \in Clickable, ClickPermission(u, p) PROVE Typed'
  <2>1. p \in ALL_PERMISSIONS /\ screen[u] \in PermissionsPages
    BY <1>2, EditorsAssumption, OnPage DEF ClickPermission
  <2>2. ASSUME NEW ow \in Overwrite
        PROVE  Allow(ow, p) \in Overwrite /\ Deny(ow, p) \in Overwrite /\ Neither(ow, p) \in Overwrite
    BY <2>1 DEF Allow, Deny, Neither, Overwrite, Mask
  <2>3. screen[u].draft \in Overwrite
    BY <2>1 DEF PermissionsPages
  <2>4. PICK draft \in {Allow(screen[u].draft, p), Deny(screen[u].draft, p), Neither(screen[u].draft, p)} :
          Draft(u, draft, p)
    BY <1>2 DEF ClickPermission
  <2> QED
    BY <2>1, <2>2, <2>3, <2>4, DraftType
<1>3. ASSUME NEW p \in Clickable, TickPermission(u, p) PROVE Typed'
  <2>1. p \in ALL_PERMISSIONS /\ screen[u] \in RolePages
    BY <1>3, EditorsAssumption, OnPage DEF TickPermission
  <2>2. screen[u].draft \in RoleRow
    BY <2>1 DEF RolePages
  <2>3. PICK mask \in {screen[u].draft.permissions \cup {p}, screen[u].draft.permissions \ {p}} :
          Draft(u, [screen[u].draft EXCEPT !.permissions = mask], p)
    BY <1>3 DEF TickPermission
  <2>4. [screen[u].draft EXCEPT !.permissions = mask] \in RoleRow
    BY <2>1, <2>2, <2>3 DEF RoleRow, Mask
  <2> QED
    BY <2>1, <2>3, <2>4, DraftType
<1>4. ASSUME NEW color \in Colors \cup {NoColor}, PickColor(u, color) PROVE Typed'
  <2>1. screen[u] \in RolePages
    BY <1>4, OnPage DEF PickColor
  <2>2. [screen[u].draft EXCEPT !.color = color] \in RoleRow
    BY <2>1 DEF RolePages, RoleRow
  <2> QED
    BY <1>4, <2>1, <2>2, DraftType DEF PickColor
<1> QED
  BY <1>1, <1>2, <1>3, <1>4, MakePrivateType DEF Edit

-----------------------------------------------------------------------------
(* Type correctness *)

LEMMA DefaultGuildTyped == DefaultGuild \in Guilds /\ Coherent(DefaultGuild)
<1> DEFINE g == DefaultGuild
           open == [Blank EXCEPT !.overwrites[Everyone] = [allow |-> {}, deny |-> {}]]
           text == [Blank EXCEPT !.parent = Category, !.isSynced = TRUE]
           everyone == [permissions |-> {VIEW_CHANNELS}, color |-> NoColor, position |-> 0]
           moderator == [permissions |-> ALL_PERMISSIONS, color |-> NoColor, position |-> 1]
<1>1. Blank \in ChannelRow /\ Blank.parent = NoParent /\ Blank.overwrites = NoOverwrites
  BY BlankType DEF Blank
<1>2. open \in ChannelRow /\ open.parent = NoParent /\ open.isSynced = FALSE
  <2>1. [allow |-> {}, deny |-> {}] \in Overwrite
    BY DEF Overwrite, Mask
  <2>2. [NoOverwrites EXCEPT ![Everyone] = [allow |-> {}, deny |-> {}]] \in Overwrites
    BY <2>1, BlankType DEF Overwrites
  <2>3. open = [Blank EXCEPT !.overwrites = [NoOverwrites EXCEPT ![Everyone] = [allow |-> {}, deny |-> {}]]]
    BY <1>1 DEF Blank
  <2>4. Blank.isSynced = FALSE
    BY DEF Blank
  <2> QED
    BY <1>1, <2>2, <2>3, <2>4 DEF ChannelRow
<1>3. text \in ChannelRow /\ text.parent = Category /\ text.overwrites = NoOverwrites
  BY <1>1, EditorsAssumption DEF ChannelRow
<1>4. everyone \in RoleRow /\ moderator \in RoleRow
  BY EditorsAssumption DEF RoleRow, Mask
<1>5. g.channels = [c \in Channels |-> IF c = Category THEN open ELSE IF c = Text THEN text ELSE NoRow]
  BY DEF DefaultGuild
<1>6. g.roles = [r \in Roles |-> IF r = Everyone THEN everyone ELSE IF r = Moderator THEN moderator ELSE NoRow]
  BY DEF DefaultGuild
<1>7. /\ g.present = TRUE /\ g.members = Users /\ g.name \in Names
      /\ g.memberRoles = [u \in Users |-> IF u = Owner THEN {} ELSE {Moderator}]
  BY <1>1 DEF DefaultGuild, ChannelRow
<1>8. g = [present |-> g.present, name |-> g.name, members |-> g.members, memberRoles |-> g.memberRoles,
           roles |-> g.roles, channels |-> g.channels]
  BY DEF DefaultGuild
<1> HIDE DEF g, open, text, everyone, moderator
<1>9. g \in Guilds
  <2>1. g.channels \in [Channels -> ChannelRow \cup {NoRow}]
    BY <1>2, <1>3, <1>5
  <2>2. g.roles \in [Roles -> RoleRow \cup {NoRow}]
    BY <1>4, <1>6
  <2>3. g.memberRoles \in [Users -> SUBSET Roles]
    BY <1>7, EditorsAssumption
  <2> QED
    BY <1>7, <1>8, <2>1, <2>2, <2>3 DEF Guilds
<1>10. open # NoRow /\ text # NoRow /\ everyone # NoRow /\ moderator # NoRow
  BY <1>2, <1>3, <1>4, RowAssumption
<1>11. RolesAreHeld(g)
  BY <1>6, <1>7, <1>10, EditorsAssumption DEF RolesAreHeld, RolesOf
<1>12. ChannelsAreOrdered(g)
  BY <1>2, <1>3, <1>5, <1>10, EditorsAssumption DEF ChannelsAreOrdered, ChannelsOf
<1> QED
  BY <1>7, <1>9, <1>11, <1>12 DEF Coherent, g

LEMMA InitTyped == Init => Typed
<1> SUFFICES ASSUME Init PROVE Typed
  OBVIOUS
<1>1. server \in Guilds /\ Coherent(server)
  BY DefaultGuildTyped DEF Init
<1>2. view \in [Users -> Guilds]
  BY <1>1 DEF Init
<1>3. inbox \in [Users -> Seq(Messages)]
  <2>1. << >> \in Seq(Messages)
    BY EmptySeq
  <2> QED
    BY <2>1 DEF Init
<1>4. screen \in [Users -> Screens] /\ private \in [Users -> SUBSET Channels]
  BY DEF Init, Screens
<1>5. issued \subseteq Channels \cup Roles /\ clicks \in [Users -> Nat] /\ raced \subseteq Users
  BY DEF Init, ChannelsOf, RolesOf
<1> QED
  BY <1>1, <1>2, <1>3, <1>4, <1>5 DEF Typed

LEMMA NextTyped == Typed /\ [Next]_vars => Typed'
<1> SUFFICES ASSUME Typed, [Next]_vars PROVE Typed'
  OBVIOUS
<1>1. CASE UNCHANGED vars
  BY <1>1 DEF vars, Typed, Coherent, RolesAreHeld, ChannelsAreOrdered, RolesOf, ChannelsOf
<1>2. ASSUME NEW u \in Users, Browse(u) PROVE Typed'
  BY <1>2, BrowseType
<1>3. ASSUME NEW u \in Users, Edit(u) PROVE Typed'
  BY <1>3, EditType
<1>4. ASSUME NEW u \in Users, Request(u) PROVE Typed'
  BY <1>4, RequestType
<1>5. ASSUME NEW u \in Users, NEW i \in DOMAIN inbox[u], Take(u, i) PROVE Typed'
  BY <1>5, TakeType
<1> QED
  BY <1>1, <1>2, <1>3, <1>4, <1>5 DEF Next, Request

\* The form that every step preserves: TypeOK's parts, and what is asked of messages under
\* way and of open pages for it (guilds-store.ts, mutations.ts, roles-settings-section.tsx).
THEOREM TypedAlways == Spec => []Typed
BY InitTyped, NextTyped, PTL DEF Spec

\* Whatever the members ask for and in whatever order the answers and events reach them,
\* the database, every client's copy and every settings page keep their form, and on the
\* server only members hold roles, that exist (guilds.service.ts, guilds-store.ts).
THEOREM TypeCorrect == Spec => []TypeOK
BY TypedAlways, TypedGivesTypeOK, PTL

-----------------------------------------------------------------------------
(* The order of what is under way *)

\* What gives a row the parent k.
Carries(m, k) == m.type = "CHANNEL_UPDATE" /\ "parent" \in DOMAIN m.data /\ m.data.parent = k

\* A deletion comes after everything that puts a row under what it deletes, and for good.
DeletionsAreLast ==
    \A u \in Users : \A j \in DOMAIN inbox[u] : inbox[u][j].type = "CHANNEL_DELETE" =>
        /\ inbox[u][j].id \in issued \ ChannelsOf(server)
        /\ \A i \in DOMAIN inbox[u] : Carries(inbox[u][i], inbox[u][j].id) => i < j

\* No other answer is under way with the one to a rename, and if the channel is deleted in
\* the meantime nothing is left under it.
Left(g, box, k) ==
    /\ k \notin ChannelsOf(server)
    /\ \A c \in ChannelsOf(g) : g.channels[c].parent # k
    /\ \A j \in DOMAIN box : ~Carries(box[j], k)

Alone(g, box, i) ==
    /\ \A j \in DOMAIN box : box[j].reply => j = i
    /\ box[i].id \in issued
    /\ box[i].id \in ChannelsOf(g) \/ Left(g, box, box[i].id)

RenamesAreAlone ==
    \A u \in Users : \A i \in DOMAIN inbox[u] :
        inbox[u][i].type = "RENAMED" => Alone(view[u], inbox[u], i)

InOrder == ChannelsOf(server) \subseteq issued /\ DeletionsAreLast /\ RenamesAreAlone

LEMMA MessageFields ==
    ASSUME NEW type, NEW id, NEW data, NEW about
    PROVE  /\ Reply(Message(type, id, data, about)).type = type
           /\ Reply(Message(type, id, data, about)).id = id
           /\ Reply(Message(type, id, data, about)).data = data
           /\ Event(Message(type, id, data, about)).type = type
           /\ Event(Message(type, id, data, about)).id = id
           /\ Event(Message(type, id, data, about)).data = data
           /\ ~Event(Message(type, id, data, about)).reply
<1>1. PICK yes : yes = TRUE
  OBVIOUS
<1>2. PICK no : no = FALSE
  OBVIOUS
<1>3. /\ Reply(Message(type, id, data, about))
           = [type |-> type, id |-> id, data |-> data, about |-> about, reply |-> yes]
      /\ Event(Message(type, id, data, about))
           = [type |-> type, id |-> id, data |-> data, about |-> about, reply |-> no]
  BY <1>1, <1>2, MessageParts, Zenon
<1>4. PICK r, e : r = Reply(Message(type, id, data, about)) /\ e = Event(Message(type, id, data, about))
  OBVIOUS
<1>5. /\ r = [type |-> type, id |-> id, data |-> data, about |-> about, reply |-> yes]
      /\ e = [type |-> type, id |-> id, data |-> data, about |-> about, reply |-> no]
  BY <1>3, <1>4, Zenon
<1>6. r.type = type /\ r.id = id /\ r.data = data /\ e.type = type /\ e.id = id /\ e.data = data /\ e.reply = no
  BY <1>5
<1> QED
  BY <1>2, <1>4, <1>6, Zenon

\* What a request may say of the channels, when the server makes g of the guild.
Says(g, m) ==
    /\ m.type = "CHANNEL_DELETE" => m.id \in ChannelsOf(server) \ ChannelsOf(g)
    /\ \A k \in Channels : Carries(m, k) => k \in ChannelsOf(server)

Rename(u, m) ==
    m.type = "RENAMED" =>
        /\ m.id \in ChannelsOf(server) \cap ChannelsOf(view[u])
        /\ \A i \in DOMAIN inbox[u] : ~inbox[u][i].reply

Handled(u) ==
    \E g, event, reply :
        /\ Handle(u, g, event, reply)
        /\ issued \subseteq issued' /\ ChannelsOf(g) \subseteq ChannelsOf(server) \cup (issued' \ issued)
        /\ Says(g, Event(event)) /\ Says(g, Reply(reply))
        /\ Event(event).type # "RENAMED" /\ ~Event(event).reply
        /\ Rename(u, Reply(reply))

LEMMA RowKept ==
    ASSUME Typed, NEW c \in ChannelsOf(server), NEW ch \in ChannelRow
    PROVE  ChannelsOf([server EXCEPT !.channels[c] = ch]) = ChannelsOf(server)
<1>1. c \in Channels /\ server \in Guilds
  BY DEF Typed, ChannelsOf
<1>2. ch # NoRow
  BY RowAssumption
<1>3. [server EXCEPT !.channels[c] = ch].channels = [server.channels EXCEPT ![c] = ch]
  BY <1>1 DEF Guilds
<1> QED
  BY <1>1, <1>2, <1>3 DEF ChannelsOf, Guilds

LEMMA PartsCarryNothing ==
    ASSUME NEW ch, NEW k
    PROVE  /\ "parent" \notin DOMAIN Bare(ch)
           /\ "parent" \notin DOMAIN WithOverwrites(ch)
BY DEF Bare, WithOverwrites

LEMMA ToldHandled ==
    ASSUME Typed, NEW u \in Users, NEW g, NEW type, NEW id, NEW data, NEW about,
           Told(u, g, Message(type, id, data, about)),
           issued \subseteq issued', ChannelsOf(g) \subseteq ChannelsOf(server) \cup (issued' \ issued),
           type # "RENAMED",
           type = "CHANNEL_DELETE" => id \in ChannelsOf(server) \ ChannelsOf(g),
           type = "CHANNEL_UPDATE" /\ "parent" \in DOMAIN data /\ data.parent \in Channels =>
               data.parent \in ChannelsOf(server)
    PROVE  Handled(u)
<1> DEFINE m == Message(type, id, data, about)
<1>1. Handle(u, g, m, m)
  BY DEF Told
<1>2. Says(g, Event(m)) /\ Says(g, Reply(m)) /\ Event(m).type # "RENAMED" /\ ~Event(m).reply
      /\ Rename(u, Reply(m))
  <2>1. PICK e, r : /\ e = Event(Message(type, id, data, about))
                    /\ r = Reply(Message(type, id, data, about))
    OBVIOUS
  <2>2. /\ e.type = type /\ e.id = id /\ e.data = data
        /\ r.type = type /\ r.id = id /\ r.data = data
    BY <2>1, MessageFields
  <2>3. Says(g, e) /\ Says(g, r) /\ e.type # "RENAMED" /\ Rename(u, r)
    BY <2>2 DEF Says, Carries, Rename
  <2>4. ~e.reply
    BY <2>1, MessageFields
  <2> QED
    BY <2>1, <2>3, <2>4, Zenon
<1> HIDE DEF m
<1> QED
  BY <1>1, <1>2 DEF Handled

LEMMA BothHandled ==
    ASSUME Typed, NEW u \in Users, NEW g, NEW type, NEW id, NEW data, NEW about,
           NEW answer, NEW id2, NEW data2, NEW about2,
           Handle(u, g, Message(type, id, data, about), Message(answer, id2, data2, about2)),
           issued \subseteq issued', ChannelsOf(g) \subseteq ChannelsOf(server) \cup (issued' \ issued),
           type \notin {"RENAMED", "CHANNEL_DELETE"}, answer \notin {"CHANNEL_UPDATE", "CHANNEL_DELETE"},
           type = "CHANNEL_UPDATE" => "parent" \notin DOMAIN data,
           answer = "RENAMED" => /\ id2 \in ChannelsOf(server) \cap ChannelsOf(view[u])
                                 /\ \A i \in DOMAIN inbox[u] : ~inbox[u][i].reply
    PROVE  Handled(u)
<1> DEFINE em == Message(type, id, data, about)
           rm == Message(answer, id2, data2, about2)
<1>1. Says(g, Event(em)) /\ Says(g, Reply(rm)) /\ Event(em).type # "RENAMED" /\ ~Event(em).reply
      /\ Rename(u, Reply(rm))
  <2>1. PICK e, r : /\ e = Event(Message(type, id, data, about))
                    /\ r = Reply(Message(answer, id2, data2, about2))
    OBVIOUS
  <2>2. /\ e.type = type /\ e.id = id /\ e.data = data
        /\ r.type = answer /\ r.id = id2 /\ r.data = data2
    BY <2>1, MessageFields
  <2>3. Says(g, e) /\ Says(g, r) /\ e.type # "RENAMED" /\ Rename(u, r)
    BY <2>2 DEF Says, Carries, Rename
  <2>4. ~e.reply
    BY <2>1, MessageFields
  <2> QED
    BY <2>1, <2>3, <2>4, Zenon
<1> HIDE DEF em, rm
<1> QED
  BY <1>1 DEF Handled, em, rm

LEMMA AsksHandled ==
    ASSUME Typed, NEW u \in Users, Asks(u)
    PROVE  Handled(u)
<1>1. ASSUME NEW c \in Channels, NEW ch \in ChannelRow, Creates(u, c, ch) PROVE Handled(u)
  <2> DEFINE g == [server EXCEPT !.channels[c] = ch]
  <2>1. g.channels = [server.channels EXCEPT ![c] = ch]
    BY DEF Typed, Guilds
  <2>2. ChannelsOf(g) \subseteq ChannelsOf(server) \cup {c}
    BY <2>1 DEF ChannelsOf, Typed, Guilds
  <2>3. /\ c \notin issued /\ issued' = issued \cup {c}
        /\ ch.parent # NoParent => ch.parent \in ChannelsOf(server)
        /\ Told(u, g, Message("CHANNEL_UPDATE", c, ch, {c, ch.parent}))
    BY <1>1 DEF Creates
  <2> HIDE DEF g
  <2>4. ChannelsOf(g) \subseteq ChannelsOf(server) \cup (issued' \ issued)
    BY <2>2, <2>3
  <2>5. ch.parent \in Channels => ch.parent \in ChannelsOf(server)
    BY <2>3, EditorsAssumption
  <2> QED
    BY <2>3, <2>4, <2>5, ToldHandled
<1>2. ASSUME NEW c \in Channels, Deletes(u, c) PROVE Handled(u)
  <2> DEFINE g == WithoutChannel(server, c)
  <2>1. ChannelsOf(g) \subseteq ChannelsOf(server) /\ c \notin ChannelsOf(g)
    BY DEF WithoutChannel, ChannelsOf, Typed, Guilds
  <2>2. c \in ChannelsOf(server) /\ issued' = issued /\ Told(u, g, Message("CHANNEL_DELETE", c, NoRow, {c}))
    BY <1>2 DEF Deletes
  <2> HIDE DEF g
  <2> QED
    BY <2>1, <2>2, ToldHandled
<1>3. ASSUME NEW c \in Channels, Syncs(u, c) PROVE Handled(u)
  <2> DEFINE ch == [server.channels[c] EXCEPT !.isSynced = TRUE, !.overwrites = NoOverwrites]
             g == [server EXCEPT !.channels[c] = ch]
  <2>1. c \in ChannelsOf(server) /\ issued' = issued
        /\ Told(u, g, Message("CHANNEL_UPDATE", c, Bare(ch), {c}))
    BY <1>3 DEF Syncs
  <2>2. ch \in ChannelRow
    BY <2>1, ServerRow, BlankType DEF ChannelRow
  <2>3. ChannelsOf(g) = ChannelsOf(server)
    <3> HIDE DEF ch
    <3> QED
      BY <2>1, <2>2, RowKept
  <2> HIDE DEF g, ch
  <2> QED
    BY <2>1, <2>3, PartsCarryNothing, ToldHandled
<1>4. ASSUME NEW c \in Channels, NEW n \in Names, Renames(u, c, n) PROVE Handled(u)
  <2> DEFINE ch == [server.channels[c] EXCEPT !.name = n]
             g == [server EXCEPT !.channels[c] = ch]
             answer == [view[u].channels[c] EXCEPT !.name = n]
  <2>1. /\ c \in ChannelsOf(server) \cap ChannelsOf(view[u]) /\ issued' = issued
        /\ \A i \in DOMAIN inbox[u] : ~inbox[u][i].reply
        /\ Handle(u, g, Message("CHANNEL_UPDATE", c, Bare(ch), {c}), Message("RENAMED", c, answer, {c}))
    BY <1>4 DEF Renames
  <2>2. ch \in ChannelRow
    BY <2>1, ServerRow DEF ChannelRow
  <2>3. ChannelsOf(g) = ChannelsOf(server)
    <3> HIDE DEF ch
    <3> QED
      BY <2>1, <2>2, RowKept
  <2> HIDE DEF g, ch, answer
  <2> QED
    BY <2>1, <2>3, PartsCarryNothing, BothHandled
<1>5. ASSUME NEW c \in Channels, NEW row \in Overwrites, SetsOverwrite(u, c, row) PROVE Handled(u)
  <2> DEFINE ch == Overwritten(c, row)
             g == [server EXCEPT !.channels[c] = ch]
             about == {c, view[u].channels[c].parent}
  <2>1. /\ c \in ChannelsOf(server) /\ issued' = issued
        /\ Handle(u, g, Message("CHANNEL_UPDATE", c, WithOverwrites(ch), {c}), Message("OVERWRITE", c, row, about))
    BY <1>5 DEF SetsOverwrite
  <2>2. ch \in ChannelRow
    BY <2>1, OverwrittenType
  <2> HIDE DEF ch
  <2>3. ChannelsOf(g) = ChannelsOf(server)
    BY <2>1, <2>2, RowKept
  <2> HIDE DEF g, about
  <2> QED
    BY <2>1, <2>3, PartsCarryNothing, BothHandled
<1>6. ASSUME NEW c \in Channels, NEW t \in Target, DropsOverwrite(u, c, t) PROVE Handled(u)
  <2> DEFINE ch == [server.channels[c] EXCEPT !.overwrites[t] = NoRow]
             g == [server EXCEPT !.channels[c] = ch]
  <2>1. /\ c \in ChannelsOf(server) /\ issued' = issued
        /\ Handle(u, g, Message("CHANNEL_UPDATE", c, WithOverwrites(ch), {c}), Message("OVERWRITE_DELETE", c, t, {c}))
    BY <1>6 DEF DropsOverwrite
  <2>2. ch \in ChannelRow
    <3>1. server.channels[c] \in ChannelRow
      BY <2>1, ServerRow
    <3>2. [server.channels[c].overwrites EXCEPT ![t] = NoRow] \in Overwrites
      BY <3>1 DEF ChannelRow, Overwrites
    <3> QED
      BY <3>1, <3>2 DEF ChannelRow
  <2>3. ChannelsOf(g) = ChannelsOf(server)
    <3> HIDE DEF ch
    <3> QED
      BY <2>1, <2>2, RowKept
  <2> HIDE DEF g, ch
  <2> QED
    BY <2>1, <2>3, PartsCarryNothing, BothHandled
<1>7. ASSUME NEW n \in Names, RenamesGuild(u, n) PROVE Handled(u)
  <2> DEFINE g == [server EXCEPT !.name = n]
  <2>1. issued' = issued /\ Told(u, g, Message("GUILD_UPDATE", NoRow, n, {"guild"}))
    BY <1>7 DEF RenamesGuild
  <2>2. ChannelsOf(g) = ChannelsOf(server)
    BY DEF ChannelsOf, Typed, Guilds
  <2> HIDE DEF g
  <2> QED
    BY <2>1, <2>2, ToldHandled
<1>8. ASSUME Leaves(u) PROVE Handled(u)
  <2> DEFINE g == RemoveMember(server, u)
             about == Target \cup Channels \cup {"guild"}
  <2>1. issued' = issued
        /\ Handle(u, g, Message("MEMBER_LEAVE", u, NoRow, {u}), Message("LEFT", u, NoRow, about))
    BY <1>8 DEF Leaves
  <2>2. ChannelsOf(g) = ChannelsOf(server)
    BY DEF ChannelsOf, RemoveMember, Typed, Guilds
  <2> HIDE DEF g, about
  <2> QED
    BY <2>1, <2>2, BothHandled
<1>9. ASSUME NEW r \in Roles, NEW row \in RoleRow, SavesRole(u, r, row) PROVE Handled(u)
  <2> DEFINE g == UpsertRole(server, r, row)
  <2>1. issued' = issued /\ Told(u, g, Message("ROLE_UPDATE", r, row, {r}))
    BY <1>9 DEF SavesRole
  <2>2. ChannelsOf(g) = ChannelsOf(server)
    BY DEF ChannelsOf, UpsertRole, Typed, Guilds
  <2> HIDE DEF g
  <2> QED
    BY <2>1, <2>2, ToldHandled
<1>10. ASSUME NEW r \in Roles, NEW row \in RoleRow, NEW g, CreatesRole(u, r, row, g) PROVE Handled(u)
  <2>1. /\ issued' = issued \cup {r} /\ g = [server EXCEPT !.roles = g.roles]
        /\ Handle(u, g, Message("ROLE_UPDATE", r, row, {r}), Message("ROLE_CREATED", r, row, {r}))
    BY <1>10 DEF CreatesRole
  <2>2. ChannelsOf(g) = ChannelsOf(server)
    BY <2>1 DEF ChannelsOf, Typed, Guilds
  <2> QED
    BY <2>1, <2>2, BothHandled
<1>11. ASSUME NEW r \in Roles, DeletesRole(u, r) PROVE Handled(u)
  <2> DEFINE g == RemoveRole(server, r)
  <2>1. issued' = issued /\ Told(u, g, Message("ROLE_DELETE", r, NoRow, {r}))
    BY <1>11 DEF DeletesRole
  <2>2. ChannelsOf(g) = ChannelsOf(server)
    BY DEF ChannelsOf, RemoveRole, Typed, Guilds
  <2> HIDE DEF g
  <2> QED
    BY <2>1, <2>2, ToldHandled
<1>12. ASSUME NEW data \in MemberData, SetsMembers(u, data) PROVE Handled(u)
  <2> DEFINE g == UpsertMembers(server, data)
             about == DOMAIN data \cup UNION {data[v] : v \in DOMAIN data}
  <2>1. issued' = issued /\ Told(u, g, Message("MEMBERS_UPDATE", NoRow, data, about))
    BY <1>12 DEF SetsMembers
  <2>2. ChannelsOf(g) = ChannelsOf(server)
    BY DEF ChannelsOf, UpsertMembers, Typed, Guilds
  <2> HIDE DEF g, about
  <2> QED
    BY <2>1, <2>2, ToldHandled
<1> QED
  BY <1>1, <1>2, <1>3, <1>4, <1>5, <1>6, <1>7, <1>8, <1>9, <1>10, <1>11, <1>12 DEF Asks

\* What is in a queue that has grown by one message.
LEMMA AppendItems ==
    ASSUME NEW S, NEW s \in Seq(S), NEW m, NEW t, t = Append(s, m)
    PROVE  \A i \in DOMAIN t : (i \in DOMAIN s /\ t[i] = s[i] /\ i < Len(s) + 1) \/ (i = Len(s) + 1 /\ t[i] = m)
<1>1. t \in Seq(S \cup {m}) /\ Len(t) = Len(s) + 1 /\ t[Len(s) + 1] = m /\ \A i \in 1..Len(s) : t[i] = s[i]
  <2>1. s \in Seq(S \cup {m})
    OBVIOUS
  <2> QED
    BY <2>1, AppendProperties
<1>2. DOMAIN t = 1..(Len(s) + 1) /\ DOMAIN s = 1..Len(s) /\ Len(s) \in Nat
  BY <1>1
<1> QED
  BY <1>1, <1>2

LEMMA HandledInOrder ==
    ASSUME Typed, NEW u \in Users, InOrder, Handled(u)
    PROVE  InOrder'
<1>1. PICK g, event, reply :
        /\ Handle(u, g, event, reply)
        /\ issued \subseteq issued' /\ ChannelsOf(g) \subseteq ChannelsOf(server) \cup (issued' \ issued)
        /\ Says(g, Event(event)) /\ Says(g, Reply(reply))
        /\ Event(event).type # "RENAMED" /\ ~Event(event).reply
        /\ Rename(u, Reply(reply))
  BY DEF Handled
<1>2. /\ server' = g /\ view' = view
      /\ ChannelsOf(server)' = ChannelsOf(g)
      /\ \A v \in Users : inbox'[v] = IF v = u THEN Append(inbox[v], Reply(reply))
                                     ELSE IF v \in server.members THEN Append(inbox[v], Event(event))
                                     ELSE inbox[v]
      /\ \A i \in DOMAIN inbox[u] : inbox[u][i].type # "RENAMED"
  BY <1>1 DEF Handle, AwaitsRename, ChannelsOf
<1>3. \A k \in issued \ ChannelsOf(server) : k \in issued' \ ChannelsOf(server)'
  BY <1>1, <1>2
<1>4. ChannelsOf(server)' \subseteq issued'
  BY <1>1, <1>2 DEF InOrder
<1> DEFINE Added(v, m) == /\ \A i \in DOMAIN inbox'[v] :
                               \/ i \in DOMAIN inbox[v] /\ inbox'[v][i] = inbox[v][i] /\ i < Len(inbox[v]) + 1
                               \/ i = Len(inbox[v]) + 1 /\ inbox'[v][i] = m
                          /\ Says(g, m)
                          /\ \/ v = u /\ Rename(u, m)
                             \/ m.type # "RENAMED" /\ ~m.reply
<1>5. ASSUME NEW v \in Users
      PROVE  inbox'[v] = inbox[v] \/ \E m : Added(v, m)
  <2>1. inbox[v] \in Seq(Messages)
    BY DEF Typed
  <2>2. CASE v = u
    <3>1. inbox'[v] = Append(inbox[v], Reply(reply))
      BY <1>2, <2>2
    <3> QED
      BY <1>1, <2>1, <2>2, <3>1, AppendItems
  <2>3. CASE v # u /\ v \in server.members
    <3>1. inbox'[v] = Append(inbox[v], Event(event))
      BY <1>2, <2>3
    <3> QED
      BY <1>1, <2>1, <2>3, <3>1, AppendItems
  <2> QED
    BY <1>2, <2>2, <2>3
<1> HIDE DEF Added
<1>6. DeletionsAreLast'
  <2> SUFFICES ASSUME NEW v \in Users, NEW box, box = inbox'[v], NEW j \in DOMAIN box,
                      box[j].type = "CHANNEL_DELETE"
               PROVE  /\ box[j].id \in issued' \ ChannelsOf(server)'
                      /\ \A i \in DOMAIN box : Carries(box[i], box[j].id) => i < j
    BY DEF DeletionsAreLast, Carries
  <2> DEFINE k == box[j].id
  <2>1. ASSUME j \in DOMAIN inbox[v], box[j] = inbox[v][j]
        PROVE  /\ k \in Channels /\ k \notin ChannelsOf(server) /\ k \in issued' \ ChannelsOf(server)'
               /\ \A i \in DOMAIN inbox[v] : Carries(inbox[v][i], k) => i < j
    <3>1. /\ inbox[v][j].id \in issued \ ChannelsOf(server)
          /\ \A i \in DOMAIN inbox[v] : Carries(inbox[v][i], inbox[v][j].id) => i < j
      BY <2>1 DEF InOrder, DeletionsAreLast
    <3>2. inbox[v][j] \in Messages
      BY <2>1, ElementOfSeq DEF Typed
    <3>3. inbox[v][j].id \in Channels
      BY <2>1, <3>2 DEF Messages, Fits, FitsAs
    <3> QED
      BY <1>3, <2>1, <3>1, <3>3
  <2>2. CASE box = inbox[v]
    BY <2>1, <2>2
  <2>3. CASE box # inbox[v]
    <3>1. PICK m : Added(v, m)
      BY <1>5, <2>3
    <3>2. CASE j = Len(inbox[v]) + 1 /\ box[j] = m
      <4>1. m.id \in ChannelsOf(server) \ ChannelsOf(g)
        BY <3>1, <3>2 DEF Added, Says
      <4>2. m.id \in issued' \ ChannelsOf(server)'
        BY <1>1, <1>2, <4>1 DEF InOrder
      <4>3. ASSUME NEW i \in DOMAIN box, Carries(box[i], m.id) PROVE i < j
        <5>1. box[i] # m
          BY <3>2, <4>3 DEF Carries
        <5> QED
          BY <3>1, <3>2, <5>1 DEF Added
      <4> QED
        BY <3>2, <4>2, <4>3
    <3>3. CASE j \in DOMAIN inbox[v] /\ box[j] = inbox[v][j]
      <4>1. ~Carries(m, k) /\ j < Len(inbox[v]) + 1
        BY <2>1, <3>1, <3>3 DEF Added, Says
      <4> QED
        BY <2>1, <3>1, <3>3, <4>1 DEF Added
    <3> QED
      BY <3>1, <3>2, <3>3 DEF Added
  <2> QED
    BY <2>2, <2>3
<1>7. RenamesAreAlone'
  <2> SUFFICES ASSUME NEW v \in Users, NEW box, box = inbox'[v], NEW i \in DOMAIN box, box[i].type = "RENAMED"
               PROVE  /\ \A j \in DOMAIN box : box[j].reply => j = i
                      /\ box[i].id \in issued'
                      /\ \/ box[i].id \in ChannelsOf(view[v])
                         \/ /\ box[i].id \notin ChannelsOf(server)'
                            /\ \A c \in ChannelsOf(view[v]) : view[v].channels[c].parent # box[i].id
                            /\ \A j \in DOMAIN box : ~Carries(box[j], box[i].id)
    BY <1>2 DEF RenamesAreAlone, Alone, Left, ChannelsOf, Carries
  <2> DEFINE k == box[i].id
  <2>1. ASSUME i \in DOMAIN inbox[v], box[i] = inbox[v][i]
        PROVE  /\ k \in Channels
               /\ \A j \in DOMAIN inbox[v] : inbox[v][j].reply => j = i
               /\ k \in issued /\ k \in issued'
               /\ \/ k \in ChannelsOf(view[v])
                  \/ /\ k \notin ChannelsOf(server) /\ k \notin ChannelsOf(server)'
                     /\ \A c \in ChannelsOf(view[v]) : view[v].channels[c].parent # k
                     /\ \A j \in DOMAIN inbox[v] : ~Carries(inbox[v][j], k)
    <3>1. Alone(view[v], inbox[v], i)
      BY <2>1 DEF InOrder, RenamesAreAlone
    <3>2. inbox[v][i] \in Messages
      BY <2>1, ElementOfSeq DEF Typed
    <3>3. inbox[v][i].id \in Channels
      BY <2>1, <3>2 DEF Messages, Fits, FitsAs
    <3> QED
      BY <1>1, <1>3, <2>1, <3>1, <3>3 DEF Alone, Left
  <2>2. CASE box = inbox[v]
    BY <2>1, <2>2
  <2>3. CASE box # inbox[v]
    <3>1. PICK m : Added(v, m)
      BY <1>5, <2>3
    <3>2. CASE i = Len(inbox[v]) + 1 /\ box[i] = m
      <4>1. /\ v = u /\ m.id \in ChannelsOf(server) \cap ChannelsOf(view[u])
            /\ \A j \in DOMAIN inbox[u] : ~inbox[u][j].reply
        BY <3>1, <3>2 DEF Added, Rename
      <4> QED
        BY <1>1, <1>2, <3>1, <3>2, <4>1 DEF Added, InOrder
    <3>3. CASE i \in DOMAIN inbox[v] /\ box[i] = inbox[v][i]
      <4>1. v # u /\ m.type # "RENAMED" /\ ~m.reply
        BY <1>2, <3>1, <3>3 DEF Added
      <4>2. ASSUME k \in Channels, k \notin ChannelsOf(server) PROVE ~Carries(m, k)
        BY <3>1, <4>2 DEF Added, Says
      <4> QED
        BY <2>1, <3>1, <3>3, <4>1, <4>2 DEF Added
    <3> QED
      BY <3>1, <3>2, <3>3 DEF Added
  <2> QED
    BY <2>2, <2>3
<1> QED
  BY <1>4, <1>6, <1>7 DEF InOrder

-----------------------------------------------------------------------------
(* What a message leaves of the channels and the roles of a copy *)

OnlyAt(g, h, c) == \A d \in Channels \ {c} : h.channels[d] = g.channels[d]

LEMMA MergedAt ==
    ASSUME NEW g \in Guilds, NEW c, NEW row
    PROVE  OnlyAt(g, MergeOverwrite(g, c, row), c)
BY DEF OnlyAt, MergeOverwrite, Guilds

LEMMA DroppedAt ==
    ASSUME NEW g \in Guilds, NEW c, NEW t
    PROVE  OnlyAt(g, DropOverwrite(g, c, t), c)
BY DEF OnlyAt, DropOverwrite, Guilds

\* The channels of h, which g has become with m.
ChannelsFollow(g, m, h) ==
    /\ m.type \in {"GUILD_UPDATE", "MEMBERS_UPDATE", "MEMBER_LEAVE", "ROLE_UPDATE", "ROLE_CREATED",
                   "ROLE_DELETE"} => h.channels = g.channels
    /\ ~HasLists(g) /\ m.type # "LEFT" => h.channels = g.channels
    /\ m.type = "LEFT" => \A c \in Channels : h.channels[c] = NoRow
    /\ HasLists(g) /\ m.type \in {"CHANNEL_UPDATE", "RENAMED"} =>
         h.channels = [g.channels EXCEPT
             ![m.id] = Merge(IF g.channels[m.id] = NoRow THEN Blank ELSE g.channels[m.id], m.data)]
    /\ HasLists(g) /\ m.type = "CHANNEL_DELETE" =>
         h.channels = [d \in Channels |->
             IF d = m.id \/ g.channels[d] = NoRow THEN NoRow
             ELSE IF g.channels[d].parent = m.id THEN [g.channels[d] EXCEPT !.parent = NoParent]
             ELSE g.channels[d]]
    /\ m.type \in {"OVERWRITE", "OVERWRITE_DELETE"} =>
         /\ \A c \in Channels \ {m.id} : h.channels[c] = g.channels[c]
         /\ g.channels[m.id] = NoRow => h.channels[m.id] = NoRow

LEMMA ChannelsAfter ==
    ASSUME NEW g \in Guilds, NEW m \in Messages, NEW h, h = Applied(g, m)
    PROVE  ChannelsFollow(g, m, h)
<1> USE DEF ChannelsFollow
<1>1. Fits(m)
  BY DEF Messages
<1>2. CASE ~HasLists(g) /\ m.type # "LEFT"
  <2>1. h = IF m.type = "GUILD_UPDATE" THEN [g EXCEPT !.present = TRUE, !.name = m.data] ELSE g
    BY <1>2, AppliedIs
  <2> QED
    BY <1>2, <2>1 DEF Guilds
<1>3. CASE m.type = "LEFT"
  <2>1. h = NoGuild(g)
    BY <1>3, AppliedIs
  <2>2. h.channels = [c \in Channels |-> NoRow]
    BY <2>1 DEF NoGuild, Guilds
  <2> QED
    BY <1>3, <2>2
<1>4. CASE m.type = "GUILD_UPDATE"
  <2>1. h = [g EXCEPT !.present = TRUE, !.name = m.data]
    BY <1>4, AppliedIs
  <2> QED
    BY <1>4, <2>1 DEF Guilds
<1>5. CASE HasLists(g) /\ m.type \notin {"GUILD_UPDATE", "LEFT"}
  <2>1. h = Change(g, m)
    BY <1>5, AppliedIs
  <2>2. CASE m.type \in {"CHANNEL_UPDATE", "RENAMED"}
    <3>1. h = UpsertChannel(g, m.id, m.data)
      BY <2>1, <2>2 DEF Change
    <3> QED
      BY <1>5, <2>2, <3>1 DEF UpsertChannel, Guilds
  <2>3. CASE m.type = "CHANNEL_DELETE"
    <3>1. h = WithoutChannel(g, m.id)
      BY <2>1, <2>3 DEF Change
    <3> QED
      BY <1>5, <2>3, <3>1 DEF WithoutChannel, Guilds
  <2>4. CASE m.type = "OVERWRITE"
    <3>1. h = MergeOverwrite(g, m.id, m.data)
      BY <2>1, <2>4 DEF Change
    <3>2. OnlyAt(g, h, m.id)
      BY <3>1, MergedAt
    <3>3. g.channels[m.id] = NoRow => h = g
      BY <3>1 DEF MergeOverwrite
    <3> QED
      BY <1>5, <2>4, <3>2, <3>3 DEF OnlyAt
  <2>5. CASE m.type = "OVERWRITE_DELETE"
    <3>1. h = DropOverwrite(g, m.id, m.data)
      BY <2>1, <2>5 DEF Change
    <3>2. OnlyAt(g, h, m.id)
      BY <3>1, DroppedAt
    <3>3. g.channels[m.id] = NoRow => h = g
      BY <3>1 DEF DropOverwrite
    <3> QED
      BY <1>5, <2>5, <3>2, <3>3 DEF OnlyAt
  <2>6. CASE m.type \in {"MEMBERS_UPDATE", "MEMBER_LEAVE", "ROLE_UPDATE", "ROLE_CREATED", "ROLE_DELETE"}
    BY <2>1, <2>6 DEF Change, UpsertMembers, RemoveMember, UpsertRole, RemoveRole, Guilds
  <2> QED
    BY <1>1, <1>5, <2>2, <2>3, <2>4, <2>5, <2>6 DEF Fits, FitsAs
<1> QED
  BY <1>2, <1>3, <1>4, <1>5

LEMMA RolesAfter ==
    ASSUME NEW g \in Guilds, NEW m \in Messages, NEW h, h = Applied(g, m), NEW r \in Roles
    PROVE  \/ h.roles[r] = NoRow
           \/ h.roles[r] = g.roles[r] /\ ~(HasLists(g) /\ m.type \in {"ROLE_UPDATE", "ROLE_CREATED"} /\ m.id = r)
           \/ m.type \in {"ROLE_UPDATE", "ROLE_CREATED"} /\ m.id = r /\ h.roles[r] = m.data
<1>1. Fits(m)
  BY DEF Messages
<1>2. CASE m.type = "LEFT"
  <2>1. h = NoGuild(g)
    BY <1>2, AppliedIs
  <2>2. h.roles = [q \in Roles |-> NoRow]
    BY <2>1 DEF NoGuild, Guilds
  <2> QED
    BY <2>2
<1>3. CASE m.type = "GUILD_UPDATE"
  <2>1. h = [g EXCEPT !.present = TRUE, !.name = m.data]
    BY <1>3, AppliedIs
  <2> QED
    BY <1>3, <2>1 DEF Guilds
<1>4. CASE ~HasLists(g) /\ m.type \notin {"GUILD_UPDATE", "LEFT"}
  BY <1>4, AppliedIs
<1>5. CASE HasLists(g) /\ m.type \notin {"GUILD_UPDATE", "LEFT"}
  <2>1. h = Change(g, m)
    BY <1>5, AppliedIs
  <2>2. CASE m.type \in {"ROLE_UPDATE", "ROLE_CREATED"}
    <3>1. h = UpsertRole(g, m.id, m.data)
      BY <2>1, <2>2 DEF Change
    <3> QED
      BY <2>2, <3>1 DEF UpsertRole, Guilds
  <2>3. CASE m.type = "ROLE_DELETE"
    <3>1. h = RemoveRole(g, m.id)
      BY <2>1, <2>3 DEF Change
    <3> QED
      BY <2>3, <3>1 DEF RemoveRole, Guilds
  <2>4. CASE m.type = "OVERWRITE"
    <3>1. h = MergeOverwrite(g, m.id, m.data)
      BY <2>1, <2>4 DEF Change
    <3> QED
      BY <2>4, <3>1 DEF MergeOverwrite, Guilds
  <2>5. CASE m.type = "OVERWRITE_DELETE"
    <3>1. h = DropOverwrite(g, m.id, m.data)
      BY <2>1, <2>5 DEF Change
    <3> QED
      BY <2>5, <3>1 DEF DropOverwrite, Guilds
  <2>6. CASE m.type \in {"CHANNEL_UPDATE", "RENAMED"}
    <3>1. h = UpsertChannel(g, m.id, m.data)
      BY <2>1, <2>6 DEF Change
    <3> QED
      BY <2>6, <3>1 DEF UpsertChannel, Guilds
  <2>7. CASE m.type \in {"CHANNEL_DELETE", "MEMBERS_UPDATE", "MEMBER_LEAVE"}
    BY <2>1, <2>7 DEF Change, WithoutChannel, UpsertMembers, RemoveMember, Guilds
  <2> QED
    BY <1>1, <1>5, <2>2, <2>3, <2>4, <2>5, <2>6, <2>7 DEF Fits, FitsAs
<1> QED
  BY <1>2, <1>3, <1>4, <1>5

\* An event does away with a channel only by its deletion, which leaves nothing under it.
LEMMA EventKeepsChannel ==
    ASSUME NEW g \in Guilds, NEW m \in Messages, ~m.reply, NEW k \in ChannelsOf(g),
           NEW h, h = Applied(g, m), k \notin ChannelsOf(h)
    PROVE  /\ m.type = "CHANNEL_DELETE" /\ m.id = k
           /\ \A c \in ChannelsOf(h) : h.channels[c].parent # k
<1>1. Fits(m) /\ k \in Channels /\ NoParent # k
  BY EditorsAssumption DEF Messages, ChannelsOf
<1>2. h.channels # g.channels /\ ChannelsFollow(g, m, h)
  BY ChannelsAfter DEF ChannelsOf
<1>3. m.type \in {"CHANNEL_UPDATE", "CHANNEL_DELETE"} /\ HasLists(g)
  BY <1>1, <1>2 DEF Fits, FitsAs, ChannelsFollow
<1>4. m.type # "CHANNEL_UPDATE"
  <2> SUFFICES ASSUME m.type = "CHANNEL_UPDATE" PROVE FALSE
    OBVIOUS
  <2> DEFINE row == Merge(IF g.channels[m.id] = NoRow THEN Blank ELSE g.channels[m.id], m.data)
  <2>1. h.channels = [g.channels EXCEPT ![m.id] = row]
    BY <1>2, <1>3 DEF ChannelsFollow
  <2>2. m.id \in Channels /\ m.data \in ChannelData
    BY <1>1 DEF Fits, FitsAs
  <2>3. (IF g.channels[m.id] = NoRow THEN Blank ELSE g.channels[m.id]) \in ChannelRow
    BY <2>2, BlankType DEF Guilds
  <2>4. row # NoRow
    BY <2>2, <2>3, MergeType, RowAssumption
  <2> HIDE DEF row
  <2> QED
    BY <2>1, <2>4, <1>1 DEF ChannelsOf, Guilds
<1>5. h.channels = [d \in Channels |->
                    IF d = m.id \/ g.channels[d] = NoRow THEN NoRow
                    ELSE IF g.channels[d].parent = m.id THEN [g.channels[d] EXCEPT !.parent = NoParent]
                    ELSE g.channels[d]]
  BY <1>2, <1>3, <1>4 DEF ChannelsFollow
<1>6. m.id = k
  BY <1>1, <1>5, RowAssumption DEF ChannelsOf, Guilds, ChannelRow
<1>7. ASSUME NEW c \in ChannelsOf(h) PROVE h.channels[c].parent # k
  <2>1. c \in Channels /\ h.channels[c] # NoRow
    BY DEF ChannelsOf
  <2>2. g.channels[c] # NoRow /\ g.channels[c] \in ChannelRow
    BY <1>5, <2>1 DEF Guilds
  <2>3. h.channels[c] = IF g.channels[c].parent = k THEN [g.channels[c] EXCEPT !.parent = NoParent]
                        ELSE g.channels[c]
    BY <1>5, <1>6, <2>1, <2>2
  <2> QED
    BY <1>1, <2>2, <2>3 DEF ChannelRow
<1> QED
  BY <1>3, <1>4, <1>6, <1>7

\* Nothing gets under k but by a message that says so.
LEMMA EventMovesNothing ==
    ASSUME NEW g \in Guilds, NEW m \in Messages, ~m.reply, NEW k \in Channels, ~Carries(m, k),
           \A c \in ChannelsOf(g) : g.channels[c].parent # k,
           NEW h, h = Applied(g, m), NEW c \in ChannelsOf(h)
    PROVE  h.channels[c].parent # k
<1>1. Fits(m) /\ c \in Channels /\ NoParent # k /\ ChannelsFollow(g, m, h)
  BY ChannelsAfter, EditorsAssumption DEF Messages, ChannelsOf
<1>2. CASE h.channels = g.channels
  BY <1>2 DEF ChannelsOf
<1>3. CASE h.channels # g.channels
  <2>1. m.type \in {"CHANNEL_UPDATE", "CHANNEL_DELETE"} /\ HasLists(g)
    BY <1>1, <1>3 DEF Fits, FitsAs, ChannelsFollow
  <2>2. CASE m.type = "CHANNEL_DELETE"
    <3>1. h.channels = [d \in Channels |->
                    IF d = m.id \/ g.channels[d] = NoRow THEN NoRow
                    ELSE IF g.channels[d].parent = m.id THEN [g.channels[d] EXCEPT !.parent = NoParent]
                    ELSE g.channels[d]]
      BY <1>1, <2>1, <2>2 DEF ChannelsFollow
    <3>2. g.channels[c] # NoRow /\ g.channels[c] \in ChannelRow
      BY <1>1, <3>1 DEF Guilds, ChannelsOf
    <3>3. \/ h.channels[c] = g.channels[c]
          \/ h.channels[c] = [g.channels[c] EXCEPT !.parent = NoParent]
      BY <1>1, <3>1, <3>2 DEF ChannelsOf
    <3> QED
      BY <1>1, <3>2, <3>3 DEF ChannelRow, ChannelsOf
  <2>3. CASE m.type = "CHANNEL_UPDATE"
    <3> DEFINE old == IF g.channels[m.id] = NoRow THEN Blank ELSE g.channels[m.id]
    <3>1. h.channels = [g.channels EXCEPT ![m.id] = Merge(old, m.data)]
      BY <1>1, <2>1, <2>3 DEF ChannelsFollow
    <3>2. m.id \in Channels /\ m.data \in ChannelData
      BY <1>1, <2>3 DEF Fits, FitsAs
    <3>3. old \in ChannelRow /\ old.parent # k
      BY <1>1, <3>2, BlankType DEF Guilds, ChannelsOf, Blank
    <3> HIDE DEF old
    <3>4. Merge(old, m.data).parent # k
      <4>1. Merge(old, m.data).parent = IF "parent" \in DOMAIN m.data THEN m.data.parent ELSE old.parent
        BY <3>3 DEF Merge, ChannelRow
      <4> QED
        BY <2>3, <3>3, <4>1 DEF Carries
    <3> QED
      BY <1>1, <3>1, <3>2, <3>4 DEF Guilds, ChannelsOf
  <2> QED
    BY <2>1, <2>2, <2>3
<1> QED
  BY <1>2, <1>3

LEMMA TakeInOrder ==
    ASSUME Typed, NEW u \in Users, NEW i \in DOMAIN inbox[u], InOrder, Take(u, i)
    PROVE  InOrder'
<1> DEFINE m == inbox[u][i]
<1>1. PICK h : h = Applied(view[u], m)
  OBVIOUS
<1>2. PICK box : box = RemoveAt(inbox[u], i)
  OBVIOUS
<1>3. inbox[u] \in Seq(Messages) /\ view[u] \in Guilds /\ m \in Messages /\ i \in 1..Len(inbox[u])
  BY ElementOfSeq DEF Typed
<1>4. /\ Len(inbox[u]) = Len(box) + 1 /\ Len(box) \in Nat /\ DOMAIN box = 1..Len(box)
      /\ \A k \in 1..Len(box) : box[k] = IF k < i THEN inbox[u][k] ELSE inbox[u][k + 1]
  <2>1. /\ box \in Seq(Messages) /\ Len(box) \in Nat /\ Len(inbox[u]) = Len(box) + 1
        /\ \A k \in 1..Len(box) : box[k] = IF k < i THEN inbox[u][k] ELSE inbox[u][k + 1]
    BY <1>2, <1>3, RemoveAtItems
  <2> QED
    BY <2>1
<1>5. /\ server' = server /\ issued' = issued
      /\ \A v \in Users : /\ inbox'[v] = IF v = u THEN box ELSE inbox[v]
                          /\ view'[v] = IF v = u THEN h ELSE view[v]
      /\ m.reply \/ \A j \in 1..(i - 1) : inbox[u][j].reply
  BY <1>1, <1>2 DEF Take, Typed
\* Where what is left was.
<1>6. ASSUME NEW j \in DOMAIN box
      PROVE  \E k \in DOMAIN inbox[u] : k # i /\ box[j] = inbox[u][k] /\ k = IF j < i THEN j ELSE j + 1
  <2>1. CASE j < i
    BY <1>3, <1>4, <2>1
  <2>2. CASE ~(j < i)
    <3>1. j + 1 \in DOMAIN inbox[u] /\ j + 1 # i /\ box[j] = inbox[u][j + 1]
      BY <1>3, <1>4, <2>2
    <3> QED
      BY <2>2, <3>1
  <2> QED
    BY <2>1, <2>2
<1> HIDE DEF m
<1>7. DeletionsAreLast'
  <2> SUFFICES ASSUME NEW v \in Users, NEW new, new = inbox'[v], NEW j \in DOMAIN new,
                      new[j].type = "CHANNEL_DELETE"
               PROVE  /\ new[j].id \in issued \ ChannelsOf(server)
                      /\ \A a \in DOMAIN new : Carries(new[a], new[j].id) => a < j
    BY <1>5 DEF DeletionsAreLast, Carries, ChannelsOf
  <2>1. CASE v # u
    BY <1>5, <2>1 DEF InOrder, DeletionsAreLast
  <2>2. CASE v = u
    <3>1. new = box
      BY <1>5, <2>2
    <3>2. PICK k \in DOMAIN inbox[u] : box[j] = inbox[u][k] /\ k = IF j < i THEN j ELSE j + 1
      BY <1>6, <3>1
    <3>3. /\ new[j].id \in issued \ ChannelsOf(server)
          /\ \A a \in DOMAIN inbox[u] : Carries(inbox[u][a], new[j].id) => a < k
      BY <3>1, <3>2 DEF InOrder, DeletionsAreLast
    <3>4. ASSUME NEW a \in DOMAIN new, Carries(new[a], new[j].id) PROVE a < j
      <4>1. PICK b \in DOMAIN inbox[u] : box[a] = inbox[u][b] /\ b = IF a < i THEN a ELSE a + 1
        BY <1>6, <3>1
      <4>2. b < k
        BY <3>1, <3>3, <3>4, <4>1
      <4>3. a \in 1..Len(box) /\ j \in 1..Len(box)
        BY <1>4, <3>1
      <4> QED
        BY <1>3, <1>4, <3>2, <4>1, <4>2, <4>3
    <3> QED
      BY <3>3, <3>4
  <2> QED
    BY <2>1, <2>2
<1>8. RenamesAreAlone'
  <2> SUFFICES ASSUME NEW v \in Users, NEW new, new = inbox'[v], NEW j \in DOMAIN new,
                      new[j].type = "RENAMED"
               PROVE  Alone(IF v = u THEN h ELSE view[v], new, j)
    BY <1>5 DEF RenamesAreAlone, Alone, Left, Carries, ChannelsOf
  <2>1. CASE v # u
    BY <1>5, <2>1 DEF InOrder, RenamesAreAlone
  <2>2. CASE v = u
    <3>1. new = box
      BY <1>5, <2>2
    <3>2. PICK k \in DOMAIN inbox[u] : k # i /\ box[j] = inbox[u][k] /\ k = IF j < i THEN j ELSE j + 1
      BY <1>6, <3>1
    <3>3. PICK c : c = box[j].id
      OBVIOUS
    <3>4. /\ \A a \in DOMAIN inbox[u] : inbox[u][a].reply => a = k
          /\ c \in issued
          /\ c \in ChannelsOf(view[u]) \/ Left(view[u], inbox[u], c)
      BY <3>1, <3>2, <3>3 DEF InOrder, RenamesAreAlone, Alone
    <3>5. ~m.reply
      BY <3>2, <3>4 DEF m
    <3>6. ASSUME NEW a \in DOMAIN box, box[a].reply PROVE a = j
      <4>1. PICK b \in DOMAIN inbox[u] : box[a] = inbox[u][b] /\ b = IF a < i THEN a ELSE a + 1
        BY <1>6
      <4>2. b = k
        BY <3>4, <3>6, <4>1
      <4>3. a \in 1..Len(box) /\ j \in 1..Len(box)
        BY <1>4, <3>1
      <4> QED
        BY <1>3, <1>4, <3>2, <4>1, <4>2, <4>3
    <3>7. c \in Channels
      <4>1. inbox[u][k] \in Messages /\ inbox[u][k].type = "RENAMED"
        BY <1>3, <3>1, <3>2, ElementOfSeq
      <4> QED
        BY <3>2, <3>3, <4>1 DEF Messages, Fits, FitsAs
    <3>8. ASSUME c \notin ChannelsOf(h) PROVE Left(h, box, c)
      <4>1. CASE c \in ChannelsOf(view[u])
        <5>1. /\ m.type = "CHANNEL_DELETE" /\ m.id = c
              /\ \A d \in ChannelsOf(h) : h.channels[d].parent # c
          BY <1>1, <1>3, <3>5, <3>8, <4>1, EventKeepsChannel DEF m
        <5>2. /\ c \notin ChannelsOf(server)
              /\ \A a \in DOMAIN inbox[u] : Carries(inbox[u][a], c) => a < i
          BY <5>1 DEF InOrder, DeletionsAreLast, m
        <5>3. ASSUME NEW a \in DOMAIN inbox[u] PROVE ~Carries(inbox[u][a], c)
          <6>1. SUFFICES ASSUME Carries(inbox[u][a], c) PROVE FALSE
            OBVIOUS
          <6>2. a < i /\ a \in 1..(i - 1)
            BY <1>3, <5>2, <6>1
          <6>3. inbox[u][a].reply
            BY <1>5, <3>5, <6>2
          <6>4. a = k
            BY <3>4, <6>3
          <6> QED
            BY <3>1, <3>2, <6>1, <6>4 DEF Carries
        <5>4. \A a \in DOMAIN box : ~Carries(box[a], c)
          BY <1>6, <5>3
        <5> QED
          BY <5>1, <5>2, <5>4 DEF Left
      <4>2. CASE Left(view[u], inbox[u], c)
        <5>1. /\ c \notin ChannelsOf(server)
              /\ \A d \in ChannelsOf(view[u]) : view[u].channels[d].parent # c
              /\ \A a \in DOMAIN inbox[u] : ~Carries(inbox[u][a], c)
          BY <4>2 DEF Left
        <5>2. \A d \in ChannelsOf(h) : h.channels[d].parent # c
          BY <1>1, <1>3, <3>5, <3>7, <5>1, EventMovesNothing DEF m
        <5>3. \A a \in DOMAIN box : ~Carries(box[a], c)
          BY <1>6, <5>1
        <5> QED
          BY <5>1, <5>2, <5>3 DEF Left
      <4> QED
        BY <3>4, <4>1, <4>2
    <3> QED
      BY <2>2, <3>1, <3>3, <3>4, <3>6, <3>8 DEF Alone
  <2> QED
    BY <2>1, <2>2
<1> QED
  BY <1>5, <1>7, <1>8 DEF InOrder, ChannelsOf

LEMMA PagesInOrder ==
    ASSUME Typed, NEW u \in Users, InOrder, Browse(u) \/ Edit(u)
    PROVE  InOrder'
<1>1. /\ server' = server /\ issued' = issued /\ inbox' = inbox
      /\ \A v \in Users : /\ ChannelsOf(view'[v]) = ChannelsOf(view[v])
                          /\ \A c \in ChannelsOf(view[v]) :
                                view'[v].channels[c].parent = view[v].channels[c].parent
  <2>1. CASE MakePrivate(u)
    <3>1. PICK ows \in Overwrites : Ticked(u, ows)
      BY <2>1, MakePrivateTicks
    <3>2. PICK c, row : c = screen[u].id /\ row = [view[u].channels[c] EXCEPT !.overwrites = ows]
      OBVIOUS
    <3>3. /\ c \in Channels /\ view[u].channels[c] \in ChannelRow /\ row \in ChannelRow
          /\ view' = [view EXCEPT ![u] = [view[u] EXCEPT !.channels = [view[u].channels EXCEPT ![c] = row]]]
      BY <3>1, <3>2 DEF Ticked
    <3>4. row.parent = view[u].channels[c].parent
      BY <3>2, <3>3 DEF ChannelRow
    <3>5. row # NoRow /\ view[u].channels[c] # NoRow
      BY <3>3, RowAssumption
    <3>6. /\ \A v \in Users \ {u} : view'[v] = view[v]
          /\ view'[u].channels = [view[u].channels EXCEPT ![c] = row]
          /\ view[u].channels = [d \in Channels |-> view[u].channels[d]]
      BY <3>3 DEF Typed, Guilds
    <3>7. \A d \in Channels : /\ view'[u].channels[d] # NoRow <=> view[u].channels[d] # NoRow
                              /\ view'[u].channels[d].parent = view[u].channels[d].parent
      BY <3>3, <3>4, <3>5, <3>6
    <3>8. /\ ChannelsOf(view'[u]) = ChannelsOf(view[u])
          /\ \A d \in ChannelsOf(view[u]) : view'[u].channels[d].parent = view[u].channels[d].parent
      BY <3>7 DEF ChannelsOf
    <3>9. server' = server /\ issued' = issued /\ inbox' = inbox
      BY Zenon, <2>1 DEF MakePrivate
    <3> QED
      BY <3>6, <3>8, <3>9
  <2>2. CASE Browse(u)
    BY <2>2 DEF Browse, Close, OpenRole, SelectRole, OpenPermissions, SelectTarget, Show
  <2>3. CASE Edit(u) /\ ~MakePrivate(u)
    BY Zenon, <2>3 DEF Edit, Reset, ClickPermission, TickPermission, PickColor, Draft, Show
  <2> QED
    BY <2>1, <2>2, <2>3
<1> QED
  BY <1>1 DEF InOrder, DeletionsAreLast, RenamesAreAlone, Alone, Left, Carries, ChannelsOf

LEMMA InitInOrder == Init => InOrder
BY DEF Init, InOrder, DeletionsAreLast, RenamesAreAlone

LEMMA NextInOrder == Typed /\ InOrder /\ [Next]_vars => InOrder'
<1> SUFFICES ASSUME Typed, InOrder, [Next]_vars PROVE InOrder'
  OBVIOUS
<1>1. CASE UNCHANGED vars
  BY <1>1 DEF vars, InOrder, DeletionsAreLast, RenamesAreAlone, Alone, Left, Carries, ChannelsOf
<1>2. ASSUME NEW u \in Users, Browse(u) \/ Edit(u) PROVE InOrder'
  BY <1>2, PagesInOrder
<1>3. ASSUME NEW u \in Users, Request(u) PROVE InOrder'
  BY <1>3, RequestAsks, AsksHandled, HandledInOrder
<1>4. ASSUME NEW u \in Users, NEW i \in DOMAIN inbox[u], Take(u, i) PROVE InOrder'
  BY <1>4, TakeInOrder
<1> QED
  BY <1>1, <1>2, <1>3, <1>4 DEF Next, Request

-----------------------------------------------------------------------------
(* Drafts *)

\* The draft is what was selected, but for what has been clicked on since.
Untouched(s) ==
    /\ s.page = "permissions" =>
         \A p \in ALL_PERMISSIONS \ s.touched :
            /\ p \in s.draft.allow <=> p \in s.selected.allow
            /\ p \in s.draft.deny <=> p \in s.selected.deny
    /\ s.page = "role" =>
         /\ \A p \in ALL_PERMISSIONS \ s.touched :
               p \in s.draft.permissions <=> p \in s.selected.permissions
         /\ "color" \in s.touched \/ s.draft.color = s.selected.color

\* What is selected is what the copy g shows.
Latest(g, s) ==
    /\ s.page = "permissions" /\ Shown(g, s.id)[s.target] # NoRow =>
         s.selected = Shown(g, s.id)[s.target]
    /\ s.page = "role" /\ g.roles[s.id] # NoRow => s.selected = g.roles[s.id]

Drafts == \A u \in Users : Untouched(screen[u]) /\ (private[u] = {} => Latest(view[u], screen[u]))

LEMMA DraftsFollow == Typed /\ Drafts => DraftFollowsView
<1> SUFFICES ASSUME Typed, Drafts, NEW u \in Users, private[u] = {}
             PROVE  LET s == screen[u] IN
                    /\ OnPermissions(u) /\ s.target \in TargetsOf(Shown(view[u], s.id)) =>
                          \A p \in ALL_PERMISSIONS \ s.touched :
                              /\ p \in s.draft.allow <=> p \in Shown(view[u], s.id)[s.target].allow
                              /\ p \in s.draft.deny <=> p \in Shown(view[u], s.id)[s.target].deny
                    /\ On(u, "role") /\ s.id \in RolesOf(view[u]) =>
                          /\ \A p \in ALL_PERMISSIONS \ s.touched :
                                p \in s.draft.permissions <=> p \in view[u].roles[s.id].permissions
                          /\ "color" \in s.touched \/ s.draft.color = view[u].roles[s.id].color
  BY DEF DraftFollowsView
<1>1. Untouched(screen[u]) /\ Latest(view[u], screen[u])
  BY DEF Drafts
<1> QED
  BY <1>1 DEF Untouched, Latest, OnPermissions, On, TargetsOf, RolesOf

LEMMA SavingFields ==
    ASSUME NEW s \in Screens \ {NoScreen}, NEW saving, NEW t, t = [s EXCEPT !.saving = saving]
    PROVE  /\ t.page = s.page /\ t.id = s.id /\ t.target = s.target /\ t.selected = s.selected
           /\ t.draft = s.draft /\ t.touched = s.touched
BY DEF Screens, PermissionsPages, RolePages

LEMMA SavingKeepsDraft ==
    ASSUME NEW s \in Screens \ {NoScreen}, NEW saving, NEW t, t = [s EXCEPT !.saving = saving]
    PROVE  /\ Untouched(t) <=> Untouched(s)
           /\ \A g : Latest(g, t) <=> Latest(g, s)
BY SavingFields DEF Untouched, Latest

LEMMA PageFields ==
    ASSUME NEW page, NEW id, NEW target, NEW selected, NEW s, s = Page(page, id, target, selected)
    PROVE  /\ s.page = page /\ s.id = id /\ s.target = target
           /\ s.selected = selected /\ s.draft = selected
<1>1. PICK no : no = FALSE
  OBVIOUS
<1>2. s = [page |-> page, id |-> id, target |-> target, selected |-> selected,
           draft |-> selected, touched |-> {}, saving |-> no]
  BY <1>1, Zenon DEF Page
<1> QED
  BY <1>2

\* A page that has just been opened shows what the copy has.
LEMMA OpenedDraft ==
    ASSUME Typed, NEW u \in Users
    PROVE  /\ \A c \in Channels : \A t \in TargetsOf(Shown(view[u], c)) :
                /\ Untouched(PermissionsPage(u, c, t))
                /\ Latest(view[u], PermissionsPage(u, c, t))
           /\ \A r \in RolesOf(view[u]) : Untouched(RolePage(u, r)) /\ Latest(view[u], RolePage(u, r))
<1>1. ASSUME NEW c \in Channels, NEW t \in TargetsOf(Shown(view[u], c))
      PROVE  Untouched(PermissionsPage(u, c, t)) /\ Latest(view[u], PermissionsPage(u, c, t))
  <2>1. PICK s : s = PermissionsPage(u, c, t)
    OBVIOUS
  <2>2. /\ s.page = "permissions" /\ s.id = c /\ s.target = t
        /\ s.selected = Shown(view[u], c)[t] /\ s.draft = s.selected
    BY <2>1, PageFields DEF PermissionsPage
  <2>3. Untouched(s) /\ Latest(view[u], s)
    BY <2>2 DEF Untouched, Latest
  <2> QED
    BY <2>1, <2>3
<1>2. ASSUME NEW r \in RolesOf(view[u]) PROVE Untouched(RolePage(u, r)) /\ Latest(view[u], RolePage(u, r))
  <2>1. PICK s : s = RolePage(u, r)
    OBVIOUS
  <2>2. s.page = "role" /\ s.id = r /\ s.selected = view[u].roles[r] /\ s.draft = s.selected
    BY <2>1, PageFields DEF RolePage
  <2>3. Untouched(s) /\ Latest(view[u], s)
    BY <2>2 DEF Untouched, Latest
  <2> QED
    BY <2>1, <2>3
<1> QED
  BY <1>1, <1>2

LEMMA NoDraft == \A g : Untouched(NoScreen) /\ Latest(g, NoScreen)
BY DEF Untouched, Latest, NoScreen

LEMMA ShowKeepsDrafts ==
    ASSUME Typed, Drafts, NEW u \in Users, NEW s, Show(u, s), private' = private,
           Untouched(s), private[u] = {} => Latest(view[u], s)
    PROVE  Drafts'
<1>1. ASSUME NEW v \in Users
      PROVE  view'[v] = view[v] /\ screen'[v] = IF v = u THEN s ELSE screen[v]
  BY DEF Show, Typed
<1>2. ASSUME NEW v \in Users
      PROVE  Untouched(screen'[v]) /\ (private'[v] = {} => Latest(view'[v], screen'[v]))
  BY <1>1 DEF Drafts
<1> QED
  BY Zenon, <1>2 DEF Drafts, Untouched, Latest, Shown, Source, ChannelsOf

LEMMA BrowseKeepsDrafts ==
    ASSUME Typed, Drafts, NEW u \in Users, Browse(u)
    PROVE  Drafts'
<1>1. ASSUME Close(u) PROVE Drafts'
  BY <1>1, ShowKeepsDrafts, NoDraft DEF Close
<1>2. ASSUME NEW c \in Channels, OpenPermissions(u, c) PROVE Drafts'
  BY <1>2, ShowKeepsDrafts, OpenedDraft DEF OpenPermissions
<1>3. ASSUME NEW r \in Roles, OpenRole(u, r) PROVE Drafts'
  BY <1>3, ShowKeepsDrafts, OpenedDraft DEF OpenRole
<1>4. ASSUME NEW t \in Target, SelectTarget(u, t) PROVE Drafts'
  <2>1. PICK s, new : s = PermissionsPage(u, screen[u].id, t) /\ new = [s EXCEPT !.saving = screen[u].saving]
    OBVIOUS
  <2>2. screen[u].id \in Channels /\ t \in TargetsOf(Shown(view[u], screen[u].id))
    BY <1>4, OnPage DEF SelectTarget
  <2>3. s \in Screens \ {NoScreen} /\ Untouched(s) /\ Latest(view[u], s)
    BY <2>1, <2>2, OpenedPageType, OpenedDraft DEF Screens, PermissionsPages, NoScreen
  <2>4. Untouched(new) /\ Latest(view[u], new)
    BY <2>1, <2>3, SavingKeepsDraft
  <2> QED
    BY <1>4, <2>1, <2>4, ShowKeepsDrafts DEF SelectTarget
<1>5. ASSUME NEW r \in Roles, SelectRole(u, r) PROVE Drafts'
  <2>1. PICK s, new : s = RolePage(u, r) /\ new = [s EXCEPT !.saving = screen[u].saving]
    OBVIOUS
  <2>2. r \in RolesOf(view[u])
    BY <1>5 DEF SelectRole
  <2>3. s \in Screens \ {NoScreen} /\ Untouched(s) /\ Latest(view[u], s)
    BY <2>1, <2>2, OpenedPageType, OpenedDraft DEF Screens, RolePages, NoScreen
  <2>4. Untouched(new) /\ Latest(view[u], new)
    BY <2>1, <2>3, SavingKeepsDraft
  <2> QED
    BY <1>5, <2>1, <2>4, ShowKeepsDrafts DEF SelectRole
<1> QED
  BY <1>1, <1>2, <1>3, <1>4, <1>5 DEF Browse

\* A click changes the draft in what it touches alone.
LEMMA ClickKeepsDrafts ==
    ASSUME Typed, Drafts, NEW u \in Users, NEW draft, NEW p \in ALL_PERMISSIONS \cup {"color"},
           Draft(u, draft, p), screen[u] \in PermissionsPages \cup RolePages,
           screen[u].page = "permissions" => \A q \in ALL_PERMISSIONS \ {p} :
               /\ q \in draft.allow <=> q \in screen[u].draft.allow
               /\ q \in draft.deny <=> q \in screen[u].draft.deny,
           screen[u].page = "role" =>
               /\ \A q \in ALL_PERMISSIONS \ {p} : q \in draft.permissions <=> q \in screen[u].draft.permissions
               /\ p = "color" \/ draft.color = screen[u].draft.color
    PROVE  Drafts'
<1> DEFINE s == screen[u]
<1>1. PICK t : t = [s EXCEPT !.draft = draft, !.touched = s.touched \cup {p}]
  OBVIOUS
<1>2. /\ t.page = s.page /\ t.id = s.id /\ t.target = s.target /\ t.selected = s.selected
      /\ t.draft = draft /\ t.touched = s.touched \cup {p}
  BY <1>1 DEF PermissionsPages, RolePages
<1>3. Untouched(s) /\ (private[u] = {} => Latest(view[u], s))
  BY DEF Drafts
<1>4. Untouched(t)
  BY <1>2, <1>3 DEF Untouched
<1>5. private[u] = {} => Latest(view[u], t)
  BY <1>2, <1>3 DEF Latest
<1>6. Show(u, t) /\ private' = private
  BY <1>1 DEF Draft
<1> QED
  BY <1>4, <1>5, <1>6, ShowKeepsDrafts

LEMMA EditKeepsDrafts ==
    ASSUME Typed, Drafts, NEW u \in Users, Edit(u)
    PROVE  Drafts'
<1>1. ASSUME Reset(u) PROVE Drafts'
  <2>1. screen[u] \in PermissionsPages \cup RolePages
    BY <1>1, OnPage DEF Reset
  <2>2. PICK t : t = [screen[u] EXCEPT !.draft = screen[u].selected, !.touched = {}]
    OBVIOUS
  <2>3. /\ t.page = screen[u].page /\ t.id = screen[u].id /\ t.target = screen[u].target
        /\ t.selected = screen[u].selected /\ t.draft = t.selected
    BY <2>1, <2>2 DEF PermissionsPages, RolePages
  <2>4. Untouched(t) /\ (private[u] = {} => Latest(view[u], t))
    BY <2>3 DEF Drafts, Untouched, Latest
  <2> QED
    BY <1>1, <2>2, <2>4, ShowKeepsDrafts DEF Reset
<1>2. ASSUME NEW p \in Clickable, ClickPermission(u, p) PROVE Drafts'
  <2>1. p \in ALL_PERMISSIONS /\ screen[u] \in PermissionsPages
    BY <1>2, EditorsAssumption, OnPage DEF ClickPermission
  <2>2. screen[u].page = "permissions" /\ screen[u].draft \in Overwrite
    BY <2>1 DEF PermissionsPages
  <2>3. PICK draft \in {Allow(screen[u].draft, p), Deny(screen[u].draft, p), Neither(screen[u].draft, p)} :
          Draft(u, draft, p)
    BY <1>2 DEF ClickPermission
  <2>4. \A q \in ALL_PERMISSIONS \ {p} :
            /\ q \in draft.allow <=> q \in screen[u].draft.allow
            /\ q \in draft.deny <=> q \in screen[u].draft.deny
    BY <2>3 DEF Allow, Deny, Neither
  <2> QED
    BY <2>1, <2>2, <2>3, <2>4, ClickKeepsDrafts
<1>3. ASSUME NEW p \in Clickable, TickPermission(u, p) PROVE Drafts'
  <2>1. p \in ALL_PERMISSIONS /\ screen[u] \in RolePages
    BY <1>3, EditorsAssumption, OnPage DEF TickPermission
  <2>2. screen[u].page = "role" /\ screen[u].draft \in RoleRow
    BY <2>1 DEF RolePages
  <2>3. PICK mask \in {screen[u].draft.permissions \cup {p}, screen[u].draft.permissions \ {p}} :
          Draft(u, [screen[u].draft EXCEPT !.permissions = mask], p)
    BY <1>3 DEF TickPermission
  <2>4. PICK draft : draft = [screen[u].draft EXCEPT !.permissions = mask]
    OBVIOUS
  <2>5. draft.permissions = mask /\ draft.color = screen[u].draft.color
    BY <2>2, <2>4 DEF RoleRow
  <2>6. \A q \in ALL_PERMISSIONS \ {p} : q \in draft.permissions <=> q \in screen[u].draft.permissions
    BY <2>3, <2>5
  <2> QED
    BY <2>1, <2>2, <2>3, <2>4, <2>5, <2>6, ClickKeepsDrafts
<1>4. ASSUME NEW color \in Colors \cup {NoColor}, PickColor(u, color) PROVE Drafts'
  <2>1. screen[u] \in RolePages
    BY <1>4, OnPage DEF PickColor
  <2>2. screen[u].page = "role" /\ screen[u].draft \in RoleRow
    BY <2>1 DEF RolePages
  <2>3. PICK draft : draft = [screen[u].draft EXCEPT !.color = color]
    OBVIOUS
  <2>4. draft.permissions = screen[u].draft.permissions
    BY <2>2, <2>3 DEF RoleRow
  <2>5. Draft(u, draft, "color")
    BY <1>4, <2>3 DEF PickColor
  <2> QED
    BY <2>1, <2>2, <2>4, <2>5, ClickKeepsDrafts
<1>5. ASSUME MakePrivate(u) PROVE Drafts'
  <2>1. /\ \A v \in Users \ {u} : view'[v] = view[v] /\ private'[v] = private[v]
        /\ screen' = screen
    BY <1>5 DEF MakePrivate, Typed
  <2>2. private'[u] # {}
    BY <1>5 DEF MakePrivate, Typed
  <2>3. ASSUME NEW v \in Users
        PROVE  Untouched(screen'[v]) /\ (private'[v] = {} => Latest(view'[v], screen'[v]))
    BY <2>1, <2>2 DEF Drafts
  <2> QED
    BY Zenon, <2>3 DEF Drafts, Untouched, Latest, Shown, Source, ChannelsOf
<1> QED
  BY <1>1, <1>2, <1>3, <1>4, <1>5 DEF Edit

LEMMA RequestKeepsDrafts ==
    ASSUME Typed, Drafts, NEW u \in Users, OnlySaves(u), view' = view, private' = private
    PROVE  Drafts'
<1>1. ASSUME NEW v \in Users PROVE screen'[v] = screen[v] \/ (v = u /\ screen[u] # NoScreen
                                    /\ screen'[v] = [screen[v] EXCEPT !.saving = TRUE])
  BY DEF OnlySaves, Saving, Typed
<1>2. ASSUME NEW v \in Users
      PROVE  Untouched(screen'[v]) /\ (private'[v] = {} => Latest(view'[v], screen'[v]))
  <2>1. Untouched(screen[v]) /\ (private[v] = {} => Latest(view[v], screen[v]))
    BY DEF Drafts
  <2>2. CASE screen'[v] = screen[v]
    BY <2>1, <2>2
  <2>3. CASE screen[v] # NoScreen /\ screen'[v] = [screen[v] EXCEPT !.saving = TRUE]
    <3>1. PICK yes : yes = TRUE
      OBVIOUS
    <3>2. screen[v] \in Screens \ {NoScreen}
      BY <2>3 DEF Typed
    <3>3. screen'[v] = [screen[v] EXCEPT !.saving = yes]
      BY <2>3, <3>1, Zenon
    <3>4. /\ Untouched(screen'[v]) <=> Untouched(screen[v])
          /\ Latest(view[v], screen'[v]) <=> Latest(view[v], screen[v])
      BY <3>2, <3>3, SavingKeepsDraft
    <3> QED
      BY <2>1, <3>4
  <2> QED
    BY <1>1, <2>2, <2>3
<1> QED
  BY Zenon, <1>2 DEF Drafts, Untouched, Latest, Shown, Source, ChannelsOf

\* The overwrites of a row change only when its array of overwrites is a new one, but for
\* those of a row that was not there.
LEMMA OverwritesKept ==
    ASSUME Typed, NEW u \in Users, NEW m \in Messages, NEW h, h = Applied(view[u], m),
           NEW k \in ChannelsOf(h), k \notin Replaced(u, m)
    PROVE  \/ k \in ChannelsOf(view[u]) /\ h.channels[k].overwrites = view[u].channels[k].overwrites
           \/ h.channels[k].overwrites = NoOverwrites
           \/ m.type = "RENAMED" /\ m.id = k /\ k \notin ChannelsOf(view[u])
<1> DEFINE g == view[u]
<1>1. /\ g \in Guilds /\ h \in Guilds /\ k \in Channels /\ h.channels[k] # NoRow
      /\ ChannelsFollow(g, m, h) /\ Fits(m)
  BY AppliedType, ChannelsAfter DEF Typed, ChannelsOf, Messages
<1>2. h.channels[k] \in ChannelRow /\ (g.channels[k] # NoRow => g.channels[k] \in ChannelRow)
  BY <1>1 DEF Guilds
<1> HIDE DEF g
<1>3. CASE h.channels[k] = g.channels[k]
  BY <1>1, <1>3 DEF ChannelsOf, g
<1>4. CASE h.channels[k] # g.channels[k]
  <2>1. HasLists(g) /\ m.type \in {"CHANNEL_UPDATE", "RENAMED", "CHANNEL_DELETE", "OVERWRITE", "OVERWRITE_DELETE"}
    BY <1>1, <1>4 DEF ChannelsFollow, Fits, FitsAs
  <2>2. CASE m.type = "CHANNEL_DELETE"
    <3>1. h.channels[k] = [g.channels[k] EXCEPT !.parent = NoParent] /\ g.channels[k] # NoRow
      BY <1>1, <1>4, <2>1, <2>2 DEF ChannelsFollow
    <3> QED
      BY <1>1, <1>2, <3>1 DEF ChannelRow, ChannelsOf, g
  <2>3. CASE m.type \in {"OVERWRITE", "OVERWRITE_DELETE"}
    <3>1. k = m.id
      BY <1>1, <1>4, <2>3 DEF ChannelsFollow
    <3> QED
      BY <2>3, <3>1 DEF Replaced
  <2>4. CASE m.type \in {"CHANNEL_UPDATE", "RENAMED"}
    <3> DEFINE old == IF g.channels[m.id] = NoRow THEN Blank ELSE g.channels[m.id]
    <3>1. h.channels = [g.channels EXCEPT ![m.id] = Merge(old, m.data)] /\ m.id \in Channels
      BY <1>1, <2>1, <2>4 DEF ChannelsFollow, Fits, FitsAs
    <3>2. k = m.id /\ h.channels[k] = Merge(old, m.data)
      BY <1>1, <1>4, <3>1 DEF Guilds
    <3>3. old \in ChannelRow /\ (g.channels[k] = NoRow => old.overwrites = NoOverwrites)
                             /\ (g.channels[k] # NoRow => old = g.channels[k])
      BY <1>2, <3>2, BlankType DEF Blank
    <3> HIDE DEF old
    <3>4. h.channels[k].overwrites
            = IF "overwrites" \in DOMAIN m.data THEN m.data.overwrites ELSE old.overwrites
      BY <3>2, <3>3 DEF Merge, ChannelRow
    <3>5. CASE m.type = "CHANNEL_UPDATE"
      <4>1. "overwrites" \notin DOMAIN m.data
        BY <3>2, <3>5 DEF Replaced
      <4> QED
        BY <1>1, <3>3, <3>4, <4>1 DEF ChannelsOf, g
    <3>6. CASE m.type = "RENAMED" /\ g.channels[k] # NoRow
      <4>1. g.channels[k].overwrites = m.data.overwrites
        BY <3>2, <3>6 DEF Replaced, g
      <4>2. "overwrites" \in DOMAIN m.data
        BY <1>1, <3>6 DEF Fits, FitsAs, ChannelRow
      <4> QED
        BY <1>1, <3>4, <3>6, <4>1, <4>2 DEF ChannelsOf, g
    <3>7. CASE m.type = "RENAMED" /\ g.channels[k] = NoRow
      BY <3>2, <3>7 DEF ChannelsOf, g
    <3> QED
      BY <2>4, <3>5, <3>6, <3>7
  <2> QED
    BY <2>1, <2>2, <2>3, <2>4
<1> QED
  BY <1>3, <1>4

\* Unless the effect sees a new array, what the page shows of its target is what it was.
LEMMA ShownKept ==
    ASSUME Typed, InOrder, NEW u \in Users, NEW i \in DOMAIN inbox[u], NEW m, m = inbox[u][i],
           NEW h, h = Applied(view[u], m), NEW c \in Channels, NEW t \in Target,
           Source(h, c) = Source(view[u], c), Source(h, c) \notin Replaced(u, m),
           Shown(h, c)[t] # NoRow
    PROVE  Shown(view[u], c)[t] = Shown(h, c)[t]
<1> DEFINE k == Source(h, c)
<1>1. m \in Messages
  BY ElementOfSeq DEF Typed
<1>2. k \in ChannelsOf(h) /\ Shown(h, c) = h.channels[k].overwrites
  BY DEF Shown, NoOverwrites
<1>3. h.channels[k].overwrites # NoOverwrites
  BY <1>2 DEF NoOverwrites
<1>4. CASE k \in ChannelsOf(view[u]) /\ h.channels[k].overwrites = view[u].channels[k].overwrites
  BY <1>2, <1>4 DEF Shown
<1>5. CASE m.type = "RENAMED" /\ m.id = k /\ k \notin ChannelsOf(view[u])
  <2>1. Alone(view[u], inbox[u], i)
    BY <1>5 DEF InOrder, RenamesAreAlone
  <2>2. \A d \in ChannelsOf(view[u]) : view[u].channels[d].parent # k
    BY <1>5, <2>1 DEF Alone, Left
  <2>3. k # NoParent
    BY <1>2, EditorsAssumption DEF ChannelsOf
  <2> HIDE DEF k
  <2>4. k = Source(view[u], c)
    BY DEF k
  <2> QED
    BY <1>5, <2>2, <2>3, <2>4 DEF Source, ChannelsOf
<1> HIDE DEF k
<1>6. k \notin Replaced(u, m)
  BY DEF k
<1> QED
  BY <1>1, <1>2, <1>3, <1>4, <1>5, <1>6, OverwritesKept

LEMMA ReselectedDraft ==
    ASSUME Typed, InOrder, Drafts, NEW u \in Users, NEW i \in DOMAIN inbox[u], NEW m, m = inbox[u][i],
           NEW h, h = Applied(view[u], m), screen[u] \in PermissionsPages,
           NEW s, s = Reselected(u, h, m)
    PROVE  Untouched(s) /\ (private[u] = {} => Latest(h, s))
<1> DEFINE old == screen[u]
           latest == Shown(h, old.id)[old.target]
           isNew == Source(h, old.id) # Source(view[u], old.id) \/ Source(h, old.id) \in Replaced(u, m)
           new == [old EXCEPT !.selected = latest, !.draft = latest, !.touched = {}]
<1>1. old.page = "permissions" /\ old.id \in Channels /\ old.target \in Target
  BY DEF PermissionsPages
<1>2. Untouched(old) /\ (private[u] = {} => Latest(view[u], old))
  BY DEF Drafts
<1>3. s = IF isNew /\ latest # NoRow THEN new ELSE old
  BY DEF Reselected
<1>4. CASE isNew /\ latest # NoRow
  <2>1. s = new
    BY <1>3, <1>4
  <2>2. /\ s.page = "permissions" /\ s.id = old.id /\ s.target = old.target
        /\ s.selected = latest /\ s.draft = latest
    <3> HIDE DEF latest
    <3> QED
      BY <2>1 DEF PermissionsPages
  <2> QED
    BY <2>2 DEF Untouched, Latest
<1>5. CASE latest = NoRow
  <2>1. s = old
    BY <1>3, <1>5
  <2> QED
    BY <1>1, <1>2, <1>5, <2>1 DEF Latest
<1>6. CASE ~isNew /\ latest # NoRow
  <2>1. s = old
    BY <1>3, <1>6
  <2>2. Shown(view[u], old.id)[old.target] = latest
    BY <1>1, <1>6, ShownKept
  <2> QED
    BY <1>1, <1>2, <1>6, <2>1, <2>2 DEF Latest
<1> QED
  BY <1>4, <1>5, <1>6

LEMMA RoleReselectedDraft ==
    ASSUME Typed, Drafts, NEW u \in Users, NEW m \in Messages, NEW h, h = Applied(view[u], m),
           screen[u] \in RolePages, HasLists(h), NEW s, s = RoleReselected(u, h, m)
    PROVE  Untouched(s) /\ (private[u] = {} => Latest(h, s))
<1> DEFINE old == screen[u]
           again == m.type = "ROLE_CREATED" \/ (m.type = "ROLE_UPDATE" /\ m.id = old.id)
<1>1. old.page = "role" /\ old.id \in Roles
  BY DEF RolePages
<1>2. Untouched(old) /\ (private[u] = {} => Latest(view[u], old))
  BY DEF Drafts
<1>3. CASE again
  <2>1. PICK p : p = Page("role", m.id, m.id, h.roles[m.id])
    OBVIOUS
  <2>2. s = [p EXCEPT !.saving = old.saving]
    BY <1>3, <2>1 DEF RoleReselected
  <2>3. m.id \in Roles /\ m.data \in RoleRow
    BY <1>3 DEF Messages, Fits, FitsAs
  <2>4. s.page = "role" /\ s.id = m.id /\ s.selected = h.roles[m.id] /\ s.draft = s.selected
    <3>1. PICK no : no = FALSE
      OBVIOUS
    <3>2. p = [page |-> "role", id |-> m.id, target |-> m.id, selected |-> h.roles[m.id],
               draft |-> h.roles[m.id], touched |-> {}, saving |-> no]
      BY <2>1, <3>1, Zenon DEF Page
    <3> QED
      BY <2>2, <3>2
  <2> QED
    BY <2>4 DEF Untouched, Latest
<1>4. CASE ~again
  <2>1. s = old
    BY <1>4 DEF RoleReselected
  <2>2. h.roles[old.id] = NoRow \/ h.roles[old.id] = view[u].roles[old.id]
    <3>1. view[u] \in Guilds
      BY DEF Typed
    <3> QED
      BY <1>1, <1>4, <3>1, RolesAfter
  <2> QED
    BY <1>1, <1>2, <2>1, <2>2 DEF Latest
<1> QED
  BY <1>3, <1>4

LEMMA TakeKeepsDrafts ==
    ASSUME Typed, InOrder, Drafts, NEW u \in Users, NEW i \in DOMAIN inbox[u], Take(u, i)
    PROVE  Drafts'
<1>1. PICK m, h, s : /\ m = inbox[u][i] /\ h = Applied(view[u], m) /\ s = Rerendered(u, h, m)
  OBVIOUS
<1>2. /\ m \in Messages /\ screen[u] \in Screens /\ private' = private
      /\ \A v \in Users : /\ view'[v] = IF v = u THEN h ELSE view[v]
                          /\ screen'[v] = IF v = u THEN s ELSE screen[v]
  BY <1>1, ElementOfSeq DEF Take, Typed
<1>3. Untouched(s) /\ (private[u] = {} => Latest(h, s))
  <2>1. CASE s = NoScreen
    BY <2>1, NoDraft
  <2>2. CASE screen[u].page = "permissions" /\ \E b \in BOOLEAN :
                s = [Reselected(u, h, m) EXCEPT !.saving = b]
    <3>1. PICK t : t = Reselected(u, h, m)
      OBVIOUS
    <3>2. screen[u] \in PermissionsPages
      BY <1>2, <2>2, TypedScreen
    <3>3. t \in Screens \ {NoScreen}
      BY <1>1, <1>2, <3>1, <3>2, AppliedType, ReselectedType DEF Typed, Screens, PermissionsPages, NoScreen
    <3>4. Untouched(t) /\ (private[u] = {} => Latest(h, t))
      BY <1>1, <3>1, <3>2, ReselectedDraft
    <3> QED
      BY <2>2, <3>1, <3>3, <3>4, SavingKeepsDraft
  <2>3. CASE screen[u].page = "role" /\ HasLists(h) /\ \E b \in BOOLEAN :
                s = [RoleReselected(u, h, m) EXCEPT !.saving = b]
    <3>1. PICK t : t = RoleReselected(u, h, m)
      OBVIOUS
    <3>2. screen[u] \in RolePages
      BY <1>2, <2>3, TypedScreen
    <3>3. t \in Screens \ {NoScreen}
      BY <1>1, <1>2, <2>3, <3>1, <3>2, RoleReselectedType DEF Typed, Screens, RolePages, NoScreen
    <3>4. Untouched(t) /\ (private[u] = {} => Latest(h, t))
      BY <1>1, <1>2, <2>3, <3>1, <3>2, RoleReselectedDraft
    <3> QED
      BY <2>3, <3>1, <3>3, <3>4, SavingKeepsDraft
  <2>4. \/ s = NoScreen
        \/ screen[u].page = "permissions" /\ \E b \in BOOLEAN : s = [Reselected(u, h, m) EXCEPT !.saving = b]
        \/ /\ screen[u].page = "role" /\ HasLists(h)
           /\ \E b \in BOOLEAN : s = [RoleReselected(u, h, m) EXCEPT !.saving = b]
    <3>1. PICK a : a = (Reselected(u, h, m).saving /\ ~(m.reply /\ m.type = "OVERWRITE"))
      OBVIOUS
    <3>2. PICK b : b = (RoleReselected(u, h, m).saving /\ ~(m.reply /\ m.type = "ROLE_UPDATE"))
      OBVIOUS
    <3>3. a \in BOOLEAN /\ b \in BOOLEAN
      BY <3>1, <3>2
    <3>4. \/ s = NoScreen
          \/ screen[u].page = "permissions" /\ s = [Reselected(u, h, m) EXCEPT !.saving = a]
          \/ screen[u].page = "role" /\ HasLists(h) /\ s = [RoleReselected(u, h, m) EXCEPT !.saving = b]
      BY <1>1, <3>1, <3>2, Zenon DEF Rerendered
    <3> QED
      BY <3>3, <3>4
  <2> QED
    BY <2>1, <2>2, <2>3, <2>4
<1>4. ASSUME NEW v \in Users
      PROVE  Untouched(screen'[v]) /\ (private'[v] = {} => Latest(view'[v], screen'[v]))
  BY <1>2, <1>3 DEF Drafts
<1> QED
  BY Zenon, <1>4 DEF Drafts, Untouched, Latest, Shown, Source, ChannelsOf

LEMMA InitDrafts == Init => Drafts
BY NoDraft DEF Init, Drafts

LEMMA NextKeepsDrafts == Typed /\ InOrder /\ Drafts /\ [Next]_vars => Drafts'
<1> SUFFICES ASSUME Typed, InOrder, Drafts, [Next]_vars PROVE Drafts'
  OBVIOUS
<1>1. CASE UNCHANGED vars
  <2>1. view' = view /\ screen' = screen /\ private' = private
    BY <1>1 DEF vars
  <2> QED
    BY Zenon, <2>1 DEF Drafts, Untouched, Latest, Shown, Source, ChannelsOf
<1>2. ASSUME NEW u \in Users, Browse(u) PROVE Drafts'
  BY <1>2, BrowseKeepsDrafts
<1>3. ASSUME NEW u \in Users, Edit(u) PROVE Drafts'
  BY <1>3, EditKeepsDrafts
<1>4. ASSUME NEW u \in Users, Request(u) PROVE Drafts'
  <2>1. OnlySaves(u) /\ Handled(u)
    BY <1>4, RequestAsks, AsksHandled
  <2>2. view' = view /\ private' = private
    BY <2>1 DEF Handled, Handle
  <2> QED
    BY <2>1, <2>2, RequestKeepsDrafts
<1>5. ASSUME NEW u \in Users, NEW i \in DOMAIN inbox[u], Take(u, i) PROVE Drafts'
  BY <1>5, TakeKeepsDrafts
<1> QED
  BY <1>1, <1>2, <1>3, <1>4, <1>5 DEF Next, Request

\* Whatever the others save in the meantime and in whatever order it arrives, the draft of
\* an overwrite or a role is what the page shows, but for what its user has clicked on
\* (channel-permissions-section.tsx:545, roles-settings-section.tsx:670, 686).
THEOREM DraftsFollowTheView == Spec => []DraftFollowsView
<1>1. Init => Typed /\ InOrder /\ Drafts
  BY InitTyped, InitInOrder, InitDrafts
<1>2. Typed /\ InOrder /\ Drafts /\ [Next]_vars => (Typed /\ InOrder /\ Drafts)'
  BY NextTyped, NextInOrder, NextKeepsDrafts
<1>3. Typed /\ Drafts => DraftFollowsView
  BY DraftsFollow
<1> QED
  BY <1>1, <1>2, <1>3, PTL DEF Spec

-----------------------------------------------------------------------------
(* What is true of the guild after each message *)

\* Facts are a copy of the guild in which a row may name a category that is gone, and a member
\* hold a role that is gone: then a message changes what it is about and nothing else.
Over(rows, ows) == [t \in Target |-> IF ows[t] # NoRow THEN ows[t] ELSE rows[t]]

Up(h, row) == IF row = NoRow \/ row.parent = NoParent THEN NoRow ELSE h.channels[row.parent]

Overlaid(row, up, ow) ==
    IF row.isSynced /\ up # NoRow
    THEN [row EXCEPT !.isSynced = FALSE, !.overwrites = Over(up.overwrites, ow)]
    ELSE [row EXCEPT !.overwrites = Over(row.overwrites, ow)]

RowAfter(m, c, row, up) ==
    IF m.id # c THEN row
    ELSE IF m.type = "CHANNEL_UPDATE" THEN Merge(IF row = NoRow THEN Blank ELSE row, m.data)
    ELSE IF m.type = "CHANNEL_DELETE" THEN NoRow
    ELSE IF row = NoRow THEN row
    ELSE IF m.type = "RENAMED" THEN [row EXCEPT !.name = m.data.name]
    ELSE IF m.type = "OVERWRITE" THEN Overlaid(row, up, m.data)
    ELSE IF m.type = "OVERWRITE_DELETE"
         THEN [row EXCEPT !.overwrites = [row.overwrites EXCEPT ![m.data] = NoRow]]
    ELSE row

RoleAfter(m, r, row) ==
    IF m.type \in {"ROLE_UPDATE", "ROLE_CREATED"} /\ m.id = r THEN m.data
    ELSE IF m.type = "ROLE_DELETE" /\ m.id = r THEN NoRow
    ELSE row

HeldAfter(m, v, rs) ==
    IF m.type = "MEMBERS_UPDATE" /\ v \in DOMAIN m.data THEN m.data[v]
    ELSE IF m.type = "MEMBER_LEAVE" /\ m.id = v THEN {}
    ELSE rs

MembersAfter(m, vs) ==
    IF m.type = "MEMBERS_UPDATE" THEN vs \cup DOMAIN m.data
    ELSE IF m.type = "MEMBER_LEAVE" THEN vs \ {m.id}
    ELSE vs

NameAfter(m, n) == IF m.type = "GUILD_UPDATE" THEN m.data ELSE n

After(h, m) ==
    [present |-> h.present, name |-> NameAfter(m, h.name), members |-> MembersAfter(m, h.members),
     memberRoles |-> [v \in Users |-> HeldAfter(m, v, h.memberRoles[v])],
     roles |-> [r \in Roles |-> RoleAfter(m, r, h.roles[r])],
     channels |-> [c \in Channels |-> RowAfter(m, c, h.channels[c], Up(h, h.channels[c]))]]

\* A message is about what it changes.
AboutFits(m) ==
    /\ m.type \in {"CHANNEL_UPDATE", "CHANNEL_DELETE", "RENAMED", "OVERWRITE", "OVERWRITE_DELETE",
                   "ROLE_UPDATE", "ROLE_CREATED", "ROLE_DELETE", "MEMBER_LEAVE"} => m.id \in m.about
    /\ m.type = "CHANNEL_UPDATE" /\ "parent" \in DOMAIN m.data => m.data.parent \in m.about
    /\ m.type \in {"GUILD_UPDATE", "LEFT"} => "guild" \in m.about
    /\ m.type = "MEMBERS_UPDATE" =>
         DOMAIN m.data \subseteq m.about /\ \A v \in DOMAIN m.data : m.data[v] \subseteq m.about

\* Whom a copy shows the facts h: the category of a row and the roles of a member as far as
\* they are there.
Home(h, row) == IF Up(h, row) = NoRow THEN NoParent ELSE row.parent

Shows(row, fact, home) ==
    /\ row = NoRow <=> fact = NoRow
    /\ row # NoRow =>
         /\ row.name = fact.name /\ row.isSynced = fact.isSynced /\ row.ownerId = fact.ownerId
         /\ row.parent = home
         /\ ~row.isSynced => row.overwrites = fact.overwrites

Reads(g, h) ==
    /\ g.name = h.name /\ g.members = h.members
    /\ \A v \in Users : g.memberRoles[v] = h.memberRoles[v] \cap RolesOf(h)
    /\ \A r \in Roles : KnownRole(g.roles[r]) = KnownRole(h.roles[r])
    /\ \A c \in Channels : Shows(g.channels[c], h.channels[c], Home(h, h.channels[c]))

\* What a message takes for granted of the facts before it.
Sound(m, h) ==
    /\ m.type = "CHANNEL_UPDATE" =>
         IF m.id \in ChannelsOf(h)
         THEN /\ "parent" \notin DOMAIN m.data
              /\ h.channels[m.id].isSynced => m.data.isSynced \/ "overwrites" \in DOMAIN m.data
         ELSE "parent" \in DOMAIN m.data /\ m.data.parent \in ChannelsOf(h) \cup {NoParent}
    /\ m.type = "MEMBERS_UPDATE" => \A v \in DOMAIN m.data : m.data[v] \subseteq RolesOf(h)

\* What the facts name was issued, and a category follows no one.
Founded(h, ids) ==
    /\ \A c \in ChannelsOf(h) : /\ h.channels[c].parent \in ids \cup {NoParent}
                                /\ c \in Categories => ~h.channels[c].isSynced
    /\ \A v \in Users : h.memberRoles[v] \subseteq ids

\* F[k] has the rows after the k-th message: a row comes and goes once, and is announced.
Steady(F, S, box, ids) ==
    /\ \A x \in S : \A k \in 0..Len(box) : F[k][x] # NoRow => x \in ids
    /\ \A x \in S : \A i, j, k \in 0..Len(box) :
         i <= j /\ j <= k /\ F[i][x] # NoRow /\ F[k][x] # NoRow => F[j][x] # NoRow
    /\ \A x \in S : \A i, k \in 0..Len(box) :
         i < k => F[i][x] = F[k][x] \/ \E l \in (i + 1)..k : x \in box[l].about

ChannelsIn(H, n) == [k \in 0..n |-> H[k].channels]
RolesIn(H, n) == [k \in 0..n |-> H[k].roles]

\* The facts H[0] are those a client shows, H[k] those after the k-th message it will take.
Story(H, box, ids) ==
    /\ \A k \in 1..Len(box) : H[k] = After(H[k - 1], box[k]) /\ Sound(box[k], H[k - 1])
    /\ \A k \in 0..Len(box) : Founded(H[k], ids)
    /\ Steady(ChannelsIn(H, Len(box)), Channels, box, ids)
    /\ Steady(RolesIn(H, Len(box)), Roles, box, ids)
    /\ \A c \in Channels : \A i, k \in 0..Len(box) : c \in ChannelsOf(H[i]) /\ c \in ChannelsOf(H[k]) =>
         H[i].channels[c].parent = H[k].channels[c].parent
    /\ \A c \in ChannelsOf(H[0]) : \A k \in 0..Len(box) :
         H[0].channels[c].parent \in ChannelsOf(H[k]) => H[0].channels[c].parent \in ChannelsOf(H[0])
    /\ \A v \in Users : \A r \in H[0].memberRoles[v] : \A k \in 0..Len(box) :
         r \in RolesOf(H[k]) => r \in RolesOf(H[0])
    /\ \A l \in 1..Len(box) : box[l].type = "OVERWRITE" =>
         /\ box[l].id \in ids
         /\ \A k \in 0..Len(box) : box[l].id \in ChannelsOf(H[k]) =>
               LET home == H[k].channels[box[l].id].parent IN
               home \in box[l].about \cup {NoParent} \/ \A j \in 0..Len(box) : home \notin ChannelsOf(H[j])

\* A member's client comes to show the guild; one of a user who left, none.
Stays(u, g, box) ==
    /\ g.present /\ u \in g.members
    /\ \A l \in DOMAIN box : box[l].type # "LEFT" /\ (box[l].type = "MEMBER_LEAVE" => box[l].id # u)

Settled(u, g, box, srv, ids) ==
    /\ Stays(u, g, box)
    /\ \E H \in [0..Len(box) -> Guilds] :
          Reads(g, H[0]) /\ Reads(srv, H[Len(box)]) /\ Story(H, box, ids)

Gone(g, box) ==
    \/ ~g.present /\ \A l \in DOMAIN box : box[l].type # "GUILD_UPDATE"
    \/ \E i \in DOMAIN box : box[i].type = "LEFT" /\
          \A l \in DOMAIN box : l > i => box[l].type # "GUILD_UPDATE"

Follows(u, g, box, srv, ids) == IF u \in srv.members THEN Settled(u, g, box, srv, ids) ELSE Gone(g, box)

Settling ==
    /\ Owner \in server.members /\ RolesOf(server) \subseteq issued
    /\ \A u \in Users : \A i \in DOMAIN inbox[u] : AboutFits(inbox[u][i])
    /\ \A u \in Users : u \notin raced /\ private[u] = {} => Follows(u, view[u], inbox[u], server, issued)

LEMMA OverIs ==
    ASSUME NEW g, NEW rows, NEW ows
    PROVE  At(g)!Upsert(rows, ows) = Over(rows, ows)
BY DEF At!Upsert, At!Target, Over, Target

LEMMA OverType ==
    ASSUME NEW rows \in Overwrites, NEW ows \in Overwrites
    PROVE  Over(rows, ows) \in Overwrites
BY DEF Over, Overwrites

LEMMA AfterFields ==
    ASSUME NEW h, NEW m
    PROVE  /\ After(h, m).name = NameAfter(m, h.name)
           /\ After(h, m).members = MembersAfter(m, h.members)
           /\ \A v \in Users : After(h, m).memberRoles[v] = HeldAfter(m, v, h.memberRoles[v])
           /\ \A r \in Roles : After(h, m).roles[r] = RoleAfter(m, r, h.roles[r])
           /\ \A c \in Channels :
                 After(h, m).channels[c] = RowAfter(m, c, h.channels[c], Up(h, h.channels[c]))
BY DEF After

LEMMA OverlaidType ==
    ASSUME NEW row \in ChannelRow, NEW up \in ChannelRow \cup {NoRow}, NEW ows \in Overwrites
    PROVE  Overlaid(row, up, ows) \in ChannelRow
<1>1. Over(row.overwrites, ows) \in Overwrites
  BY OverType DEF ChannelRow
<1>2. up # NoRow => Over(up.overwrites, ows) \in Overwrites
  BY OverType DEF ChannelRow
<1>3. PICK a, b : a = Over(row.overwrites, ows) /\ b = Over(up.overwrites, ows)
  OBVIOUS
<1>4. /\ [row EXCEPT !.overwrites = a] \in ChannelRow
      /\ up # NoRow => [row EXCEPT !.isSynced = FALSE, !.overwrites = b] \in ChannelRow
  BY <1>1, <1>2, <1>3 DEF ChannelRow
<1> QED
  BY <1>3, <1>4 DEF Overlaid

LEMMA RowAfterType ==
    ASSUME NEW m \in Messages, NEW c \in Channels, NEW row \in ChannelRow \cup {NoRow},
           NEW up \in ChannelRow \cup {NoRow}
    PROVE  RowAfter(m, c, row, up) \in ChannelRow \cup {NoRow}
<1>1. Fits(m)
  BY DEF Messages
<1>2. CASE m.id # c \/ m.type \notin {"CHANNEL_UPDATE", "RENAMED", "OVERWRITE", "OVERWRITE_DELETE"}
  BY <1>2 DEF RowAfter
<1>3. CASE m.id = c /\ m.type = "CHANNEL_UPDATE"
  <2>1. m.data \in ChannelData
    BY <1>1, <1>3 DEF Fits, FitsAs
  <2>2. RowAfter(m, c, row, up) = Merge(IF row = NoRow THEN Blank ELSE row, m.data)
    BY <1>3 DEF RowAfter
  <2> QED
    BY <2>1, <2>2, MergeType, BlankType
<1>4. CASE m.id = c /\ m.type = "RENAMED"
  <2>1. m.data \in ChannelRow
    BY <1>1, <1>4 DEF Fits, FitsAs
  <2>2. row # NoRow => [row EXCEPT !.name = m.data.name] \in ChannelRow
    BY <2>1 DEF ChannelRow
  <2> QED
    BY <1>4, <2>2 DEF RowAfter
<1>5. CASE m.id = c /\ m.type = "OVERWRITE"
  <2>1. m.data \in Overwrites
    BY <1>1, <1>5 DEF Fits, FitsAs
  <2> QED
    BY <1>5, <2>1, OverlaidType DEF RowAfter
<1>6. CASE m.id = c /\ m.type = "OVERWRITE_DELETE"
  <2>1. row # NoRow => [row EXCEPT !.overwrites = [row.overwrites EXCEPT ![m.data] = NoRow]] \in ChannelRow
    BY DEF ChannelRow, Overwrites
  <2> QED
    BY <1>6, <2>1 DEF RowAfter
<1> QED
  BY <1>2, <1>3, <1>4, <1>5, <1>6

LEMMA UpType ==
    ASSUME NEW h \in Guilds, NEW row \in ChannelRow \cup {NoRow}
    PROVE  Up(h, row) \in ChannelRow \cup {NoRow}
BY EditorsAssumption DEF Up, Guilds, ChannelRow

LEMMA AfterType ==
    ASSUME NEW h \in Guilds, NEW m \in Messages
    PROVE  After(h, m) \in Guilds
<1>1. Fits(m)
  BY DEF Messages
<1>2. NameAfter(m, h.name) \in Names
  BY <1>1 DEF NameAfter, Fits, FitsAs, Guilds
<1>3. m.type = "MEMBERS_UPDATE" => \E D \in SUBSET Users : m.data \in [D -> SUBSET Roles]
  BY <1>1 DEF Fits, FitsAs, MemberData
<1>4. MembersAfter(m, h.members) \in SUBSET Users
  BY <1>3 DEF MembersAfter, Guilds
<1>5. \A v \in Users : HeldAfter(m, v, h.memberRoles[v]) \in SUBSET Roles
  BY <1>3 DEF HeldAfter, Guilds
<1>6. \A r \in Roles : RoleAfter(m, r, h.roles[r]) \in RoleRow \cup {NoRow}
  BY <1>1 DEF RoleAfter, Fits, FitsAs, Guilds
<1>7. \A c \in Channels : RowAfter(m, c, h.channels[c], Up(h, h.channels[c])) \in ChannelRow \cup {NoRow}
  <2> TAKE c \in Channels
  <2>1. h.channels[c] \in ChannelRow \cup {NoRow}
    BY DEF Guilds
  <2> QED
    BY <2>1, UpType, RowAfterType
<1>8. h.present \in BOOLEAN
  BY DEF Guilds
<1> QED
  BY <1>2, <1>4, <1>5, <1>6, <1>7, <1>8 DEF After, Guilds

\* What a message is not about stays.
LEMMA Untold ==
    ASSUME NEW m, AboutFits(m), NEW x, x \notin m.about
    PROVE  /\ \A row, up : RowAfter(m, x, row, up) = row
           /\ \A row : RoleAfter(m, x, row) = row
           /\ \A rs : HeldAfter(m, x, rs) = rs
           /\ \A vs : x \in MembersAfter(m, vs) <=> x \in vs
<1>1. m.id # x \/ m.type \notin {"CHANNEL_UPDATE", "CHANNEL_DELETE", "RENAMED", "OVERWRITE", "OVERWRITE_DELETE",
                   "ROLE_UPDATE", "ROLE_CREATED", "ROLE_DELETE", "MEMBER_LEAVE"}
  BY DEF AboutFits
<1>2. m.type = "MEMBERS_UPDATE" => x \notin DOMAIN m.data
  BY DEF AboutFits
<1>3. \A row, up : RowAfter(m, x, row, up) = row
  BY <1>1 DEF RowAfter
<1>4. \A row : RoleAfter(m, x, row) = row
  BY <1>1 DEF RoleAfter
<1>5. \A rs : HeldAfter(m, x, rs) = rs
  BY <1>1, <1>2 DEF HeldAfter
<1>6. \A vs : x \in MembersAfter(m, vs) <=> x \in vs
  BY <1>1, <1>2 DEF MembersAfter
<1> QED
  BY <1>3, <1>4, <1>5, <1>6

\* Where there is a row after a message.
LEMMA AfterThere ==
    ASSUME NEW h \in Guilds, NEW m \in Messages
    PROVE  /\ \A c \in Channels : c \in ChannelsOf(After(h, m)) <=>
                 IF m.id = c /\ m.type = "CHANNEL_UPDATE" THEN TRUE
                 ELSE c \in ChannelsOf(h) /\ ~(m.id = c /\ m.type = "CHANNEL_DELETE")
           /\ \A r \in Roles : r \in RolesOf(After(h, m)) <=>
                 IF m.id = r /\ m.type \in {"ROLE_UPDATE", "ROLE_CREATED"} THEN TRUE
                 ELSE r \in RolesOf(h) /\ ~(m.id = r /\ m.type = "ROLE_DELETE")
<1>1. Fits(m)
  BY DEF Messages
<1>2. ASSUME NEW c \in Channels
      PROVE  c \in ChannelsOf(After(h, m)) <=>
                 IF m.id = c /\ m.type = "CHANNEL_UPDATE" THEN TRUE
                 ELSE c \in ChannelsOf(h) /\ ~(m.id = c /\ m.type = "CHANNEL_DELETE")
  <2> DEFINE row == h.channels[c]
             new == RowAfter(m, c, row, Up(h, row))
  <2>1. After(h, m).channels[c] = new
    BY AfterFields
  <2>2. row \in ChannelRow \cup {NoRow} /\ new \in ChannelRow \cup {NoRow}
    BY UpType, RowAfterType DEF Guilds
  <2>3. c \in ChannelsOf(After(h, m)) <=> new # NoRow
    BY <2>1 DEF ChannelsOf
  <2>4. c \in ChannelsOf(h) <=> row # NoRow
    BY DEF ChannelsOf
  <2> HIDE DEF row
  <2>5. CASE m.id = c /\ m.type = "CHANNEL_UPDATE"
    <3>1. new = Merge(IF row = NoRow THEN Blank ELSE row, m.data) /\ m.data \in ChannelData
      BY <1>1, <2>5 DEF RowAfter, Fits, FitsAs
    <3>2. new \in ChannelRow
      BY <2>2, <3>1, MergeType, BlankType
    <3> QED
      BY <2>3, <2>5, <3>2, RowAssumption
  <2>6. CASE m.id = c /\ m.type = "CHANNEL_DELETE"
    BY <2>3, <2>4, <2>6 DEF RowAfter
  <2>7. CASE ~(m.id = c /\ m.type \in {"CHANNEL_UPDATE", "CHANNEL_DELETE"}) /\ row = NoRow
    <3>1. new = NoRow
      BY <2>7 DEF RowAfter
    <3> QED
      BY <2>3, <2>4, <2>7, <3>1
  <2>8. CASE ~(m.id = c /\ m.type \in {"CHANNEL_UPDATE", "CHANNEL_DELETE"}) /\ row # NoRow
    <3>1. row \in ChannelRow
      BY <2>2, <2>8
    <3>2. /\ [row EXCEPT !.name = m.data.name].isSynced = row.isSynced
          /\ [row EXCEPT !.overwrites = [row.overwrites EXCEPT ![m.data] = NoRow]].isSynced = row.isSynced
      BY <3>1 DEF ChannelRow
    <3>3. new # NoRow
      <4>1. CASE m.id # c \/ m.type \notin {"RENAMED", "OVERWRITE", "OVERWRITE_DELETE"}
        BY <2>8, <4>1 DEF RowAfter
      <4>2. CASE m.id = c /\ m.type = "RENAMED"
        <5>1. new = [row EXCEPT !.name = m.data.name] /\ m.data \in ChannelRow
          BY <1>1, <2>8, <4>2 DEF RowAfter, Fits, FitsAs
        <5>2. [row EXCEPT !.name = m.data.name] \in ChannelRow
          BY <3>1, <5>1 DEF ChannelRow
        <5> QED
          BY <5>1, <5>2, RowAssumption
      <4>3. CASE m.id = c /\ m.type = "OVERWRITE"
        <5>1. new = Overlaid(row, Up(h, row), m.data) /\ m.data \in Overwrites
          BY <1>1, <2>8, <4>3 DEF RowAfter, Fits, FitsAs
        <5>2. Overlaid(row, Up(h, row), m.data) \in ChannelRow
          BY <3>1, <5>1, UpType, OverlaidType
        <5> QED
          BY <5>1, <5>2, RowAssumption
      <4>4. CASE m.id = c /\ m.type = "OVERWRITE_DELETE"
        <5>1. new = [row EXCEPT !.overwrites = [row.overwrites EXCEPT ![m.data] = NoRow]]
          BY <2>8, <4>4 DEF RowAfter
        <5>2. [row EXCEPT !.overwrites = [row.overwrites EXCEPT ![m.data] = NoRow]] \in ChannelRow
          BY <3>1 DEF ChannelRow, Overwrites
        <5> QED
          BY <5>1, <5>2, RowAssumption
      <4> QED
        BY <4>1, <4>2, <4>3, <4>4
    <3> QED
      BY <2>3, <2>4, <2>8, <3>3
  <2> QED
    BY <2>5, <2>6, <2>7, <2>8
<1>3. ASSUME NEW r \in Roles
      PROVE  r \in RolesOf(After(h, m)) <=>
                 IF m.id = r /\ m.type \in {"ROLE_UPDATE", "ROLE_CREATED"} THEN TRUE
                 ELSE r \in RolesOf(h) /\ ~(m.id = r /\ m.type = "ROLE_DELETE")
  <2>1. After(h, m).roles[r] = RoleAfter(m, r, h.roles[r])
    BY AfterFields
  <2>2. m.type \in {"ROLE_UPDATE", "ROLE_CREATED"} => m.data # NoRow
    BY <1>1, RowAssumption DEF Fits, FitsAs
  <2> QED
    BY <2>1, <2>2 DEF RoleAfter, RolesOf
<1> QED
  BY <1>2, <1>3

\* A category stays what it was, and nothing follows it into another.
LEMMA AfterRow ==
    ASSUME NEW h \in Guilds, NEW m \in Messages, NEW c \in ChannelsOf(After(h, m))
    PROVE  LET old == h.channels[c]
               new == After(h, m).channels[c]
           IN  \/ /\ m.type = "CHANNEL_UPDATE" /\ m.id = c
                  /\ new.isSynced = m.data.isSynced
                  /\ "parent" \in DOMAIN m.data => new.parent = m.data.parent
                  /\ "parent" \notin DOMAIN m.data /\ c \in ChannelsOf(h) => new.parent = old.parent
               \/ c \in ChannelsOf(h) /\ new.parent = old.parent /\ (new.isSynced => old.isSynced)
<1> DEFINE old == h.channels[c]
           up == Up(h, old)
<1>1. c \in Channels /\ After(h, m).channels[c] = RowAfter(m, c, old, up)
  BY AfterFields DEF ChannelsOf
<1>2. Fits(m) /\ old \in ChannelRow \cup {NoRow} /\ up \in ChannelRow \cup {NoRow}
  BY <1>1, UpType DEF Messages, Guilds
<1>3. c \in ChannelsOf(h) <=> old # NoRow
  BY <1>1 DEF ChannelsOf
<1> DEFINE new == RowAfter(m, c, old, up)
<1>4. CASE m.type = "CHANNEL_UPDATE" /\ m.id = c
  <2>1. PICK from \in ChannelRow : from = (IF old = NoRow THEN Blank ELSE old)
    BY <1>2, BlankType
  <2>2. new = Merge(from, m.data) /\ m.data \in ChannelData
    BY <1>2, <1>4, <2>1 DEF RowAfter, Fits, FitsAs
  <2>3. /\ new.isSynced = m.data.isSynced
        /\ "parent" \in DOMAIN m.data => new.parent = m.data.parent
        /\ "parent" \notin DOMAIN m.data => new.parent = from.parent
    <3> HIDE DEF new
    <3> QED
      BY <2>2 DEF Merge, ChannelData, ChannelRow
  <2> QED
    BY <1>1, <1>3, <1>4, <2>1, <2>3
<1>5. CASE ~(m.type = "CHANNEL_UPDATE" /\ m.id = c)
  <2>1. c \in ChannelsOf(h) /\ ~(m.id = c /\ m.type = "CHANNEL_DELETE")
    BY <1>1, <1>5, AfterThere
  <2>2. old \in ChannelRow /\ old # NoRow
    BY <1>2, <1>3, <2>1
  <2>3. new.parent = old.parent /\ (new.isSynced => old.isSynced)
    <3>1. CASE m.id # c \/ m.type \notin {"RENAMED", "OVERWRITE", "OVERWRITE_DELETE"}
      <4>1. new = old
        BY <1>5, <2>1, <2>2, <3>1 DEF RowAfter
      <4> QED
        BY <4>1
    <3>2. CASE m.id = c /\ m.type = "RENAMED"
      <4>1. new = [old EXCEPT !.name = m.data.name]
        BY <1>5, <2>2, <3>2 DEF RowAfter
      <4> QED
        BY <2>2, <4>1 DEF ChannelRow
    <3>3. CASE m.id = c /\ m.type = "OVERWRITE"
      <4>1. new = Overlaid(old, up, m.data)
        BY <1>5, <2>2, <3>3 DEF RowAfter
      <4>2. PICK a, b : a = Over(old.overwrites, m.data) /\ b = Over(up.overwrites, m.data)
        OBVIOUS
      <4>3. \/ new = [old EXCEPT !.overwrites = a]
            \/ new = [old EXCEPT !.isSynced = FALSE, !.overwrites = b]
        BY <4>1, <4>2 DEF Overlaid
      <4>4. /\ [old EXCEPT !.overwrites = a].parent = old.parent
            /\ [old EXCEPT !.overwrites = a].isSynced = old.isSynced
            /\ [old EXCEPT !.isSynced = FALSE, !.overwrites = b].parent = old.parent
            /\ ~[old EXCEPT !.isSynced = FALSE, !.overwrites = b].isSynced
        BY <2>2 DEF ChannelRow
      <4> HIDE DEF new, old
      <4> QED
        BY <4>3, <4>4, Zenon
    <3>4. CASE m.id = c /\ m.type = "OVERWRITE_DELETE"
      <4>1. new = [old EXCEPT !.overwrites = [old.overwrites EXCEPT ![m.data] = NoRow]]
        BY <1>5, <2>2, <3>4 DEF RowAfter
      <4> QED
        BY <2>2, <4>1 DEF ChannelRow
    <3> QED
      BY <3>1, <3>2, <3>3, <3>4
  <2> QED
    BY <1>1, <2>1, <2>3
<1> QED
  BY <1>4, <1>5

LEMMA HomeIs ==
    ASSUME NEW h \in Guilds, NEW row \in ChannelRow
    PROVE  Home(h, row) = IF row.parent \in ChannelsOf(h) THEN row.parent ELSE NoParent
<1>1. row # NoRow /\ NoParent \notin Channels
  BY RowAssumption, EditorsAssumption
<1>2. row.parent \in Channels \cup {NoParent}
  BY EditorsAssumption DEF ChannelRow
<1> QED
  BY <1>1, <1>2 DEF Home, Up, ChannelsOf

LEMMA ReadsThere ==
    ASSUME NEW g \in Guilds, NEW h \in Guilds, Reads(g, h)
    PROVE  ChannelsOf(g) = ChannelsOf(h) /\ RolesOf(g) = RolesOf(h)
<1>1. \A c \in Channels : c \in ChannelsOf(g) <=> c \in ChannelsOf(h)
  BY DEF Reads, Shows, ChannelsOf
<1>2. ASSUME NEW r \in Roles PROVE r \in RolesOf(g) <=> r \in RolesOf(h)
  <2>1. KnownRole(g.roles[r]) = KnownRole(h.roles[r])
    BY DEF Reads
  <2>2. ASSUME NEW row \in RoleRow \cup {NoRow} PROVE KnownRole(row) = NoRow <=> row = NoRow
    <3>1. row # NoRow => [row EXCEPT !.position = 0] \in RoleRow
      BY DEF RoleRow
    <3> QED
      BY <3>1, RowAssumption DEF KnownRole
  <2>3. g.roles[r] \in RoleRow \cup {NoRow} /\ h.roles[r] \in RoleRow \cup {NoRow}
    BY DEF Guilds
  <2> QED
    BY <2>1, <2>2, <2>3 DEF RolesOf
<1> QED
  BY <1>1, <1>2 DEF ChannelsOf, RolesOf

\* The two halves of what a copy shows.
RowsRead(g, h) == \A c \in Channels : Shows(g.channels[c], h.channels[c], Home(h, h.channels[c]))

OthersRead(g, h) ==
    /\ g.name = h.name /\ g.members = h.members
    /\ \A v \in Users : g.memberRoles[v] = h.memberRoles[v] \cap RolesOf(h)
    /\ \A r \in Roles : KnownRole(g.roles[r]) = KnownRole(h.roles[r])

\* What a message makes of the facts is news.
Fresh(m, h) ==
    /\ m.type = "CHANNEL_UPDATE" /\ m.id \notin ChannelsOf(h) =>
         \A c \in ChannelsOf(h) : h.channels[c].parent # m.id
    /\ m.type \in {"ROLE_UPDATE", "ROLE_CREATED"} /\ m.id \notin RolesOf(h) =>
         \A v \in Users : m.id \notin h.memberRoles[v]

Flat(h) == \A c \in ChannelsOf(h) \cap Categories : ~h.channels[c].isSynced

\* A copy that shows the facts shows those after the message when it has taken it.
LEMMA OthersOn ==
    ASSUME NEW g \in Guilds, NEW h \in Guilds, NEW m \in Messages, Reads(g, h), Sound(m, h), Fresh(m, h),
           m.type \notin {"LEFT", "GUILD_UPDATE"}
    PROVE  OthersRead(Change(g, m), After(h, m))
<1> DEFINE k == After(h, m)
<1>1. Fits(m) /\ OthersRead(g, h)
  BY DEF Messages, Reads, OthersRead
<1>2. /\ k.name = h.name /\ k.members = MembersAfter(m, h.members)
      /\ \A v \in Users : k.memberRoles[v] = HeldAfter(m, v, h.memberRoles[v])
      /\ \A r \in Roles : k.roles[r] = RoleAfter(m, r, h.roles[r])
      /\ \A r \in Roles : r \in RolesOf(k) <=>
            IF m.id = r /\ m.type \in {"ROLE_UPDATE", "ROLE_CREATED"} THEN TRUE
            ELSE r \in RolesOf(h) /\ ~(m.id = r /\ m.type = "ROLE_DELETE")
  BY AfterFields, AfterThere DEF NameAfter
<1>3. RolesOf(k) \subseteq Roles /\ RolesOf(h) \subseteq Roles /\ \A v \in Users : h.memberRoles[v] \subseteq Roles
  BY DEF RolesOf, Guilds
<1> SUFFICES OthersRead(Change(g, m), k)
  OBVIOUS
<1> HIDE DEF k
<1>4. CASE m.type \in {"CHANNEL_UPDATE", "CHANNEL_DELETE", "RENAMED", "OVERWRITE", "OVERWRITE_DELETE"}
  <2>1. /\ Change(g, m).name = g.name /\ Change(g, m).members = g.members
        /\ Change(g, m).memberRoles = g.memberRoles /\ Change(g, m).roles = g.roles
    BY <1>4 DEF Change, UpsertChannel, WithoutChannel, MergeOverwrite, DropOverwrite, Guilds
  <2>2. /\ k.members = h.members
        /\ \A v \in Users : k.memberRoles[v] = h.memberRoles[v]
        /\ \A r \in Roles : k.roles[r] = h.roles[r]
        /\ RolesOf(k) = RolesOf(h)
    BY <1>2, <1>3, <1>4 DEF MembersAfter, HeldAfter, RoleAfter
  <2> QED
    BY <1>1, <1>2, <2>1, <2>2 DEF OthersRead
<1>5. CASE m.type = "MEMBERS_UPDATE"
  <2>1. PICK D \in SUBSET Users : m.data \in [D -> SUBSET Roles]
    BY <1>1, <1>5 DEF Fits, FitsAs, MemberData
  <2>2. /\ Change(g, m).name = g.name /\ Change(g, m).roles = g.roles
        /\ Change(g, m).members = g.members \cup D
        /\ \A v \in Users : Change(g, m).memberRoles[v] = IF v \in D THEN m.data[v] ELSE g.memberRoles[v]
    BY <1>5, <2>1 DEF Change, UpsertMembers, Guilds
  <2>3. /\ k.members = h.members \cup D
        /\ \A v \in Users : k.memberRoles[v] = IF v \in D THEN m.data[v] ELSE h.memberRoles[v]
        /\ \A r \in Roles : k.roles[r] = h.roles[r]
        /\ RolesOf(k) = RolesOf(h)
    BY <1>2, <1>3, <1>5, <2>1 DEF MembersAfter, HeldAfter, RoleAfter
  <2>4. \A v \in D : m.data[v] \subseteq RolesOf(h)
    BY <1>5, <2>1 DEF Sound
  <2> QED
    BY <1>1, <1>2, <2>2, <2>3, <2>4 DEF OthersRead
<1>6. CASE m.type = "MEMBER_LEAVE"
  <2>1. /\ Change(g, m).name = g.name /\ Change(g, m).roles = g.roles
        /\ Change(g, m).members = g.members \ {m.id}
        /\ \A v \in Users : Change(g, m).memberRoles[v] = IF v = m.id THEN {} ELSE g.memberRoles[v]
    BY <1>6 DEF Change, RemoveMember, Guilds
  <2>2. /\ k.members = h.members \ {m.id}
        /\ \A v \in Users : k.memberRoles[v] = IF v = m.id THEN {} ELSE h.memberRoles[v]
        /\ \A r \in Roles : k.roles[r] = h.roles[r]
        /\ RolesOf(k) = RolesOf(h)
    BY <1>2, <1>3, <1>6 DEF MembersAfter, HeldAfter, RoleAfter
  <2> QED
    BY <1>1, <1>2, <2>1, <2>2 DEF OthersRead
<1>7. CASE m.type \in {"ROLE_UPDATE", "ROLE_CREATED"}
  <2>1. m.id \in Roles
    BY <1>1, <1>7 DEF Fits, FitsAs
  <2>2. /\ Change(g, m).name = g.name /\ Change(g, m).members = g.members
        /\ Change(g, m).memberRoles = g.memberRoles
        /\ \A r \in Roles : Change(g, m).roles[r] = IF r = m.id THEN m.data ELSE g.roles[r]
    BY <1>7, <2>1 DEF Change, UpsertRole, Guilds
  <2>3. /\ k.members = h.members
        /\ \A v \in Users : k.memberRoles[v] = h.memberRoles[v]
        /\ \A r \in Roles : k.roles[r] = IF r = m.id THEN m.data ELSE h.roles[r]
        /\ RolesOf(k) = RolesOf(h) \cup {m.id}
    BY <1>2, <1>3, <1>7, <2>1 DEF MembersAfter, HeldAfter, RoleAfter
  <2>4. \A v \in Users : h.memberRoles[v] \cap RolesOf(k) = h.memberRoles[v] \cap RolesOf(h)
    BY <1>7, <2>3 DEF Fresh
  <2> QED
    BY <1>1, <1>2, <2>2, <2>3, <2>4 DEF OthersRead
<1>8. CASE m.type = "ROLE_DELETE"
  <2>1. m.id \in Roles
    BY <1>1, <1>8 DEF Fits, FitsAs
  <2>2. /\ Change(g, m).name = g.name /\ Change(g, m).members = g.members
        /\ \A v \in Users : Change(g, m).memberRoles[v] = g.memberRoles[v] \ {m.id}
        /\ \A r \in Roles : Change(g, m).roles[r] = IF r = m.id THEN NoRow ELSE g.roles[r]
    BY <1>8, <2>1 DEF Change, RemoveRole, Guilds
  <2>3. /\ k.members = h.members
        /\ \A v \in Users : k.memberRoles[v] = h.memberRoles[v]
        /\ \A r \in Roles : k.roles[r] = IF r = m.id THEN NoRow ELSE h.roles[r]
        /\ RolesOf(k) = RolesOf(h) \ {m.id}
    BY <1>2, <1>3, <1>8, <2>1 DEF MembersAfter, HeldAfter, RoleAfter
  <2> QED
    BY <1>1, <1>2, <2>2, <2>3 DEF OthersRead
<1> QED
  BY <1>1, <1>4, <1>5, <1>6, <1>7, <1>8 DEF Fits, FitsAs

LEMMA SameHome ==
    ASSUME NEW h \in Guilds, NEW k \in Guilds, NEW row, NEW fact \in ChannelRow \cup {NoRow},
           Shows(row, fact, Home(h, fact)),
           fact # NoRow => (fact.parent \in ChannelsOf(k) <=> fact.parent \in ChannelsOf(h))
    PROVE  Shows(row, fact, Home(k, fact))
<1>1. fact # NoRow => Home(k, fact) = Home(h, fact)
  BY HomeIs
<1> QED
  BY <1>1 DEF Shows

LEMMA RowsOn ==
    ASSUME NEW g \in Guilds, NEW h \in Guilds, NEW m \in Messages, Reads(g, h), Sound(m, h), Fresh(m, h),
           Flat(h), m.type \notin {"LEFT", "GUILD_UPDATE", "RENAMED"}
    PROVE  RowsRead(Change(g, m), After(h, m))
<1> DEFINE k == After(h, m)
           new == Change(g, m).channels
           c == m.id
<1>1. Fits(m)
  BY DEF Messages
<1>2. k \in Guilds
  BY AfterType
<1>3. \A d \in Channels : /\ h.channels[d] \in ChannelRow \cup {NoRow}
                          /\ g.channels[d] \in ChannelRow \cup {NoRow}
                          /\ Shows(g.channels[d], h.channels[d], Home(h, h.channels[d]))
                          /\ k.channels[d] = RowAfter(m, d, h.channels[d], Up(h, h.channels[d]))
  BY AfterFields DEF Reads, Guilds
<1>4. \A d \in Channels : /\ d \in ChannelsOf(k) <=>
                               IF c = d /\ m.type = "CHANNEL_UPDATE" THEN TRUE
                               ELSE d \in ChannelsOf(h) /\ ~(c = d /\ m.type = "CHANNEL_DELETE")
                          /\ d \in ChannelsOf(h) <=> h.channels[d] # NoRow
  BY AfterThere DEF ChannelsOf
<1>5. /\ ChannelsOf(k) \subseteq Channels /\ ChannelsOf(h) \subseteq Channels /\ ChannelsOf(g) = ChannelsOf(h)
      /\ NoParent \notin Channels
  BY ReadsThere, EditorsAssumption DEF ChannelsOf
<1> SUFFICES \A d \in Channels : Shows(new[d], k.channels[d], Home(k, k.channels[d]))
  BY DEF RowsRead
<1> HIDE DEF k, new, c
<1>6. ASSUME NEW d \in Channels, new[d] = g.channels[d], k.channels[d] = h.channels[d],
             h.channels[d] # NoRow =>
                 (h.channels[d].parent \in ChannelsOf(k) <=> h.channels[d].parent \in ChannelsOf(h))
      PROVE  Shows(new[d], k.channels[d], Home(k, k.channels[d]))
  BY <1>2, <1>3, <1>6, SameHome
<1>7. CASE m.type \in {"MEMBERS_UPDATE", "MEMBER_LEAVE", "ROLE_UPDATE", "ROLE_CREATED", "ROLE_DELETE"}
  <2>1. new = g.channels
    BY <1>7 DEF new, Change, UpsertMembers, RemoveMember, UpsertRole, RemoveRole, Guilds
  <2>2. \A d \in Channels : k.channels[d] = h.channels[d]
    BY <1>3, <1>7 DEF RowAfter
  <2>3. ChannelsOf(k) = ChannelsOf(h)
    BY <1>4, <1>5, <1>7
  <2> QED
    BY <1>6, <2>1, <2>2, <2>3
<1>8. CASE m.type = "CHANNEL_UPDATE"
  <2>1. c \in Channels /\ m.data \in ChannelData
    BY <1>1, <1>8 DEF c, Fits, FitsAs
  <2>2. new = [g.channels EXCEPT ![c] = Merge(IF g.channels[c] = NoRow THEN Blank ELSE g.channels[c], m.data)]
    BY <1>8 DEF new, c, Change, UpsertChannel, Guilds
  <2>3. /\ \A d \in Channels \ {c} : new[d] = g.channels[d] /\ k.channels[d] = h.channels[d]
        /\ new[c] = Merge(IF g.channels[c] = NoRow THEN Blank ELSE g.channels[c], m.data)
        /\ k.channels[c] = Merge(IF h.channels[c] = NoRow THEN Blank ELSE h.channels[c], m.data)
    BY <1>3, <1>8, <2>1, <2>2 DEF RowAfter, Guilds, c
  <2>4. ChannelsOf(k) = ChannelsOf(h) \cup {c}
    BY <1>4, <1>5, <1>8, <2>1
  <2>5. ASSUME NEW d \in Channels \ {c} PROVE Shows(new[d], k.channels[d], Home(k, k.channels[d]))
    <3>1. ASSUME h.channels[d] # NoRow, h.channels[d].parent = c PROVE c \in ChannelsOf(h)
      BY <1>4, <1>8, <3>1 DEF Fresh, c
    <3> QED
      BY <1>6, <2>3, <2>4, <3>1
  <2>6. Shows(new[c], k.channels[c], Home(k, k.channels[c]))
    <3>1. k.channels[c] \in ChannelRow
      BY <1>2, <1>4, <2>1, <2>4 DEF Guilds, ChannelsOf
    <3>2. Home(k, k.channels[c]) = IF k.channels[c].parent \in ChannelsOf(k) THEN k.channels[c].parent ELSE NoParent
      BY <1>2, <3>1, HomeIs
    <3>3. CASE c \in ChannelsOf(h)
      <4>1. PICK a \in ChannelRow, b \in ChannelRow : a = g.channels[c] /\ b = h.channels[c]
        BY <1>3, <1>4, <1>5, <2>1, <3>3 DEF ChannelsOf
      <4>2. a # NoRow /\ b # NoRow
        BY RowAssumption
      <4>3. /\ a.name = b.name /\ a.isSynced = b.isSynced /\ a.ownerId = b.ownerId
            /\ a.parent = Home(h, b) /\ (~a.isSynced => a.overwrites = b.overwrites)
        BY <1>3, <2>1, <4>1, <4>2 DEF Shows
      <4>4. a.parent = IF b.parent \in ChannelsOf(h) THEN b.parent ELSE NoParent
        BY <4>3, HomeIs
      <4>5. new[c] = Merge(a, m.data) /\ k.channels[c] = Merge(b, m.data)
        BY <2>3, <4>1, <4>2
      <4>6. "parent" \notin DOMAIN m.data /\ (b.isSynced => m.data.isSynced \/ "overwrites" \in DOMAIN m.data)
        BY <1>8, <3>3, <4>1 DEF Sound, c
      <4>7. PICK x, y : x = Merge(a, m.data) /\ y = Merge(b, m.data)
        OBVIOUS
      <4>8. /\ x.name = y.name /\ x.isSynced = y.isSynced /\ x.ownerId = y.ownerId
            /\ x.parent = a.parent /\ y.parent = b.parent
            /\ ~x.isSynced => x.overwrites = y.overwrites
            /\ x \in ChannelRow /\ y \in ChannelRow
        BY <2>1, <4>3, <4>6, <4>7 DEF Merge, ChannelData, ChannelRow
      <4>9. x # NoRow /\ y # NoRow
        BY <4>8, RowAssumption
      <4>10. ChannelsOf(k) = ChannelsOf(h)
        BY <2>4, <3>3
      <4> QED
        BY <3>2, <4>4, <4>5, <4>7, <4>8, <4>9, <4>10 DEF Shows
    <3>4. CASE c \notin ChannelsOf(h)
      <4>1. g.channels[c] = NoRow /\ h.channels[c] = NoRow
        BY <1>4, <1>5, <2>1, <3>4 DEF ChannelsOf
      <4>2. new[c] = Merge(Blank, m.data) /\ k.channels[c] = Merge(Blank, m.data)
        BY <2>3, <4>1
      <4>3. "parent" \in DOMAIN m.data /\ m.data.parent \in ChannelsOf(h) \cup {NoParent}
        BY <1>8, <3>4 DEF Sound, c
      <4>4. Merge(Blank, m.data).parent = m.data.parent
        BY <2>1, <4>3, BlankType DEF Merge, ChannelData, ChannelRow
      <4>5. Home(k, k.channels[c]) = k.channels[c].parent
        BY <1>5, <2>4, <3>2, <4>2, <4>3, <4>4
      <4> QED
        BY <4>2, <4>5 DEF Shows
    <3> QED
      BY <3>3, <3>4
  <2> QED
    BY <2>5, <2>6
<1>9. CASE m.type = "CHANNEL_DELETE"
  <2>1. c \in Channels
    BY <1>1, <1>9 DEF c, Fits, FitsAs
  <2>2. new = [d \in Channels |->
             IF d = c \/ g.channels[d] = NoRow THEN NoRow
             ELSE IF g.channels[d].parent = c THEN [g.channels[d] EXCEPT !.parent = NoParent]
             ELSE g.channels[d]]
    BY <1>9 DEF new, c, Change, WithoutChannel, Guilds
  <2>3. /\ k.channels[c] = NoRow
        /\ \A d \in Channels \ {c} : k.channels[d] = h.channels[d]
    BY <1>3, <1>9, <2>1 DEF RowAfter, c
  <2>4. ChannelsOf(k) = ChannelsOf(h) \ {c}
    BY <1>4, <1>5, <1>9, <2>1
  <2>5. Shows(new[c], k.channels[c], Home(k, k.channels[c]))
    BY <2>1, <2>2, <2>3 DEF Shows
  <2>6. ASSUME NEW d \in Channels \ {c} PROVE Shows(new[d], k.channels[d], Home(k, k.channels[d]))
    <3>1. CASE h.channels[d] = NoRow
      <4>1. g.channels[d] = NoRow
        BY <1>3, <3>1 DEF Shows
      <4> QED
        BY <2>2, <2>3, <3>1, <4>1 DEF Shows
    <3>2. CASE h.channels[d] # NoRow
      <4>1. PICK a \in ChannelRow, b \in ChannelRow : a = g.channels[d] /\ b = h.channels[d]
        BY <1>3, <3>2 DEF Shows
      <4>2. a # NoRow /\ b # NoRow
        BY RowAssumption
      <4>3. /\ a.name = b.name /\ a.isSynced = b.isSynced /\ a.ownerId = b.ownerId
            /\ a.parent = Home(h, b) /\ (~a.isSynced => a.overwrites = b.overwrites)
        BY <1>3, <4>1, <4>2 DEF Shows
      <4>4. /\ a.parent = IF b.parent \in ChannelsOf(h) THEN b.parent ELSE NoParent
            /\ Home(k, b) = IF b.parent \in ChannelsOf(k) THEN b.parent ELSE NoParent
        BY <1>2, <4>3, HomeIs
      <4>5. PICK x : x = [a EXCEPT !.parent = NoParent]
        OBVIOUS
      <4>6. /\ x.name = a.name /\ x.isSynced = a.isSynced /\ x.ownerId = a.ownerId /\ x.parent = NoParent
            /\ x.overwrites = a.overwrites /\ x \in ChannelRow
        BY <4>5 DEF ChannelRow
      <4>7. x # NoRow
        BY <4>6, RowAssumption
      <4>8. new[d] = IF a.parent = c THEN x ELSE a
        BY <2>2, <4>1, <4>2, <4>5
      <4>9. k.channels[d] = b
        BY <2>3, <4>1
      <4>10. CASE a.parent = c
        <5>1. Home(k, b) = NoParent
          BY <1>5, <2>1, <2>4, <4>4, <4>10
        <5> QED
          BY <4>2, <4>3, <4>6, <4>7, <4>8, <4>9, <4>10, <5>1 DEF Shows
      <4>11. CASE a.parent # c
        <5>1. Home(k, b) = a.parent
          BY <1>5, <2>1, <2>4, <4>4, <4>11
        <5> QED
          BY <4>2, <4>3, <4>8, <4>9, <4>11, <5>1 DEF Shows
      <4> QED
        BY <4>10, <4>11
    <3> QED
      BY <3>1, <3>2
  <2> QED
    BY <2>5, <2>6
<1>10. CASE m.type \in {"OVERWRITE", "OVERWRITE_DELETE"}
  <2>1. c \in Channels
    BY <1>1, <1>10 DEF c, Fits, FitsAs
  <2>2. ChannelsOf(k) = ChannelsOf(h)
    BY <1>4, <1>5, <1>10
  <2>3. ASSUME NEW d \in Channels \ {c} PROVE Shows(new[d], k.channels[d], Home(k, k.channels[d]))
    <3>1. new[d] = g.channels[d]
      BY <1>10, MergedAt, DroppedAt DEF new, c, Change, OnlyAt
    <3>2. k.channels[d] = h.channels[d]
      BY <1>3 DEF RowAfter, c
    <3> QED
      BY <1>6, <2>2, <3>1, <3>2
  <2>4. CASE h.channels[c] = NoRow
    <3>1. g.channels[c] = NoRow
      BY <1>3, <2>1, <2>4 DEF Shows
    <3>2. new[c] = NoRow
      BY <1>10, <3>1 DEF new, c, Change, MergeOverwrite, DropOverwrite
    <3>3. k.channels[c] = NoRow
      BY <1>3, <1>10, <2>1, <2>4 DEF RowAfter, c
    <3> QED
      BY <2>3, <3>2, <3>3 DEF Shows
  <2>5. CASE h.channels[c] # NoRow
    <3>1. PICK a \in ChannelRow, b \in ChannelRow : a = g.channels[c] /\ b = h.channels[c]
      BY <1>3, <2>1, <2>5 DEF Shows
    <3>2. a # NoRow /\ b # NoRow
      BY RowAssumption
    <3>3. /\ a.name = b.name /\ a.isSynced = b.isSynced /\ a.ownerId = b.ownerId
          /\ a.parent = Home(h, b) /\ (~a.isSynced => a.overwrites = b.overwrites)
      BY <1>3, <2>1, <3>1, <3>2 DEF Shows
    <3>4. /\ a.parent = IF b.parent \in ChannelsOf(h) THEN b.parent ELSE NoParent
          /\ \A row \in ChannelRow :
                Home(k, row) = IF row.parent \in ChannelsOf(h) THEN row.parent ELSE NoParent
      BY <1>2, <2>2, <3>3, HomeIs
    <3>5. \E x, y \in ChannelRow :
             /\ new[c] = x /\ k.channels[c] = y
             /\ x.name = a.name /\ y.name = b.name /\ x.ownerId = a.ownerId /\ y.ownerId = b.ownerId
             /\ x.isSynced = y.isSynced
             /\ x.parent = a.parent /\ y.parent = b.parent
             /\ ~x.isSynced => x.overwrites = y.overwrites
      <4>1. CASE m.type = "OVERWRITE_DELETE"
        <5>1. m.data \in Target
          BY <1>1, <4>1 DEF Fits, FitsAs
        <5>2. new[c] = [a EXCEPT !.overwrites = [a.overwrites EXCEPT ![m.data] = NoRow]]
          BY <2>1, <3>1, <3>2, <4>1 DEF new, c, Change, DropOverwrite, Guilds, ChannelRow
        <5>3. k.channels[c] = [b EXCEPT !.overwrites = [b.overwrites EXCEPT ![m.data] = NoRow]]
          BY <1>3, <2>1, <3>1, <3>2, <4>1 DEF RowAfter, c
        <5>6. PICK p, q : /\ p = [a.overwrites EXCEPT ![m.data] = NoRow]
                          /\ q = [b.overwrites EXCEPT ![m.data] = NoRow]
          OBVIOUS
        <5>7. p \in Overwrites /\ q \in Overwrites
          BY <5>1, <5>6 DEF ChannelRow, Overwrites
        <5>4. PICK x, y : x = [a EXCEPT !.overwrites = p] /\ y = [b EXCEPT !.overwrites = q]
          OBVIOUS
        <5>5. /\ x \in ChannelRow /\ y \in ChannelRow
              /\ x.name = a.name /\ y.name = b.name /\ x.ownerId = a.ownerId /\ y.ownerId = b.ownerId
              /\ x.isSynced = a.isSynced /\ y.isSynced = b.isSynced
              /\ x.parent = a.parent /\ y.parent = b.parent
              /\ x.overwrites = p /\ y.overwrites = q
          BY <5>7, <5>4 DEF ChannelRow
        <5>8. ~a.isSynced => p = q
          BY <3>3, <5>6
        <5>9. new[c] = x /\ k.channels[c] = y
          BY <5>2, <5>3, <5>4, <5>6
        <5> HIDE DEF new
        <5> QED
          BY <3>3, <5>5, <5>8, <5>9
      <4>2. CASE m.type = "OVERWRITE"
        <5>1. m.data \in Overwrites
          BY <1>1, <4>2 DEF Fits, FitsAs
        <5>2. k.channels[c] = Overlaid(b, Up(h, b), m.data)
          BY <1>3, <2>1, <3>1, <3>2, <4>2 DEF RowAfter, c
        <5>3. Up(h, b) # NoRow <=> b.parent \in ChannelsOf(h)
          BY <1>5, <3>2, EditorsAssumption DEF Up, ChannelsOf, ChannelRow
        <5>4. CASE a.isSynced /\ a.parent # NoParent
          <6>1. b.isSynced /\ b.parent \in ChannelsOf(h) /\ a.parent = b.parent
            BY <3>3, <3>4, <5>4
          <6>2. PICK p \in Channels : p = b.parent /\ p \in Categories /\ p \in ChannelsOf(h)
            BY <1>5, <6>1 DEF ChannelRow
          <6>3. ~h.channels[p].isSynced
            BY <6>2 DEF Flat
          <6>4. /\ p \in ChannelsOf(g) /\ h.channels[p] # NoRow /\ g.channels[p] # NoRow
                /\ h.channels[p] \in ChannelRow
            BY <1>3, <1>5, <6>2 DEF ChannelsOf
          <6>5. g.channels[p].isSynced = h.channels[p].isSynced
                /\ (~g.channels[p].isSynced => g.channels[p].overwrites = h.channels[p].overwrites)
            BY <1>3, <6>4 DEF Shows
          <6>6. g.channels[p].overwrites = h.channels[p].overwrites
            BY <6>3, <6>5
          <6>7. PICK ows : ows = Over(h.channels[p].overwrites, m.data)
            OBVIOUS
          <6>8. ows \in Overwrites
            BY <5>1, <6>4, <6>7, OverType DEF ChannelRow
          <6>9. new[c] = [a EXCEPT !.isSynced = FALSE, !.overwrites = At(g)!Upsert(g.channels[p].overwrites, m.data)]
            BY <2>1, <3>1, <3>2, <4>2, <5>4, <6>1, <6>2, <6>4 DEF new, c, Change, MergeOverwrite, Guilds
          <6>10. At(g)!Upsert(g.channels[p].overwrites, m.data) = ows
            BY <6>6, <6>7, OverIs
          <6>11. Up(h, b) = h.channels[p] /\ Up(h, b) # NoRow
            BY <1>5, <3>2, <5>3, <6>2 DEF Up
          <6>12. k.channels[c] = [b EXCEPT !.isSynced = FALSE, !.overwrites = ows]
            BY <5>2, <6>1, <6>7, <6>11 DEF Overlaid
          <6>13. PICK x, y : /\ x = [a EXCEPT !.isSynced = FALSE, !.overwrites = ows]
                             /\ y = [b EXCEPT !.isSynced = FALSE, !.overwrites = ows]
            OBVIOUS
          <6>14. /\ x \in ChannelRow /\ y \in ChannelRow
                 /\ x.name = a.name /\ y.name = b.name /\ x.ownerId = a.ownerId /\ y.ownerId = b.ownerId
                 /\ x.isSynced = y.isSynced
                 /\ x.parent = a.parent /\ y.parent = b.parent
                 /\ x.overwrites = y.overwrites
            BY <6>8, <6>13 DEF ChannelRow
          <6> QED
            BY <6>9, <6>10, <6>12, <6>13, <6>14
        <5>5. CASE ~(a.isSynced /\ a.parent # NoParent)
          <6>1. ~(b.isSynced /\ Up(h, b) # NoRow)
            BY <1>5, <3>3, <3>4, <5>3, <5>5
          <6>2. new[c] = [a EXCEPT !.overwrites = At(g)!Upsert(a.overwrites, m.data)]
            BY <2>1, <3>1, <3>2, <4>2, <5>5 DEF new, c, Change, MergeOverwrite, Guilds
          <6>3. k.channels[c] = [b EXCEPT !.overwrites = Over(b.overwrites, m.data)]
            BY <5>2, <6>1 DEF Overlaid
          <6>4. PICK p, q : p = Over(a.overwrites, m.data) /\ q = Over(b.overwrites, m.data)
            OBVIOUS
          <6>5. p \in Overwrites /\ q \in Overwrites
            BY <5>1, <6>4, OverType DEF ChannelRow
          <6>6. PICK x, y : x = [a EXCEPT !.overwrites = p] /\ y = [b EXCEPT !.overwrites = q]
            OBVIOUS
          <6>7. /\ x \in ChannelRow /\ y \in ChannelRow
                /\ x.name = a.name /\ y.name = b.name /\ x.ownerId = a.ownerId /\ y.ownerId = b.ownerId
                /\ x.isSynced = a.isSynced /\ y.isSynced = b.isSynced
                /\ x.parent = a.parent /\ y.parent = b.parent
                /\ x.overwrites = p /\ y.overwrites = q
            BY <6>5, <6>6 DEF ChannelRow
          <6>8. new[c] = x /\ k.channels[c] = y
            BY <6>2, <6>3, <6>4, <6>6, OverIs
          <6> QED
            BY <3>3, <6>4, <6>7, <6>8
        <5> QED
          BY <5>4, <5>5
      <4> QED
        BY <1>10, <4>1, <4>2
    <3>6. Shows(new[c], k.channels[c], Home(k, k.channels[c]))
      BY <3>3, <3>4, <3>5, RowAssumption DEF Shows
    <3> QED
      BY <2>3, <3>6
  <2> QED
    BY <2>4, <2>5
<1> QED
  BY <1>1, <1>7, <1>8, <1>9, <1>10 DEF Fits, FitsAs

LEMMA ReadOn ==
    ASSUME NEW g \in Guilds, NEW h \in Guilds, NEW m \in Messages, Reads(g, h), Sound(m, h), Fresh(m, h),
           Flat(h), m.type \notin {"LEFT", "GUILD_UPDATE", "RENAMED"}
    PROVE  Reads(Change(g, m), After(h, m))
BY OthersOn, RowsOn DEF Reads, OthersRead, RowsRead

LEMMA NameOn ==
    ASSUME NEW g \in Guilds, NEW h \in Guilds, NEW m \in Messages, Reads(g, h), m.type = "GUILD_UPDATE",
           NEW new, new.name = m.data, new.members = g.members, new.memberRoles = g.memberRoles,
           new.roles = g.roles, new.channels = g.channels
    PROVE  Reads(new, After(h, m))
<1> DEFINE k == After(h, m)
<1>0. /\ k.name = NameAfter(m, h.name) /\ k.members = MembersAfter(m, h.members)
      /\ \A v \in Users : k.memberRoles[v] = HeldAfter(m, v, h.memberRoles[v])
      /\ \A r \in Roles : k.roles[r] = RoleAfter(m, r, h.roles[r])
      /\ \A c \in Channels : k.channels[c] = RowAfter(m, c, h.channels[c], Up(h, h.channels[c]))
  BY AfterFields
<1>2. k \in Guilds
  BY AfterType
<1> SUFFICES Reads(new, k)
  OBVIOUS
<1> HIDE DEF k
<1>1. /\ k.name = m.data /\ k.members = h.members
      /\ \A v \in Users : k.memberRoles[v] = h.memberRoles[v]
      /\ \A r \in Roles : k.roles[r] = h.roles[r]
      /\ \A c \in Channels : k.channels[c] = h.channels[c]
  <2>1. \A c \in Channels : k.channels[c] = h.channels[c]
    BY <1>0 DEF RowAfter
  <2> QED
    BY <1>0, <2>1 DEF NameAfter, MembersAfter, HeldAfter, RoleAfter
<1>3. RolesOf(k) = RolesOf(h) /\ ChannelsOf(k) = ChannelsOf(h)
  BY <1>1 DEF RolesOf, ChannelsOf
<1>4. ASSUME NEW c \in Channels PROVE Shows(new.channels[c], k.channels[c], Home(k, k.channels[c]))
  <2>1. Shows(g.channels[c], h.channels[c], Home(h, h.channels[c])) /\ h.channels[c] \in ChannelRow \cup {NoRow}
    BY DEF Reads, Guilds
  <2> QED
    BY <1>1, <1>2, <1>3, <2>1, SameHome
<1> QED
  BY <1>1, <1>3, <1>4 DEF Reads

\* The answer to a rename is taken for the name alone.
LEMMA RenameOn ==
    ASSUME NEW g \in Guilds, NEW h \in Guilds, NEW m \in Messages, Reads(g, h), m.type = "RENAMED",
           m.id \in ChannelsOf(g), NEW new,
           new = [g EXCEPT !.channels = [g.channels EXCEPT ![m.id] = [g.channels[m.id] EXCEPT !.name = m.data.name]]]
    PROVE  Reads(new, After(h, m))
<1> DEFINE k == After(h, m)
           c == m.id
<1>0. /\ k.name = NameAfter(m, h.name) /\ k.members = MembersAfter(m, h.members)
      /\ \A v \in Users : k.memberRoles[v] = HeldAfter(m, v, h.memberRoles[v])
      /\ \A r \in Roles : k.roles[r] = RoleAfter(m, r, h.roles[r])
      /\ \A d \in Channels : k.channels[d] = RowAfter(m, d, h.channels[d], Up(h, h.channels[d]))
  BY AfterFields
<1>2. k \in Guilds /\ ChannelsOf(g) = ChannelsOf(h) /\ c \in Channels
  BY AfterType, ReadsThere DEF ChannelsOf
<1>3. h.channels[c] # NoRow /\ k.channels[c] = RowAfter(m, c, h.channels[c], Up(h, h.channels[c]))
  BY <1>2, AfterFields DEF ChannelsOf
<1>4. PICK a \in ChannelRow, b \in ChannelRow : a = g.channels[c] /\ b = h.channels[c]
  BY <1>2, <1>3 DEF Guilds, ChannelsOf
<1>5. PICK x, y : x = [a EXCEPT !.name = m.data.name] /\ y = [b EXCEPT !.name = m.data.name]
  OBVIOUS
<1>6. k.channels[c] = y
  BY <1>3, <1>4, <1>5 DEF RowAfter
<1>7. /\ new.name = g.name /\ new.members = g.members /\ new.memberRoles = g.memberRoles
      /\ new.roles = g.roles /\ new.channels[c] = x
      /\ \A d \in Channels \ {c} : new.channels[d] = g.channels[d]
  BY <1>2, <1>4, <1>5 DEF Guilds
<1> SUFFICES Reads(new, k)
  OBVIOUS
<1> HIDE DEF k, c
<1>1. /\ k.name = h.name /\ k.members = h.members
      /\ \A v \in Users : k.memberRoles[v] = h.memberRoles[v]
      /\ \A r \in Roles : k.roles[r] = h.roles[r]
      /\ \A d \in Channels \ {c} : k.channels[d] = h.channels[d]
  <2>1. \A d \in Channels \ {c} : k.channels[d] = h.channels[d]
    BY <1>0 DEF RowAfter, c
  <2> QED
    BY <1>0, <2>1 DEF NameAfter, MembersAfter, HeldAfter, RoleAfter
<1>8. m.data \in ChannelRow
  BY DEF Messages, Fits, FitsAs
<1>9. /\ x.name = y.name /\ x.isSynced = a.isSynced /\ y.isSynced = b.isSynced
      /\ x.ownerId = a.ownerId /\ y.ownerId = b.ownerId /\ x.parent = a.parent /\ y.parent = b.parent
      /\ x.overwrites = a.overwrites /\ y.overwrites = b.overwrites
      /\ x \in ChannelRow /\ y \in ChannelRow
  BY <1>5, <1>8 DEF ChannelRow
<1>10. x # NoRow /\ y # NoRow /\ a # NoRow /\ b # NoRow
  BY <1>9, RowAssumption
<1>11. RolesOf(k) = RolesOf(h) /\ ChannelsOf(k) = ChannelsOf(h)
  <2>1. RolesOf(k) = RolesOf(h)
    BY <1>1 DEF RolesOf
  <2>2. \A d \in Channels : k.channels[d] # NoRow <=> h.channels[d] # NoRow
    BY <1>1, <1>3, <1>6, <1>10
  <2> QED
    BY <2>1, <2>2 DEF ChannelsOf
<1>12. ASSUME NEW d \in Channels PROVE Shows(new.channels[d], k.channels[d], Home(k, k.channels[d]))
  <2>1. Shows(g.channels[d], h.channels[d], Home(h, h.channels[d])) /\ h.channels[d] \in ChannelRow \cup {NoRow}
    BY DEF Reads, Guilds
  <2>2. CASE d # c
    BY <1>1, <1>2, <1>7, <1>11, <2>1, <2>2, SameHome
  <2>3. CASE d = c
    <3>1. Shows(a, b, Home(h, b))
      BY <1>4, <2>1, <2>3
    <3>2. Home(k, y) = Home(h, b)
      BY <1>2, <1>9, <1>11, HomeIs
    <3>3. Shows(x, y, Home(h, b))
      BY <1>9, <1>10, <3>1 DEF Shows
    <3> QED
      BY <1>6, <1>7, <2>3, <3>2, <3>3
  <2> QED
    BY <2>2, <2>3
<1> QED
  BY <1>1, <1>7, <1>11, <1>12 DEF Reads

-----------------------------------------------------------------------------
(* Messages about different rows *)

\* Of another row a message reads only the category's of a channel whose overwrite it sets.
Reaches(m, h, k) ==
    m.type = "OVERWRITE" /\ m.id \in ChannelsOf(h) =>
        LET home == h.channels[m.id].parent IN
        home \in m.about \cup {NoParent} \/ (home \notin ChannelsOf(h) /\ home \notin ChannelsOf(k))

LEMMA SameUp ==
    ASSUME NEW h \in Guilds, NEW k \in Guilds, NEW m \in Messages, NEW c \in Channels,
           Reaches(m, h, k),
           \A d \in Channels : d \in m.about => k.channels[d] = h.channels[d]
    PROVE  RowAfter(m, c, h.channels[c], Up(k, h.channels[c])) = RowAfter(m, c, h.channels[c], Up(h, h.channels[c]))
<1>1. CASE ~(m.type = "OVERWRITE" /\ m.id = c)
  BY <1>1 DEF RowAfter
<1>2. CASE h.channels[c] = NoRow
  BY <1>2 DEF Up
<1>3. CASE m.type = "OVERWRITE" /\ m.id = c /\ h.channels[c] # NoRow
  <2>1. PICK row \in ChannelRow : row = h.channels[c]
    BY <1>3 DEF Guilds
  <2>2. row.parent \in Channels \cup {NoParent}
    BY EditorsAssumption DEF ChannelRow
  <2>3. \/ row.parent \in m.about \cup {NoParent}
        \/ row.parent \notin ChannelsOf(h) /\ row.parent \notin ChannelsOf(k)
    BY <1>3, <2>1 DEF Reaches, ChannelsOf
  <2>4. Up(k, row) = Up(h, row)
    BY <2>2, <2>3 DEF Up, ChannelsOf
  <2> QED
    BY <2>1, <2>4
<1> QED
  BY <1>1, <1>2, <1>3

LEMMA GuildsEqual ==
    ASSUME NEW g \in Guilds, NEW h \in Guilds, g.present = h.present, g.name = h.name,
           \A v \in Users : v \in g.members <=> v \in h.members,
           \A v \in Users : g.memberRoles[v] = h.memberRoles[v],
           \A r \in Roles : g.roles[r] = h.roles[r],
           \A c \in Channels : g.channels[c] = h.channels[c]
    PROVE  g = h
<1>1. /\ g.members = h.members
      /\ g.memberRoles = h.memberRoles
      /\ g.roles = h.roles
      /\ g.channels = h.channels
  <2>1. g.members \subseteq Users /\ h.members \subseteq Users
    BY DEF Guilds
  <2>2. /\ g.memberRoles \in [Users -> SUBSET Roles] /\ h.memberRoles \in [Users -> SUBSET Roles]
        /\ g.roles \in [Roles -> RoleRow \cup {NoRow}] /\ h.roles \in [Roles -> RoleRow \cup {NoRow}]
        /\ g.channels \in [Channels -> ChannelRow \cup {NoRow}]
        /\ h.channels \in [Channels -> ChannelRow \cup {NoRow}]
    BY DEF Guilds
  <2>3. g.members = h.members
    BY <2>1
  <2>4. g.memberRoles = h.memberRoles
    BY <2>2
  <2>5. g.roles = h.roles
    BY <2>2
  <2>6. g.channels = h.channels
    BY <2>2
  <2> QED
    BY <2>3, <2>4, <2>5, <2>6
<1> QED
  BY <1>1 DEF Guilds

LEMMA Commute ==
    ASSUME NEW h \in Guilds, NEW a \in Messages, NEW b \in Messages, AboutFits(a), AboutFits(b),
           a.about \cap b.about = {}, Reaches(a, h, After(h, b)), Reaches(b, h, After(h, a))
    PROVE  After(After(h, a), b) = After(After(h, b), a)
<1> DEFINE x == After(h, a)
           y == After(h, b)
<1>1. x \in Guilds /\ y \in Guilds /\ After(x, b) \in Guilds /\ After(y, a) \in Guilds
  BY AfterType
<1>2. x.present = h.present /\ y.present = h.present
      /\ After(x, b).present = x.present /\ After(y, a).present = y.present
  BY DEF After
<1>3. /\ x.name = NameAfter(a, h.name) /\ y.name = NameAfter(b, h.name)
      /\ x.members = MembersAfter(a, h.members) /\ y.members = MembersAfter(b, h.members)
      /\ \A v \in Users : /\ x.memberRoles[v] = HeldAfter(a, v, h.memberRoles[v])
                          /\ y.memberRoles[v] = HeldAfter(b, v, h.memberRoles[v])
      /\ \A r \in Roles : /\ x.roles[r] = RoleAfter(a, r, h.roles[r])
                          /\ y.roles[r] = RoleAfter(b, r, h.roles[r])
      /\ \A c \in Channels : /\ x.channels[c] = RowAfter(a, c, h.channels[c], Up(h, h.channels[c]))
                             /\ y.channels[c] = RowAfter(b, c, h.channels[c], Up(h, h.channels[c]))
  BY AfterFields
<1>4. /\ After(x, b).name = NameAfter(b, x.name) /\ After(y, a).name = NameAfter(a, y.name)
      /\ After(x, b).members = MembersAfter(b, x.members) /\ After(y, a).members = MembersAfter(a, y.members)
      /\ \A v \in Users : /\ After(x, b).memberRoles[v] = HeldAfter(b, v, x.memberRoles[v])
                          /\ After(y, a).memberRoles[v] = HeldAfter(a, v, y.memberRoles[v])
      /\ \A r \in Roles : /\ After(x, b).roles[r] = RoleAfter(b, r, x.roles[r])
                          /\ After(y, a).roles[r] = RoleAfter(a, r, y.roles[r])
      /\ \A c \in Channels : /\ After(x, b).channels[c] = RowAfter(b, c, x.channels[c], Up(x, x.channels[c]))
                             /\ After(y, a).channels[c] = RowAfter(a, c, y.channels[c], Up(y, y.channels[c]))
  BY AfterFields
<1> HIDE DEF x, y
<1>5. \A z : z \notin a.about \/ z \notin b.about
  OBVIOUS
<1>6. /\ \A z : z \notin a.about => /\ \A row, up : RowAfter(a, z, row, up) = row
                                    /\ \A row : RoleAfter(a, z, row) = row
                                    /\ \A rs : HeldAfter(a, z, rs) = rs
                                    /\ \A vs : z \in MembersAfter(a, vs) <=> z \in vs
      /\ \A z : z \notin b.about => /\ \A row, up : RowAfter(b, z, row, up) = row
                                    /\ \A row : RoleAfter(b, z, row) = row
                                    /\ \A rs : HeldAfter(b, z, rs) = rs
                                    /\ \A vs : z \in MembersAfter(b, vs) <=> z \in vs
  BY Untold
<1>7. After(x, b).name = After(y, a).name
  <2>1. a.type # "GUILD_UPDATE" \/ b.type # "GUILD_UPDATE"
    BY <1>5 DEF AboutFits
  <2> QED
    BY <1>3, <1>4, <2>1 DEF NameAfter
<1>8. ASSUME NEW v \in Users PROVE v \in After(x, b).members <=> v \in After(y, a).members
  <2>1. ASSUME NEW m, NEW s, NEW t, v \in s <=> v \in t
        PROVE  v \in MembersAfter(m, s) <=> v \in MembersAfter(m, t)
    BY <2>1 DEF MembersAfter
  <2>2. CASE v \notin a.about
    <3>1. (v \in x.members <=> v \in h.members) /\ (v \in After(y, a).members <=> v \in y.members)
      BY <1>3, <1>4, <1>6, <2>2
    <3>2. v \in MembersAfter(b, x.members) <=> v \in MembersAfter(b, h.members)
      BY <2>1, <3>1
    <3> QED
      BY <1>3, <1>4, <3>1, <3>2
  <2>3. CASE v \notin b.about
    <3>1. (v \in y.members <=> v \in h.members) /\ (v \in After(x, b).members <=> v \in x.members)
      BY <1>3, <1>4, <1>6, <2>3
    <3>2. v \in MembersAfter(a, y.members) <=> v \in MembersAfter(a, h.members)
      BY <2>1, <3>1
    <3> QED
      BY <1>3, <1>4, <3>1, <3>2
  <2> QED
    BY <1>5, <2>2, <2>3
<1>9. ASSUME NEW v \in Users PROVE After(x, b).memberRoles[v] = After(y, a).memberRoles[v]
  <2>1. CASE v \notin a.about
    BY <1>3, <1>4, <1>6, <2>1
  <2>2. CASE v \notin b.about
    BY <1>3, <1>4, <1>6, <2>2
  <2> QED
    BY <1>5, <2>1, <2>2
<1>10. ASSUME NEW r \in Roles PROVE After(x, b).roles[r] = After(y, a).roles[r]
  <2>1. CASE r \notin a.about
    BY <1>3, <1>4, <1>6, <2>1
  <2>2. CASE r \notin b.about
    BY <1>3, <1>4, <1>6, <2>2
  <2> QED
    BY <1>5, <2>1, <2>2
<1>11. ASSUME NEW c \in Channels PROVE After(x, b).channels[c] = After(y, a).channels[c]
  <2>1. CASE c \notin a.about
    <3>1. x.channels[c] = h.channels[c] /\ After(y, a).channels[c] = y.channels[c]
      BY <1>3, <1>4, <1>6, <2>1
    <3>2. \A d \in Channels : d \in b.about => x.channels[d] = h.channels[d]
      BY <1>3, <1>5, <1>6
    <3>3. Reaches(b, h, x)
      BY DEF x
    <3>4. RowAfter(b, c, h.channels[c], Up(x, h.channels[c])) = RowAfter(b, c, h.channels[c], Up(h, h.channels[c]))
      BY <1>1, <3>2, <3>3, SameUp
    <3> QED
      BY <1>3, <1>4, <3>1, <3>4
  <2>2. CASE c \notin b.about
    <3>1. y.channels[c] = h.channels[c] /\ After(x, b).channels[c] = x.channels[c]
      BY <1>3, <1>4, <1>6, <2>2
    <3>2. \A d \in Channels : d \in a.about => y.channels[d] = h.channels[d]
      BY <1>3, <1>5, <1>6
    <3>3. Reaches(a, h, y)
      BY DEF y
    <3>4. RowAfter(a, c, h.channels[c], Up(y, h.channels[c])) = RowAfter(a, c, h.channels[c], Up(h, h.channels[c]))
      BY <1>1, <3>2, <3>3, SameUp
    <3> QED
      BY <1>3, <1>4, <3>1, <3>4
  <2> QED
    BY <1>5, <2>1, <2>2
<1>12. After(x, b) = After(y, a)
  BY <1>1, <1>2, <1>7, <1>8, <1>9, <1>10, <1>11, GuildsEqual
<1> QED
  BY <1>12 DEF x, y

\* What a message takes for granted depends on what it is about.
LEMMA SoundFor ==
    ASSUME NEW h, NEW k, NEW m \in Messages, AboutFits(m), Sound(m, h),
           \A d \in Channels : d \in m.about => k.channels[d] = h.channels[d],
           \A r \in Roles : r \in m.about => k.roles[r] = h.roles[r]
    PROVE  Sound(m, k)
<1>1. Fits(m)
  BY DEF Messages
<1>2. CASE m.type = "CHANNEL_UPDATE"
  <2>1. m.id \in Channels /\ m.id \in m.about /\ k.channels[m.id] = h.channels[m.id]
    BY <1>1, <1>2 DEF Fits, FitsAs, AboutFits
  <2>2. "parent" \in DOMAIN m.data /\ m.data.parent \in ChannelsOf(h) => m.data.parent \in ChannelsOf(k)
    BY <1>2 DEF AboutFits, ChannelsOf
  <2> QED
    BY <1>2, <2>1, <2>2 DEF Sound, ChannelsOf
<1>3. CASE m.type = "MEMBERS_UPDATE"
  <2>1. \A v \in DOMAIN m.data : m.data[v] \subseteq RolesOf(h) /\ m.data[v] \subseteq m.about
    BY <1>3 DEF Sound, AboutFits
  <2> QED
    BY <1>3, <2>1 DEF Sound, RolesOf
<1> QED
  BY <1>2, <1>3 DEF Sound

-----------------------------------------------------------------------------
(* A message is taken before those that were sent earlier *)

\* The facts G are H with the l-th message told first.
Taken(H, box, l, rest, G, ids) ==
    /\ Len(rest) \in Nat /\ Len(box) = Len(rest) + 1 /\ l \in 1..Len(box)
    /\ \A k \in 1..Len(box) : box[k] \in Messages /\ AboutFits(box[k])
    /\ \A k \in 1..Len(rest) : rest[k] = IF k < l THEN box[k] ELSE box[k + 1]
    /\ \A j \in 1..(l - 1) : box[j].about \cap box[l].about = {}
    /\ H \in [0..Len(box) -> Guilds] /\ Story(H, box, ids)
    /\ G = [k \in 0..Len(rest) |-> IF k < l THEN After(H[k], box[l]) ELSE H[k + 1]]

\* Where the row of x that G[k] has is found in H.
Later(l, about, x, k) == IF k >= l THEN k + 1 ELSE IF x \in about THEN l ELSE k

Shifted(F2, rest, F, box, l, S) ==
    /\ Len(rest) \in Nat /\ Len(box) = Len(rest) + 1 /\ l \in 1..Len(box)
    /\ \A k \in 1..Len(rest) : rest[k] = IF k < l THEN box[k] ELSE box[k + 1]
    /\ \A x \in S : \A k \in 0..Len(rest) : F2[k][x] = F[Later(l, box[l].about, x, k)][x]

LEMMA SteadyTake ==
    ASSUME NEW F, NEW F2, NEW S, NEW box, NEW rest, NEW ids, NEW l,
           Shifted(F2, rest, F, box, l, S), Steady(F, S, box, ids)
    PROVE  Steady(F2, S, rest, ids)
<1>0. /\ Len(rest) \in Nat /\ Len(box) = Len(rest) + 1 /\ l \in 1..Len(box)
      /\ \A k \in 1..Len(rest) : rest[k] = IF k < l THEN box[k] ELSE box[k + 1]
      /\ \A x \in S : \A k \in 0..Len(rest) : F2[k][x] = F[Later(l, box[l].about, x, k)][x]
  BY DEF Shifted
<1>1. PICK n \in Nat : n = Len(rest)
  BY <1>0
<1>2. Len(box) = n + 1 /\ l \in 1..(n + 1)
  BY <1>0, <1>1
<1> DEFINE at(x, k) == Later(l, box[l].about, x, k)
<1>3. \A x : \A k \in 0..n : at(x, k) \in 0..(n + 1)
  BY <1>2 DEF Later
<1>4. \A x : \A i, k \in 0..n : i <= k => at(x, i) <= at(x, k)
  BY <1>2 DEF Later
<1>5. \A x \in S : \A k \in 0..n : F2[k][x] = F[at(x, k)][x]
  BY <1>0, <1>1
<1>6. ASSUME NEW x \in S, NEW i \in 0..n, NEW k \in 0..n, i < k
      PROVE  F2[i][x] = F2[k][x] \/ \E j \in (i + 1)..k : x \in rest[j].about
  <2>1. CASE at(x, i) = at(x, k)
    BY <1>5, <2>1
  <2>2. CASE at(x, i) # at(x, k)
    <3>1. at(x, i) < at(x, k)
      BY <1>3, <1>4, <1>6, <2>2
    <3>2. F[at(x, i)][x] = F[at(x, k)][x] \/ \E j \in (at(x, i) + 1)..at(x, k) : x \in box[j].about
      BY <1>2, <1>3, <3>1 DEF Steady
    <3>3. ASSUME NEW j \in (at(x, i) + 1)..at(x, k), x \in box[j].about
          PROVE  \E q \in (i + 1)..k : x \in rest[q].about
      <4>1. j \in Nat /\ j \in 1..(n + 1)
        BY <1>3
      <4>2. j # l
        <5>1. SUFFICES ASSUME j = l PROVE FALSE
          OBVIOUS
        <5>2. at(x, i) >= l
          BY <1>2, <3>3, <5>1 DEF Later
        <5> QED
          BY <1>2, <1>3, <5>1, <5>2
      <4>3. CASE j < l
        <5>1. j \in (i + 1)..k
          BY <1>2, <4>1, <4>3 DEF Later
        <5>2. rest[j] = box[j]
          BY <1>0, <1>1, <1>2, <4>3, <5>1
        <5> QED
          BY <3>3, <5>1, <5>2
      <4>4. CASE j > l
        <5>1. j - 1 \in (i + 1)..k
          BY <1>2, <4>1, <4>4 DEF Later
        <5>2. rest[j - 1] = box[j]
          BY <1>0, <1>1, <1>2, <4>4, <5>1
        <5> QED
          BY <3>3, <5>1, <5>2
      <4> QED
        BY <1>2, <4>1, <4>2, <4>3, <4>4
    <3> QED
      BY <1>5, <3>2, <3>3
  <2> QED
    BY <2>1, <2>2
<1>7. \A x \in S : \A k \in 0..n : F2[k][x] # NoRow => x \in ids
  BY <1>2, <1>3, <1>5 DEF Steady
<1>8. ASSUME NEW x \in S, NEW i \in 0..n, NEW j \in 0..n, NEW k \in 0..n, i <= j, j <= k,
             F2[i][x] # NoRow, F2[k][x] # NoRow
      PROVE  F2[j][x] # NoRow
  <2>1. at(x, i) <= at(x, j) /\ at(x, j) <= at(x, k)
    BY <1>4, <1>8
  <2>2. F[at(x, i)][x] # NoRow /\ F[at(x, k)][x] # NoRow
    BY <1>5, <1>8
  <2>3. F[at(x, j)][x] # NoRow
    <3> HIDE DEF at
    <3> QED
      BY <1>2, <1>3, <2>1, <2>2 DEF Steady
  <2> QED
    BY <1>5, <2>3
<1> QED
  BY <1>1, <1>6, <1>7, <1>8 DEF Steady

\* What the message is about is as it was when the server sent it.
LEMMA TakenSame ==
    ASSUME NEW H, NEW box, NEW l, NEW rest, NEW G, NEW ids, Taken(H, box, l, rest, G, ids),
           NEW k \in 0..(l - 1)
    PROVE  /\ \A c \in Channels : c \in box[l].about => H[k].channels[c] = H[l - 1].channels[c]
           /\ \A r \in Roles : r \in box[l].about => H[k].roles[r] = H[l - 1].roles[r]
<1>1. PICK n \in Nat : n = Len(rest) /\ Len(box) = n + 1 /\ l \in 1..(n + 1)
  BY DEF Taken
<1>2. \A j \in 1..(l - 1) : \A x \in box[l].about : x \notin box[j].about
  BY DEF Taken
<1>3. /\ Steady(ChannelsIn(H, Len(box)), Channels, box, ids)
      /\ Steady(RolesIn(H, Len(box)), Roles, box, ids)
  BY DEF Taken, Story
<1>4. \A j \in 0..(n + 1) : /\ ChannelsIn(H, Len(box))[j] = H[j].channels
                            /\ RolesIn(H, Len(box))[j] = H[j].roles
  BY <1>1 DEF ChannelsIn, RolesIn
<1>5. CASE k = l - 1
  BY <1>5
<1>6. CASE k < l - 1
  <2>1. k \in 0..(n + 1) /\ l - 1 \in 0..(n + 1) /\ (k + 1)..(l - 1) \subseteq 1..(l - 1)
    BY <1>1
  <2>2. ASSUME NEW c \in Channels, c \in box[l].about PROVE H[k].channels[c] = H[l - 1].channels[c]
    <3>1. \A i, j \in 0..(n + 1) :
             i < j => H[i].channels[c] = H[j].channels[c] \/ \E q \in (i + 1)..j : c \in box[q].about
      BY <1>1, <1>3, <1>4 DEF Steady
    <3> QED
      BY <1>2, <1>6, <2>1, <2>2, <3>1
  <2>3. ASSUME NEW r \in Roles, r \in box[l].about PROVE H[k].roles[r] = H[l - 1].roles[r]
    <3>1. \A i, j \in 0..(n + 1) :
             i < j => H[i].roles[r] = H[j].roles[r] \/ \E q \in (i + 1)..j : r \in box[q].about
      BY <1>1, <1>3, <1>4 DEF Steady
    <3> QED
      BY <1>2, <1>6, <2>1, <2>3, <3>1
  <2> QED
    BY <2>2, <2>3
<1> QED
  BY <1>1, <1>5, <1>6

LEMMA TakenRows ==
    ASSUME NEW H, NEW box, NEW l, NEW rest, NEW G, NEW ids, Taken(H, box, l, rest, G, ids),
           NEW k \in 0..Len(rest)
    PROVE  /\ \A x : Later(l, box[l].about, x, k) \in 0..Len(box)
           /\ \A c \in Channels : G[k].channels[c] = H[Later(l, box[l].about, c, k)].channels[c]
           /\ \A r \in Roles : G[k].roles[r] = H[Later(l, box[l].about, r, k)].roles[r]
           /\ G[k] \in Guilds
<1> DEFINE m == box[l]
<1>1. PICK n \in Nat : n = Len(rest) /\ Len(box) = n + 1 /\ l \in 1..(n + 1)
  BY DEF Taken
<1>2. m \in Messages /\ AboutFits(m)
  BY <1>1 DEF Taken
<1>3. /\ \A j \in 0..(n + 1) : H[j] \in Guilds
      /\ \A j \in 0..n : G[j] = IF j < l THEN After(H[j], m) ELSE H[j + 1]
      /\ H[l] = After(H[l - 1], m)
  BY <1>1 DEF Taken, Story
<1>4. \A x : Later(l, m.about, x, k) \in 0..Len(box)
  BY <1>1 DEF Later
<1>5. G[k] \in Guilds
  <2>1. k < l => After(H[k], m) \in Guilds
    BY <1>1, <1>2, <1>3, AfterType
  <2>2. k >= l => H[k + 1] \in Guilds
    BY <1>1, <1>3
  <2> QED
    BY <1>1, <1>3, <2>1, <2>2
<1>6. CASE k >= l
  BY <1>1, <1>3, <1>4, <1>5, <1>6 DEF Later
<1>7. CASE k < l
  <2>1. k \in 0..(l - 1) /\ l - 1 \in 0..(n + 1) /\ l \in 0..(n + 1)
    BY <1>1, <1>7
  <2>2. /\ \A c \in Channels : c \in m.about => H[k].channels[c] = H[l - 1].channels[c]
        /\ \A r \in Roles : r \in m.about => H[k].roles[r] = H[l - 1].roles[r]
    BY <2>1, TakenSame
  <2>3. G[k] = After(H[k], m)
    BY <1>1, <1>3, <1>7
  <2>4. \A x : Later(l, m.about, x, k) = IF x \in m.about THEN l ELSE k
    BY <1>1, <1>7 DEF Later
  <2>5. ASSUME NEW r \in Roles PROVE G[k].roles[r] = H[Later(l, m.about, r, k)].roles[r]
    <3>1. G[k].roles[r] = RoleAfter(m, r, H[k].roles[r]) /\ H[l].roles[r] = RoleAfter(m, r, H[l - 1].roles[r])
      BY <1>3, <2>3, AfterFields
    <3>2. r \notin m.about => RoleAfter(m, r, H[k].roles[r]) = H[k].roles[r]
      BY <1>2, Untold
    <3> QED
      BY <2>2, <2>4, <3>1, <3>2
  <2>6. ASSUME NEW c \in Channels PROVE G[k].channels[c] = H[Later(l, m.about, c, k)].channels[c]
    <3>1. /\ G[k].channels[c] = RowAfter(m, c, H[k].channels[c], Up(H[k], H[k].channels[c]))
          /\ H[l].channels[c] = RowAfter(m, c, H[l - 1].channels[c], Up(H[l - 1], H[l - 1].channels[c]))
      BY <1>3, <2>3, AfterFields
    <3>2. CASE c \notin m.about
      <4>1. RowAfter(m, c, H[k].channels[c], Up(H[k], H[k].channels[c])) = H[k].channels[c]
        BY <1>2, <3>2, Untold
      <4> QED
        BY <2>4, <3>1, <3>2, <4>1
    <3>3. CASE c \in m.about
      <4>1. Reaches(m, H[k], H[l - 1])
        <5>1. m.type = "OVERWRITE" =>
                 \A i \in 0..Len(box) : m.id \in ChannelsOf(H[i]) =>
                    LET home == H[i].channels[m.id].parent IN
                    home \in m.about \cup {NoParent} \/ \A j \in 0..Len(box) : home \notin ChannelsOf(H[j])
          BY <1>1 DEF Taken, Story
        <5>2. k \in 0..Len(box) /\ l - 1 \in 0..Len(box)
          BY <1>1, <2>1
        <5> QED
          BY <5>1, <5>2 DEF Reaches
      <4>2. H[k] \in Guilds /\ H[l - 1] \in Guilds
        BY <1>1, <1>3, <2>1
      <4>3. \A d \in Channels : d \in m.about => H[l - 1].channels[d] = H[k].channels[d]
        BY <2>2
      <4>4. RowAfter(m, c, H[k].channels[c], Up(H[l - 1], H[k].channels[c]))
              = RowAfter(m, c, H[k].channels[c], Up(H[k], H[k].channels[c]))
        BY <1>2, <4>1, <4>2, <4>3, SameUp
      <4> QED
        BY <2>2, <2>4, <3>1, <3>3, <4>4
    <3> QED
      BY <3>2, <3>3
  <2> QED
    BY <1>4, <1>5, <2>5, <2>6
<1> QED
  BY <1>1, <1>6, <1>7

LEMMA TakenBasics ==
    ASSUME NEW H, NEW box, NEW l, NEW rest, NEW G, NEW ids, Taken(H, box, l, rest, G, ids)
    PROVE  /\ Len(rest) \in Nat /\ Len(box) = Len(rest) + 1 /\ l \in 1..Len(box)
           /\ \A k \in 1..Len(box) : box[k] \in Messages /\ AboutFits(box[k])
           /\ \A k \in 0..Len(box) : H[k] \in Guilds
           /\ \A k \in 0..Len(rest) : G[k] = IF k < l THEN After(H[k], box[l]) ELSE H[k + 1]
           /\ \A k \in 1..Len(box) : H[k] = After(H[k - 1], box[k]) /\ Sound(box[k], H[k - 1])
           /\ \A k \in 0..Len(box) : Founded(H[k], ids)
           /\ G[0] = After(H[0], box[l]) /\ G[Len(rest)] = H[Len(box)]
<1>1. PICK n \in Nat : n = Len(rest) /\ Len(box) = n + 1 /\ l \in 1..(n + 1)
  BY DEF Taken
<1>2. /\ \A k \in 1..Len(box) : box[k] \in Messages /\ AboutFits(box[k])
      /\ \A k \in 0..Len(box) : H[k] \in Guilds
      /\ \A k \in 0..Len(rest) : G[k] = IF k < l THEN After(H[k], box[l]) ELSE H[k + 1]
  BY DEF Taken
<1>3. /\ \A k \in 1..Len(box) : H[k] = After(H[k - 1], box[k]) /\ Sound(box[k], H[k - 1])
      /\ \A k \in 0..Len(box) : Founded(H[k], ids)
  BY DEF Taken, Story
<1>4. G[0] = After(H[0], box[l])
  BY <1>1, <1>2
<1>5. G[n] = H[n + 1]
  <2>1. CASE n >= l
    BY <1>1, <1>2, <2>1
  <2>2. CASE n < l
    <3>1. l = n + 1 /\ l - 1 = n
      BY <1>1, <2>2
    <3>2. G[n] = After(H[n], box[l]) /\ H[l] = After(H[l - 1], box[l])
      BY <1>1, <1>2, <1>3, <2>2
    <3> QED
      BY <3>1, <3>2
  <2> QED
    BY <1>1, <2>1, <2>2
<1> QED
  BY <1>1, <1>2, <1>3, <1>4, <1>5

\* The clause of a story about the answers to saved overwrites.
Homes(H, box, ids) ==
    \A l \in 1..Len(box) : box[l].type = "OVERWRITE" =>
         /\ box[l].id \in ids
         /\ \A k \in 0..Len(box) : box[l].id \in ChannelsOf(H[k]) =>
               LET home == H[k].channels[box[l].id].parent IN
               home \in box[l].about \cup {NoParent} \/ \A j \in 0..Len(box) : home \notin ChannelsOf(H[j])

LEMMA StoryHomes ==
    ASSUME NEW H, NEW box, NEW ids, Story(H, box, ids)
    PROVE  Homes(H, box, ids)
BY DEF Story, Homes

LEMMA TakenHomes ==
    ASSUME NEW H, NEW box, NEW l, NEW rest, NEW G, NEW ids, Taken(H, box, l, rest, G, ids)
    PROVE  Homes(G, rest, ids)
<1>1. PICK n \in Nat : n = Len(rest) /\ Len(box) = n + 1 /\ l \in 1..(n + 1)
  BY DEF Taken
<1>2. Homes(H, box, ids)
  BY StoryHomes DEF Taken
<1>3. \A k \in 1..n : rest[k] = IF k < l THEN box[k] ELSE box[k + 1]
  BY <1>1 DEF Taken
<1> DEFINE at(x, k) == Later(l, box[l].about, x, k)
<1>4. /\ \A k \in 0..n : \A x : at(x, k) \in 0..(n + 1)
      /\ \A k \in 0..n : \A c \in Channels : G[k].channels[c] = H[at(c, k)].channels[c]
  <2>1. \A k \in 0..Len(rest) : \A x : at(x, k) \in 0..Len(box)
    BY TakenRows
  <2>2. \A k \in 0..Len(rest) : \A c \in Channels : G[k].channels[c] = H[at(c, k)].channels[c]
    BY TakenRows
  <2> QED
    BY <1>1, <2>1, <2>2
<1> HIDE DEF at
<1>5. ASSUME NEW x, NEW k \in 0..n, x \in ChannelsOf(G[k]) PROVE x \in ChannelsOf(H[at(x, k)])
  BY <1>4, <1>5 DEF ChannelsOf
<1>6. ASSUME NEW j \in 1..n, rest[j].type = "OVERWRITE"
      PROVE  /\ rest[j].id \in ids
             /\ \A k \in 0..n : rest[j].id \in ChannelsOf(G[k]) =>
                  LET home == G[k].channels[rest[j].id].parent IN
                  home \in rest[j].about \cup {NoParent} \/ \A i \in 0..n : home \notin ChannelsOf(G[i])
  <2>1. PICK q \in 1..(n + 1) : rest[j] = box[q]
    <3>1. j \in 1..(n + 1) /\ j + 1 \in 1..(n + 1)
      OBVIOUS
    <3> QED
      BY <1>3, <3>1
  <2>2. rest[j].id \in ids
    BY <1>1, <1>2, <1>6, <2>1 DEF Homes
  <2>3. ASSUME NEW k \in 0..n, rest[j].id \in ChannelsOf(G[k])
        PROVE  LET home == G[k].channels[rest[j].id].parent IN
               home \in rest[j].about \cup {NoParent} \/ \A i \in 0..n : home \notin ChannelsOf(G[i])
    <3> DEFINE x == rest[j].id
               home == G[k].channels[x].parent
    <3>1. x \in Channels /\ x \in ChannelsOf(H[at(x, k)]) /\ at(x, k) \in 0..(n + 1)
      BY <1>4, <1>5, <2>3 DEF ChannelsOf
    <3>2. home = H[at(x, k)].channels[x].parent
      BY <1>4, <3>1
    <3>3. home \in box[q].about \cup {NoParent} \/ \A i \in 0..(n + 1) : home \notin ChannelsOf(H[i])
      BY <1>1, <1>2, <1>6, <2>1, <3>1, <3>2 DEF Homes
    <3>4. (\A i \in 0..(n + 1) : home \notin ChannelsOf(H[i])) => \A i \in 0..n : home \notin ChannelsOf(G[i])
      BY <1>4, <1>5
    <3> QED
      BY <2>1, <3>3, <3>4
  <2> QED
    BY <2>2, <2>3
<1> QED
  BY <1>1, <1>6 DEF Homes

LEMMA TakenChain ==
    ASSUME NEW H, NEW box, NEW l, NEW rest, NEW G, NEW ids, Taken(H, box, l, rest, G, ids),
           NEW k \in 1..Len(rest)
    PROVE  G[k] = After(G[k - 1], rest[k]) /\ Sound(rest[k], G[k - 1])
<1> DEFINE m == box[l]
<1>1. PICK n \in Nat : n = Len(rest) /\ Len(box) = n + 1 /\ l \in 1..(n + 1)
  BY DEF Taken
<1>2. /\ \A j \in 1..(n + 1) : box[j] \in Messages /\ AboutFits(box[j])
      /\ \A j \in 0..(n + 1) : H[j] \in Guilds
      /\ \A j \in 0..n : G[j] = IF j < l THEN After(H[j], m) ELSE H[j + 1]
      /\ \A j \in 1..(n + 1) : H[j] = After(H[j - 1], box[j]) /\ Sound(box[j], H[j - 1])
  <2>1. /\ \A j \in 1..Len(box) : box[j] \in Messages /\ AboutFits(box[j])
        /\ \A j \in 0..Len(box) : H[j] \in Guilds
        /\ \A j \in 0..Len(rest) : G[j] = IF j < l THEN After(H[j], m) ELSE H[j + 1]
        /\ \A j \in 1..Len(box) : H[j] = After(H[j - 1], box[j]) /\ Sound(box[j], H[j - 1])
    BY TakenBasics
  <2> QED
    BY <1>1, <2>1
<1>3. /\ rest[k] = IF k < l THEN box[k] ELSE box[k + 1]
      /\ \A j \in 1..(l - 1) : box[j].about \cap m.about = {}
  BY DEF Taken
<1>4. k \in 1..n /\ k - 1 \in 0..n
  BY <1>1
<1> HIDE DEF m
<1>5. CASE k >= l
  <2>1. rest[k] = box[k + 1] /\ G[k] = H[k + 1]
    BY <1>1, <1>2, <1>3, <1>4, <1>5
  <2>2. G[k - 1] = H[k]
    <3>1. CASE k - 1 >= l
      <4>1. G[k - 1] = H[(k - 1) + 1] /\ (k - 1) + 1 = k
        BY <1>1, <1>2, <1>4, <3>1
      <4> QED
        BY <4>1
    <3>2. CASE k - 1 < l
      <4>1. k = l
        BY <1>1, <1>4, <1>5, <3>2
      <4>2. G[k - 1] = After(H[k - 1], m)
        BY <1>1, <1>2, <1>4, <3>2
      <4> QED
        BY <1>1, <1>2, <1>4, <4>1, <4>2 DEF m
    <3> QED
      BY <1>1, <1>4, <3>1, <3>2
  <2>3. k + 1 \in 1..(n + 1) /\ (k + 1) - 1 = k
    BY <1>4
  <2>4. H[k + 1] = After(H[k], box[k + 1]) /\ Sound(box[k + 1], H[k])
    BY <1>2, <2>3
  <2> QED
    BY <2>1, <2>2, <2>4
<1>6. CASE k < l
  <2> DEFINE a == box[k]
             h == H[k - 1]
  <2>1. rest[k] = a /\ G[k] = After(H[k], m) /\ G[k - 1] = After(h, m) /\ H[k] = After(h, a) /\ Sound(a, h)
    BY <1>1, <1>2, <1>3, <1>4, <1>6
  <2>2. a \in Messages /\ AboutFits(a) /\ m \in Messages /\ AboutFits(m) /\ h \in Guilds
    BY <1>1, <1>2, <1>4 DEF m
  <2>3. a.about \cap m.about = {}
    BY <1>1, <1>3, <1>4, <1>6
  <2>4. Homes(H, box, ids)
    BY StoryHomes DEF Taken
  <2>5. Reaches(m, h, H[k])
    <3>1. m.type = "OVERWRITE" =>
             \A i \in 0..Len(box) : m.id \in ChannelsOf(H[i]) =>
                LET home == H[i].channels[m.id].parent IN
                home \in m.about \cup {NoParent} \/ \A j \in 0..Len(box) : home \notin ChannelsOf(H[j])
      BY <1>1, <2>4 DEF Homes, m
    <3>2. k \in 0..Len(box) /\ k - 1 \in 0..Len(box)
      BY <1>1, <1>4
    <3> QED
      BY <3>1, <3>2 DEF Reaches
  <2>6. Reaches(a, h, G[k - 1])
    <3>1. a.type = "OVERWRITE" =>
             \A i \in 0..Len(box) : a.id \in ChannelsOf(H[i]) =>
                LET home == H[i].channels[a.id].parent IN
                home \in a.about \cup {NoParent} \/ \A j \in 0..Len(box) : home \notin ChannelsOf(H[j])
      <4>1. k \in 1..Len(box)
        BY <1>1, <1>4
      <4> QED
        BY <2>4, <4>1 DEF Homes
    <3>2. k - 1 \in 0..Len(box)
      BY <1>1, <1>4
    <3>3. ASSUME NEW x, \A j \in 0..Len(box) : x \notin ChannelsOf(H[j]) PROVE x \notin ChannelsOf(G[k - 1])
      <4>1. k - 1 \in 0..Len(rest)
        BY <1>1, <1>4
      <4>2. /\ \A y : Later(l, m.about, y, k - 1) \in 0..Len(box)
            /\ \A c \in Channels : G[k - 1].channels[c] = H[Later(l, m.about, c, k - 1)].channels[c]
        BY <4>1, TakenRows DEF m
      <4> QED
        BY <3>3, <4>2 DEF ChannelsOf
    <3> QED
      BY <3>1, <3>2, <3>3 DEF Reaches
  <2>7. After(After(h, a), m) = After(After(h, m), a)
    <3>1. Reaches(a, h, After(h, m)) /\ Reaches(m, h, After(h, a))
      BY <2>1, <2>5, <2>6
    <3> HIDE DEF a, h
    <3> QED
      BY <2>2, <2>3, <3>1, Commute
  <2>8. Sound(a, After(h, m))
    <3>1. /\ \A d \in Channels : d \in a.about => After(h, m).channels[d] = h.channels[d]
          /\ \A r \in Roles : r \in a.about => After(h, m).roles[r] = h.roles[r]
      BY <2>2, <2>3, Untold, AfterFields
    <3> HIDE DEF a, h
    <3> QED
      BY <2>1, <2>2, <3>1, SoundFor
  <2> QED
    BY <2>1, <2>7, <2>8
<1> QED
  BY <1>1, <1>4, <1>5, <1>6

LEMMA TakenFounded ==
    ASSUME NEW H, NEW box, NEW l, NEW rest, NEW G, NEW ids, Taken(H, box, l, rest, G, ids),
           NEW k \in 0..Len(rest)
    PROVE  Founded(G[k], ids)
<1> DEFINE m == box[l]
<1>1. PICK n \in Nat : n = Len(rest) /\ Len(box) = n + 1 /\ l \in 1..(n + 1)
  BY DEF Taken
<1>2. /\ \A j \in 0..n : G[j] = IF j < l THEN After(H[j], m) ELSE H[j + 1]
      /\ \A j \in 0..(n + 1) : Founded(H[j], ids)
      /\ H[l] = After(H[l - 1], m)
      /\ k \in 0..n
  <2>1. /\ \A j \in 0..Len(rest) : G[j] = IF j < l THEN After(H[j], m) ELSE H[j + 1]
        /\ \A j \in 0..Len(box) : Founded(H[j], ids)
        /\ \A j \in 1..Len(box) : H[j] = After(H[j - 1], box[j])
    BY TakenBasics
  <2> QED
    BY <1>1, <2>1
<1>3. \A c \in ChannelsOf(G[k]) : /\ G[k].channels[c].parent \in ids \cup {NoParent}
                                  /\ c \in Categories => ~G[k].channels[c].isSynced
  <2> TAKE c \in ChannelsOf(G[k])
  <2>0. c \in Channels /\ G[k].channels[c] # NoRow
    BY DEF ChannelsOf
  <2>1. PICK j \in 0..Len(box) : G[k].channels[c] = H[j].channels[c]
    <3>1. Later(l, m.about, c, k) \in 0..Len(box)
      BY TakenRows
    <3>2. \A d \in Channels : G[k].channels[d] = H[Later(l, m.about, d, k)].channels[d]
      BY TakenRows
    <3> QED
      BY <2>0, <3>1, <3>2
  <2>2. c \in ChannelsOf(H[j])
    BY <2>0, <2>1 DEF ChannelsOf
  <2> QED
    BY <1>1, <1>2, <2>1, <2>2 DEF Founded
<1>4. ASSUME NEW v \in Users PROVE G[k].memberRoles[v] \subseteq ids
  <2>1. CASE k >= l
    <3>1. k + 1 \in 0..(n + 1) /\ G[k] = H[k + 1]
      BY <1>1, <1>2, <2>1
    <3> QED
      BY <1>2, <3>1 DEF Founded
  <2>2. CASE k < l
    <3>1. /\ G[k].memberRoles[v] = HeldAfter(m, v, H[k].memberRoles[v])
          /\ H[l].memberRoles[v] = HeldAfter(m, v, H[l - 1].memberRoles[v])
      BY <1>1, <1>2, <2>2, AfterFields
    <3>2. H[k].memberRoles[v] \subseteq ids /\ H[l].memberRoles[v] \subseteq ids
      <4>1. k \in 0..(n + 1) /\ l \in 0..(n + 1)
        BY <1>1, <1>2
      <4> QED
        BY <1>2, <4>1 DEF Founded
    <3> HIDE DEF m
    <3> QED
      BY <3>1, <3>2 DEF HeldAfter
  <2> QED
    BY <1>1, <2>1, <2>2
<1> QED
  BY <1>3, <1>4 DEF Founded

\* A category that a copy does not have is never to come, nor a role that a member holds.
NewsOnly(H, n) ==
    /\ \A c \in ChannelsOf(H[0]) : \A k \in 0..n :
         H[0].channels[c].parent \in ChannelsOf(H[k]) => H[0].channels[c].parent \in ChannelsOf(H[0])
    /\ \A v \in Users : \A r \in H[0].memberRoles[v] : \A k \in 0..n :
         r \in RolesOf(H[k]) => r \in RolesOf(H[0])

LEMMA StoryNewsOnly ==
    ASSUME NEW H, NEW box, NEW ids, Story(H, box, ids)
    PROVE  NewsOnly(H, Len(box))
BY DEF Story, NewsOnly

LEMMA StoryLasting ==
    ASSUME NEW H, NEW box, NEW ids, Story(H, box, ids), Len(box) \in Nat,
           NEW i \in 0..Len(box), NEW j \in 0..Len(box), NEW k \in 0..Len(box), i <= j, j <= k
    PROVE  /\ \A c \in ChannelsOf(H[i]) : c \in ChannelsOf(H[k]) => c \in ChannelsOf(H[j])
           /\ \A r \in RolesOf(H[i]) : r \in RolesOf(H[k]) => r \in RolesOf(H[j])
<1>1. /\ Steady(ChannelsIn(H, Len(box)), Channels, box, ids)
      /\ Steady(RolesIn(H, Len(box)), Roles, box, ids)
  BY DEF Story
<1>2. \A q \in 0..Len(box) : /\ ChannelsIn(H, Len(box))[q] = H[q].channels
                             /\ RolesIn(H, Len(box))[q] = H[q].roles
  BY DEF ChannelsIn, RolesIn
<1>3. \A c \in Channels : H[i].channels[c] # NoRow /\ H[k].channels[c] # NoRow => H[j].channels[c] # NoRow
  BY <1>1, <1>2 DEF Steady
<1>4. \A r \in Roles : H[i].roles[r] # NoRow /\ H[k].roles[r] # NoRow => H[j].roles[r] # NoRow
  BY <1>1, <1>2 DEF Steady
<1> QED
  BY <1>3, <1>4 DEF ChannelsOf, RolesOf

\* The first facts after a message that came too early.
LEMMA TakenFirst ==
    ASSUME NEW H, NEW box, NEW l, NEW rest, NEW G, NEW ids, Taken(H, box, l, rest, G, ids)
    PROVE  /\ Sound(box[l], H[0]) /\ Fresh(box[l], H[0]) /\ Flat(H[0])
           /\ \A c \in Channels : c \in box[l].about => (c \in ChannelsOf(H[0]) <=> c \in ChannelsOf(H[l - 1]))
           /\ \A r \in Roles : r \in box[l].about => (r \in RolesOf(H[0]) <=> r \in RolesOf(H[l - 1]))
<1> DEFINE m == box[l]
<1>1. PICK n \in Nat : n = Len(rest) /\ Len(box) = n + 1 /\ l \in 1..(n + 1)
  BY DEF Taken
<1>2. /\ m \in Messages /\ AboutFits(m) /\ H[0] \in Guilds /\ H[l - 1] \in Guilds
      /\ H[l] = After(H[l - 1], m) /\ Sound(m, H[l - 1]) /\ Founded(H[0], ids)
  <2>1. /\ \A j \in 1..Len(box) : box[j] \in Messages /\ AboutFits(box[j])
        /\ \A j \in 0..Len(box) : H[j] \in Guilds
        /\ \A j \in 1..Len(box) : H[j] = After(H[j - 1], box[j]) /\ Sound(box[j], H[j - 1])
        /\ \A j \in 0..Len(box) : Founded(H[j], ids)
    BY TakenBasics
  <2>2. l - 1 \in 0..Len(box) /\ 0 \in 0..Len(box) /\ l \in 1..Len(box)
    BY <1>1
  <2> QED
    BY <2>1, <2>2
<1>3. /\ \A c \in Channels : c \in m.about => H[0].channels[c] = H[l - 1].channels[c]
      /\ \A r \in Roles : r \in m.about => H[0].roles[r] = H[l - 1].roles[r]
  <2>1. 0 \in 0..(l - 1)
    BY <1>1
  <2> QED
    BY <2>1, TakenSame
<1>4. Sound(m, H[0])
  BY <1>2, <1>3, SoundFor
<1>5. Flat(H[0])
  BY <1>2 DEF Founded, Flat, ChannelsOf
<1>6. NewsOnly(H, Len(box)) /\ l \in 0..Len(box)
  BY <1>1, StoryNewsOnly DEF Taken
<1>7. Fits(m)
  BY <1>2 DEF Messages
<1> HIDE DEF m
<1>8. Fresh(m, H[0])
  <2>1. ASSUME m.type = "CHANNEL_UPDATE", m.id \notin ChannelsOf(H[0]), NEW c \in ChannelsOf(H[0])
        PROVE  H[0].channels[c].parent # m.id
    <3>1. m.id \in Channels
      BY <1>7, <2>1 DEF Fits, FitsAs
    <3>2. m.id \in ChannelsOf(H[l])
      BY <1>2, <2>1, <3>1, AfterThere
    <3> QED
      BY <1>6, <2>1, <3>2 DEF NewsOnly
  <2>2. ASSUME m.type \in {"ROLE_UPDATE", "ROLE_CREATED"}, m.id \notin RolesOf(H[0]), NEW v \in Users
        PROVE  m.id \notin H[0].memberRoles[v]
    <3>1. m.id \in Roles
      BY <1>7, <2>2 DEF Fits, FitsAs
    <3>2. m.id \in RolesOf(H[l])
      BY <1>2, <2>2, <3>1, AfterThere
    <3> QED
      BY <1>6, <2>2, <3>2 DEF NewsOnly
  <2> QED
    BY <2>1, <2>2 DEF Fresh
<1> QED
  BY <1>3, <1>4, <1>5, <1>8 DEF ChannelsOf, RolesOf, m

LEMMA TakenNewsOnly ==
    ASSUME NEW H, NEW box, NEW l, NEW rest, NEW G, NEW ids, Taken(H, box, l, rest, G, ids)
    PROVE  NewsOnly(G, Len(rest))
<1> DEFINE m == box[l]
<1>1. PICK n \in Nat : n = Len(rest) /\ Len(box) = n + 1 /\ l \in 1..(n + 1)
  BY DEF Taken
<1>2. /\ m \in Messages /\ AboutFits(m) /\ H[0] \in Guilds /\ H[l - 1] \in Guilds
      /\ H[l] = After(H[l - 1], m) /\ G[0] = After(H[0], m) /\ Sound(m, H[l - 1])
  <2>1. /\ \A j \in 1..Len(box) : box[j] \in Messages /\ AboutFits(box[j])
        /\ \A j \in 0..Len(box) : H[j] \in Guilds
        /\ \A j \in 1..Len(box) : H[j] = After(H[j - 1], box[j]) /\ Sound(box[j], H[j - 1])
        /\ G[0] = After(H[0], box[l])
    BY TakenBasics
  <2>2. l - 1 \in 0..Len(box) /\ 0 \in 0..Len(box) /\ l \in 1..Len(box)
    BY <1>1
  <2> QED
    BY <2>1, <2>2
<1>3. /\ Sound(m, H[0])
      /\ \A c \in Channels : c \in m.about => (c \in ChannelsOf(H[0]) <=> c \in ChannelsOf(H[l - 1]))
      /\ \A r \in Roles : r \in m.about => (r \in RolesOf(H[0]) <=> r \in RolesOf(H[l - 1]))
  BY TakenFirst
<1>4. NewsOnly(H, n + 1) /\ Story(H, box, ids)
  BY <1>1, StoryNewsOnly DEF Taken
<1> DEFINE at(x, k) == Later(l, m.about, x, k)
<1>5. /\ \A k \in 0..n : \A x : at(x, k) \in 0..(n + 1)
      /\ \A k \in 0..n : \A x : x \in m.about => at(x, k) >= l
      /\ \A k \in 0..n : \A c \in Channels : G[k].channels[c] = H[at(c, k)].channels[c]
      /\ \A k \in 0..n : \A r \in Roles : G[k].roles[r] = H[at(r, k)].roles[r]
  <2>1. \A k \in 0..Len(rest) : \A x : at(x, k) \in 0..Len(box)
    BY TakenRows
  <2>2. \A k \in 0..Len(rest) : \A c \in Channels : G[k].channels[c] = H[at(c, k)].channels[c]
    BY TakenRows
  <2>3. \A k \in 0..Len(rest) : \A r \in Roles : G[k].roles[r] = H[at(r, k)].roles[r]
    BY TakenRows
  <2>4. \A k \in 0..n : \A x : x \in m.about => at(x, k) >= l
    BY <1>1 DEF Later
  <2> QED
    BY <1>1, <2>1, <2>2, <2>3, <2>4
<1> HIDE DEF m, at
\* A row that was there and will be was not deleted.
<1>6. ASSUME NEW x \in ChannelsOf(H[0]), NEW k \in 0..n, x \in ChannelsOf(G[k])
      PROVE  x \in ChannelsOf(G[0])
  <2>1. x \in Channels /\ x \in ChannelsOf(H[at(x, k)])
    BY <1>5, <1>6 DEF ChannelsOf
  <2>2. ASSUME m.type = "CHANNEL_DELETE", m.id = x PROVE FALSE
    <3>1. x \in m.about
      BY <1>2, <2>2 DEF AboutFits
    <3>2. at(x, k) \in 0..(n + 1) /\ l <= at(x, k) /\ 0 <= l
      BY <1>1, <1>5, <3>1
    <3>3. x \in ChannelsOf(H[l])
      BY <1>1, <1>4, <1>6, <2>1, <3>2, StoryLasting
    <3> QED
      BY <1>2, <2>1, <2>2, <3>3, AfterThere
  <2> QED
    BY <1>2, <1>6, <2>1, <2>2, AfterThere
<1>7. ASSUME NEW r \in RolesOf(H[0]), NEW k \in 0..n, r \in RolesOf(G[k])
      PROVE  r \in RolesOf(G[0])
  <2>1. r \in Roles /\ r \in RolesOf(H[at(r, k)])
    BY <1>5, <1>7 DEF RolesOf
  <2>2. ASSUME m.type = "ROLE_DELETE", m.id = r PROVE FALSE
    <3>1. r \in m.about
      BY <1>2, <2>2 DEF AboutFits
    <3>2. at(r, k) \in 0..(n + 1) /\ l <= at(r, k) /\ 0 <= l
      BY <1>1, <1>5, <3>1
    <3>3. r \in RolesOf(H[l])
      BY <1>1, <1>4, <1>7, <2>1, <3>2, StoryLasting
    <3> QED
      BY <1>2, <2>1, <2>2, <3>3, AfterThere
  <2> QED
    BY <1>2, <1>7, <2>1, <2>2, AfterThere
<1>8. ASSUME NEW c \in ChannelsOf(G[0]), NEW k \in 0..n, G[0].channels[c].parent \in ChannelsOf(G[k])
      PROVE  G[0].channels[c].parent \in ChannelsOf(G[0])
  <2> DEFINE p == G[0].channels[c].parent
  <2>1. \/ /\ m.type = "CHANNEL_UPDATE" /\ m.id = c
           /\ "parent" \in DOMAIN m.data => p = m.data.parent
           /\ "parent" \notin DOMAIN m.data /\ c \in ChannelsOf(H[0]) => p = H[0].channels[c].parent
        \/ c \in ChannelsOf(H[0]) /\ p = H[0].channels[c].parent
    BY <1>2, AfterRow
  <2>2. p \in Channels /\ c \in Channels /\ p # NoParent
    BY <1>8, EditorsAssumption DEF ChannelsOf
  <2> HIDE DEF p
  <2>3. CASE c \in ChannelsOf(H[0]) /\ p = H[0].channels[c].parent
    <3>1. p \in ChannelsOf(H[at(p, k)]) /\ at(p, k) \in 0..(n + 1)
      BY <1>5, <1>8, <2>2 DEF ChannelsOf, p
    <3>2. p \in ChannelsOf(H[0])
      BY <1>4, <2>3, <3>1 DEF NewsOnly
    <3> QED
      BY <1>6, <1>8, <3>2 DEF p
  <2>4. CASE ~(c \in ChannelsOf(H[0]) /\ p = H[0].channels[c].parent)
    <3>1. /\ m.type = "CHANNEL_UPDATE" /\ m.id = c
          /\ "parent" \in DOMAIN m.data => p = m.data.parent
          /\ "parent" \notin DOMAIN m.data /\ c \in ChannelsOf(H[0]) => p = H[0].channels[c].parent
      BY <2>1, <2>4
    <3>2. c \notin ChannelsOf(H[0]) /\ m.data.parent \in ChannelsOf(H[0]) \cup {NoParent}
      BY <1>3, <2>4, <3>1 DEF Sound
    <3>3. "parent" \in DOMAIN m.data
      BY <1>3, <3>1, <3>2 DEF Sound
    <3>4. p \in ChannelsOf(H[0])
      BY <2>2, <3>1, <3>2, <3>3
    <3> QED
      BY <1>2, <2>2, <3>1, <3>4, AfterThere DEF p
  <2> QED
    BY <2>3, <2>4
<1>9. ASSUME NEW v \in Users, NEW r \in G[0].memberRoles[v], NEW k \in 0..n, r \in RolesOf(G[k])
      PROVE  r \in RolesOf(G[0])
  <2>1. G[0].memberRoles[v] = HeldAfter(m, v, H[0].memberRoles[v])
    BY <1>2, AfterFields
  <2>2. r \in RolesOf(H[at(r, k)]) /\ at(r, k) \in 0..(n + 1)
    BY <1>5, <1>9 DEF RolesOf
  <2>3. r \in H[0].memberRoles[v] => r \in RolesOf(H[0])
    BY <1>4, <2>2 DEF NewsOnly
  <2>4. r \notin H[0].memberRoles[v] => m.type = "MEMBERS_UPDATE" /\ v \in DOMAIN m.data /\ r \in m.data[v]
    BY <1>9, <2>1 DEF HeldAfter
  <2>5. r \in RolesOf(H[0])
    BY <1>3, <2>3, <2>4 DEF Sound
  <2> QED
    BY <1>7, <1>9, <2>5
<1> QED
  BY <1>1, <1>8, <1>9 DEF NewsOnly

LEMMA TakeStory ==
    ASSUME NEW H, NEW box, NEW l, NEW rest, NEW G, NEW ids, Taken(H, box, l, rest, G, ids)
    PROVE  G \in [0..Len(rest) -> Guilds] /\ Story(G, rest, ids)
<1>1. Len(rest) \in Nat /\ Len(box) = Len(rest) + 1 /\ l \in 1..Len(box)
  BY DEF Taken
<1> DEFINE at(x, k) == Later(l, box[l].about, x, k)
<1>2. \A k \in 0..Len(rest) : \A x : at(x, k) \in 0..Len(box)
  BY TakenRows
<1>3. \A k \in 0..Len(rest) : \A c \in Channels : G[k].channels[c] = H[at(c, k)].channels[c]
  BY TakenRows
<1>4. \A k \in 0..Len(rest) : \A r \in Roles : G[k].roles[r] = H[at(r, k)].roles[r]
  BY TakenRows
<1>5. \A k \in 0..Len(rest) : G[k] \in Guilds
  BY TakenRows
<1>6. G \in [0..Len(rest) -> Guilds]
  BY <1>5 DEF Taken
<1>7. \A k \in 1..Len(rest) : rest[k] = IF k < l THEN box[k] ELSE box[k + 1]
  BY DEF Taken
<1>8. Steady(ChannelsIn(G, Len(rest)), Channels, rest, ids)
  <2>1. Steady(ChannelsIn(H, Len(box)), Channels, box, ids)
    BY DEF Taken, Story
  <2>2. \A x \in Channels : \A k \in 0..Len(rest) :
           ChannelsIn(G, Len(rest))[k][x] = ChannelsIn(H, Len(box))[at(x, k)][x]
    <3> HIDE DEF at
    <3> QED
      BY <1>2, <1>3 DEF ChannelsIn
  <2>3. Shifted(ChannelsIn(G, Len(rest)), rest, ChannelsIn(H, Len(box)), box, l, Channels)
    BY <1>1, <1>7, <2>2 DEF Shifted
  <2> QED
    BY <2>1, <2>3, SteadyTake
<1>9. Steady(RolesIn(G, Len(rest)), Roles, rest, ids)
  <2>1. Steady(RolesIn(H, Len(box)), Roles, box, ids)
    BY DEF Taken, Story
  <2>2. \A x \in Roles : \A k \in 0..Len(rest) :
           RolesIn(G, Len(rest))[k][x] = RolesIn(H, Len(box))[at(x, k)][x]
    <3> HIDE DEF at
    <3> QED
      BY <1>2, <1>4 DEF RolesIn
  <2>3. Shifted(RolesIn(G, Len(rest)), rest, RolesIn(H, Len(box)), box, l, Roles)
    BY <1>1, <1>7, <2>2 DEF Shifted
  <2> QED
    BY <2>1, <2>3, SteadyTake
<1>10. \A c \in Channels : \A i, k \in 0..Len(rest) : c \in ChannelsOf(G[i]) /\ c \in ChannelsOf(G[k]) =>
         G[i].channels[c].parent = G[k].channels[c].parent
  <2>1. \A c \in Channels : \A i, k \in 0..Len(box) : c \in ChannelsOf(H[i]) /\ c \in ChannelsOf(H[k]) =>
         H[i].channels[c].parent = H[k].channels[c].parent
    BY DEF Taken, Story
  <2> HIDE DEF at
  <2> TAKE c \in Channels
  <2> TAKE i, k \in 0..Len(rest)
  <2>2. /\ at(c, i) \in 0..Len(box) /\ at(c, k) \in 0..Len(box)
        /\ G[i].channels[c] = H[at(c, i)].channels[c] /\ G[k].channels[c] = H[at(c, k)].channels[c]
    BY <1>2, <1>3
  <2>3. /\ c \in ChannelsOf(G[i]) => c \in ChannelsOf(H[at(c, i)])
        /\ c \in ChannelsOf(G[k]) => c \in ChannelsOf(H[at(c, k)])
    BY <2>2 DEF ChannelsOf
  <2> QED
    BY <2>1, <2>2, <2>3
<1>11. Homes(G, rest, ids) /\ NewsOnly(G, Len(rest))
  BY TakenHomes, TakenNewsOnly
<1>12. \A k \in 1..Len(rest) : G[k] = After(G[k - 1], rest[k]) /\ Sound(rest[k], G[k - 1])
  BY TakenChain
<1>13. \A k \in 0..Len(rest) : Founded(G[k], ids)
  BY TakenFounded
<1> HIDE DEF at
<1>14. Story(G, rest, ids)
  BY <1>8, <1>9, <1>10, <1>11, <1>12, <1>13 DEF Story, Homes, NewsOnly
<1> QED
  BY <1>6, <1>14

LEMMA ChangeKeepsPresent ==
    ASSUME NEW g \in Guilds, NEW m \in Messages, m.type \notin {"GUILD_UPDATE", "LEFT"}
    PROVE  Change(g, m).present = g.present
<1>1. Fits(m)
  BY DEF Messages
<1>2. CASE m.type \in {"CHANNEL_UPDATE", "RENAMED", "CHANNEL_DELETE"}
  BY <1>2 DEF Change, UpsertChannel, WithoutChannel, Guilds
<1>3. CASE m.type \in {"OVERWRITE", "OVERWRITE_DELETE"}
  BY <1>3 DEF Change, MergeOverwrite, DropOverwrite, Guilds
<1>4. CASE m.type \in {"MEMBERS_UPDATE", "MEMBER_LEAVE", "ROLE_UPDATE", "ROLE_CREATED", "ROLE_DELETE"}
  BY <1>4 DEF Change, UpsertMembers, RemoveMember, UpsertRole, RemoveRole, Guilds
<1> QED
  BY <1>1, <1>2, <1>3, <1>4 DEF Fits, FitsAs

\* The row the Overview page writes back is the latest, renamed.
UpToDate(g, m) == m.type = "RENAMED" => \E n \in Names : g.channels[m.id] = [m.data EXCEPT !.name = n]

LEMMA LatestRenamed ==
    ASSUME NEW g \in Guilds, NEW m \in Messages, m.type = "RENAMED", UpToDate(g, m)
    PROVE  /\ m.id \in ChannelsOf(g)
           /\ Change(g, m) = [g EXCEPT !.channels =
                [g.channels EXCEPT ![m.id] = [g.channels[m.id] EXCEPT !.name = m.data.name]]]
<1>1. m.id \in Channels /\ m.data \in ChannelRow
  BY DEF Messages, Fits, FitsAs
<1>2. PICK n \in Names : g.channels[m.id] = [m.data EXCEPT !.name = n]
  BY DEF UpToDate
<1>3. PICK row \in ChannelRow : row = g.channels[m.id]
  BY <1>1, <1>2 DEF ChannelRow
<1>4. row # NoRow
  BY RowAssumption
<1>5. Merge(row, m.data) = [row EXCEPT !.name = m.data.name]
  <2>1. row = [m.data EXCEPT !.name = n]
    BY <1>2, <1>3
  <2>2. PICK x, y : x = Merge(row, m.data) /\ y = [row EXCEPT !.name = m.data.name]
    OBVIOUS
  <2>3. x \in ChannelRow /\ y \in ChannelRow
    <3>1. m.data \in ChannelData
      BY <1>1, PartsOfRow
    <3>2. x \in ChannelRow
      BY <2>2, <3>1, MergeType
    <3> QED
      BY <1>1, <2>2, <3>2 DEF ChannelRow
  <2>4. /\ x.name = m.data.name /\ x.parent = m.data.parent /\ x.isSynced = m.data.isSynced
        /\ x.ownerId = m.data.ownerId /\ x.overwrites = m.data.overwrites
    BY <1>1, <2>2 DEF Merge, ChannelRow
  <2>5. /\ y.name = m.data.name /\ y.parent = m.data.parent /\ y.isSynced = m.data.isSynced
        /\ y.ownerId = m.data.ownerId /\ y.overwrites = m.data.overwrites
    BY <1>1, <2>1, <2>2 DEF ChannelRow
  <2> QED
    BY <2>2, <2>3, <2>4, <2>5 DEF ChannelRow
<1>6. Change(g, m) = UpsertChannel(g, m.id, m.data)
  BY DEF Change
<1>7. UpsertChannel(g, m.id, m.data) = [g EXCEPT !.channels = [g.channels EXCEPT ![m.id] = Merge(row, m.data)]]
  BY <1>1, <1>3, <1>4 DEF UpsertChannel, Guilds
<1> QED
  BY <1>1, <1>3, <1>4, <1>5, <1>6, <1>7 DEF ChannelsOf

\* A copy that shows the first facts shows the next ones when it has taken the message.
LEMMA AppliedReads ==
    ASSUME NEW g \in Guilds, NEW h \in Guilds, NEW m \in Messages, Reads(g, h), Sound(m, h), Fresh(m, h),
           Flat(h), HasLists(g), m.type # "LEFT", UpToDate(g, m)
    PROVE  Reads(Applied(g, m), After(h, m)) /\ Applied(g, m).present
<1>1. CASE m.type = "GUILD_UPDATE"
  <2>1. PICK yes : yes = TRUE
    OBVIOUS
  <2>2. Applied(g, m) = [g EXCEPT !.present = yes, !.name = m.data]
    BY <1>1, <2>1, AppliedIs
  <2>3. PICK new : new = [g EXCEPT !.present = yes, !.name = m.data]
    OBVIOUS
  <2>4. /\ new.present = yes /\ new.name = m.data /\ new.members = g.members
        /\ new.memberRoles = g.memberRoles /\ new.roles = g.roles /\ new.channels = g.channels
    BY <2>3 DEF Guilds
  <2>5. Reads(new, After(h, m))
    BY <1>1, <2>4, NameOn
  <2> QED
    BY <2>1, <2>2, <2>3, <2>4, <2>5
<1>2. CASE m.type # "GUILD_UPDATE"
  <2>1. Applied(g, m) = Change(g, m)
    BY <1>2, AppliedIs
  <2>2. Change(g, m).present = g.present
    BY <1>2, ChangeKeepsPresent
  <2>3. CASE m.type = "RENAMED"
    <3>1. PICK new : new = [g EXCEPT !.channels =
                [g.channels EXCEPT ![m.id] = [g.channels[m.id] EXCEPT !.name = m.data.name]]]
      OBVIOUS
    <3>2. m.id \in ChannelsOf(g) /\ Change(g, m) = new
      BY <2>3, <3>1, LatestRenamed
    <3>3. Reads(new, After(h, m))
      BY <2>3, <3>1, <3>2, RenameOn
    <3> QED
      BY <2>1, <2>2, <3>2, <3>3 DEF HasLists
  <2>4. CASE m.type # "RENAMED"
    <3>1. Reads(Change(g, m), After(h, m))
      BY <1>2, <2>4, ReadOn
    <3> QED
      BY <2>1, <2>2, <3>1 DEF HasLists
  <2> QED
    BY <2>3, <2>4
<1> QED
  BY <1>1, <1>2

LEMMA TakeSettled ==
    ASSUME NEW u \in Users, NEW g \in Guilds, NEW box \in Seq(Messages), NEW srv, NEW ids,
           Settled(u, g, box, srv, ids), NEW l \in 1..Len(box),
           \A k \in DOMAIN box : AboutFits(box[k]),
           \A j \in 1..(l - 1) : box[j].about \cap box[l].about = {},
           UpToDate(g, box[l])
    PROVE  Settled(u, Applied(g, box[l]), RemoveAt(box, l), srv, ids)
<1> DEFINE m == box[l]
<1>1. PICK rest : rest = RemoveAt(box, l)
  OBVIOUS
<1>2. /\ rest \in Seq(Messages) /\ Len(rest) \in Nat /\ Len(box) = Len(rest) + 1
      /\ \A k \in 1..Len(rest) : rest[k] = IF k < l THEN box[k] ELSE box[k + 1]
  BY <1>1, RemoveAtItems
<1>3. PICK H \in [0..Len(box) -> Guilds] :
          Reads(g, H[0]) /\ Reads(srv, H[Len(box)]) /\ Story(H, box, ids)
  BY DEF Settled
<1>4. Stays(u, g, box) /\ DOMAIN box = 1..Len(box) /\ \A k \in 1..Len(box) : box[k] \in Messages
  BY LenProperties, ElementOfSeq DEF Settled
<1>5. PICK G : G = [k \in 0..Len(rest) |-> IF k < l THEN After(H[k], box[l]) ELSE H[k + 1]]
  OBVIOUS
<1>6. Taken(H, box, l, rest, G, ids)
  BY <1>2, <1>3, <1>4, <1>5 DEF Taken
<1>7. G \in [0..Len(rest) -> Guilds] /\ Story(G, rest, ids)
  BY <1>6, TakeStory
<1>8. G[0] = After(H[0], m) /\ G[Len(rest)] = H[Len(box)]
  BY <1>6, TakenBasics
<1>9. Sound(m, H[0]) /\ Fresh(m, H[0]) /\ Flat(H[0])
  BY <1>6, TakenFirst
<1>10. m \in Messages /\ m.type # "LEFT" /\ (m.type = "MEMBER_LEAVE" => m.id # u) /\ HasLists(g)
       /\ H[0] \in Guilds
  BY <1>2, <1>4 DEF Stays, HasLists
<1> HIDE DEF m
<1>11. Reads(Applied(g, m), G[0]) /\ Applied(g, m).present
  <2>1. UpToDate(g, m)
    BY DEF m
  <2> QED
    BY <1>3, <1>8, <1>9, <1>10, <2>1, AppliedReads
<1>12. u \in Applied(g, m).members
  <2>1. Applied(g, m).members = MembersAfter(m, H[0].members) /\ u \in H[0].members
    <3>1. G[0].members = MembersAfter(m, H[0].members)
      BY <1>8, AfterFields
    <3> QED
      BY <1>3, <1>4, <1>11, <3>1 DEF Reads, Stays
  <2> QED
    BY <1>10, <2>1 DEF MembersAfter
<1>13. DOMAIN rest = 1..Len(rest)
  BY <1>2, LenProperties
<1>14. \A k \in DOMAIN rest : rest[k].type # "LEFT" /\ (rest[k].type = "MEMBER_LEAVE" => rest[k].id # u)
  <2> TAKE k \in DOMAIN rest
  <2>1. PICK q \in DOMAIN box : rest[k] = box[q]
    <3>1. k \in DOMAIN box /\ k + 1 \in DOMAIN box
      BY <1>2, <1>4, <1>13
    <3> QED
      BY <1>2, <1>13, <3>1
  <2> QED
    BY <1>4, <2>1 DEF Stays
<1>15. Stays(u, Applied(g, m), rest)
  BY <1>11, <1>12, <1>14 DEF Stays
<1>16. Reads(srv, G[Len(rest)])
  BY <1>3, <1>8
<1>17. Settled(u, Applied(g, m), rest, srv, ids)
  BY <1>7, <1>11, <1>15, <1>16 DEF Settled
<1> QED
  BY <1>1, <1>17 DEF m

\* A client without the guild stays without it until the answer that it left, and after it.
LEMMA TakeGone ==
    ASSUME NEW g \in Guilds, NEW box \in Seq(Messages), Gone(g, box), NEW l \in 1..Len(box),
           \A k \in DOMAIN box : AboutFits(box[k]),
           \A j \in 1..(l - 1) : box[j].about \cap box[l].about = {}
    PROVE  Gone(Applied(g, box[l]), RemoveAt(box, l))
<1> DEFINE m == box[l]
<1>1. PICK rest : rest = RemoveAt(box, l)
  OBVIOUS
<1>2. /\ rest \in Seq(Messages) /\ Len(rest) \in Nat /\ Len(box) = Len(rest) + 1
      /\ \A k \in 1..Len(rest) : rest[k] = IF k < l THEN box[k] ELSE box[k + 1]
  BY <1>1, RemoveAtItems
<1>3. DOMAIN box = 1..Len(box) /\ DOMAIN rest = 1..Len(rest) /\ m \in Messages
  BY <1>2, LenProperties, ElementOfSeq
<1> HIDE DEF m
<1>4. ASSUME NEW k \in DOMAIN rest PROVE \E q \in DOMAIN box : rest[k] = box[q] /\ q >= k
  <2>1. k \in DOMAIN box /\ k + 1 \in DOMAIN box
    BY <1>2, <1>3
  <2> QED
    BY <1>2, <1>3, <2>1
<1>5. CASE ~g.present /\ \A k \in DOMAIN box : box[k].type # "GUILD_UPDATE"
  <2>1. m.type # "GUILD_UPDATE" /\ ~HasLists(g)
    BY <1>3, <1>5 DEF m, HasLists
  <2>2. Applied(g, m) = g \/ (m.type = "LEFT" /\ Applied(g, m) = NoGuild(g))
    BY <1>3, <2>1, AppliedIs
  <2>3. ~Applied(g, m).present
    <3>1. ~NoGuild(g).present
      BY DEF NoGuild, Guilds
    <3> QED
      BY <1>5, <2>2, <3>1
  <2>4. \A k \in DOMAIN rest : rest[k].type # "GUILD_UPDATE"
    BY <1>5, <1>4
  <2> QED
    BY <1>1, <2>3, <2>4 DEF Gone, m
<1>6. CASE ~(~g.present /\ \A k \in DOMAIN box : box[k].type # "GUILD_UPDATE")
  <2>1. PICK i \in DOMAIN box : box[i].type = "LEFT" /\ \A k \in DOMAIN box : k > i => box[k].type # "GUILD_UPDATE"
    BY <1>6 DEF Gone
  <2>2. CASE l = i
    <3>1. Applied(g, m) = NoGuild(g)
      BY <1>3, <2>1, <2>2, AppliedIs DEF m
    <3>2. ~NoGuild(g).present
      BY DEF NoGuild, Guilds
    <3>3. ASSUME NEW k \in DOMAIN rest PROVE rest[k].type # "GUILD_UPDATE"
      <4>1. CASE k < l
        <5>1. rest[k] = box[k] /\ k \in 1..(l - 1) /\ k \in DOMAIN box
          BY <1>2, <1>3, <4>1
        <5>2. box[k].type = "GUILD_UPDATE" => "guild" \in box[k].about /\ "guild" \in box[l].about
          BY <2>1, <2>2, <5>1 DEF AboutFits
        <5> QED
          BY <5>1, <5>2
      <4>2. CASE k >= l
        BY <1>2, <1>3, <2>1, <2>2, <4>2
      <4> QED
        BY <1>2, <1>3, <4>1, <4>2
    <3> QED
      BY <1>1, <3>1, <3>2, <3>3 DEF Gone, m
  <2>3. CASE l # i
    <3>1. PICK j \in DOMAIN rest : rest[j].type = "LEFT" /\ \A k \in DOMAIN rest : k > j => rest[k].type # "GUILD_UPDATE"
      <4>1. CASE i < l
        <5>1. i \in DOMAIN rest /\ rest[i] = box[i]
          BY <1>2, <1>3, <4>1
        <5>2. \A k \in DOMAIN rest : k > i => rest[k].type # "GUILD_UPDATE"
          <6> TAKE k \in DOMAIN rest
          <6>1. PICK q \in DOMAIN box : rest[k] = box[q] /\ q >= k
            BY <1>4
          <6> QED
            BY <1>3, <2>1, <6>1
        <5> QED
          BY <2>1, <5>1, <5>2
      <4>2. CASE i > l
        <5>1. i - 1 \in DOMAIN rest /\ rest[i - 1] = box[i]
          BY <1>2, <1>3, <4>2
        <5>2. \A k \in DOMAIN rest : k > i - 1 => rest[k].type # "GUILD_UPDATE"
          <6> TAKE k \in DOMAIN rest
          <6>1. k > i - 1 => rest[k] = box[k + 1] /\ k + 1 \in DOMAIN box /\ k + 1 > i
            BY <1>2, <1>3, <2>1, <4>2
          <6> QED
            BY <2>1, <6>1
        <5> QED
          BY <2>1, <5>1, <5>2
      <4> QED
        BY <1>3, <2>3, <4>1, <4>2
    <3> QED
      BY <1>1, <3>1 DEF Gone
  <2> QED
    BY <2>2, <2>3
<1> QED
  BY <1>5, <1>6

-----------------------------------------------------------------------------
(* A message is sent *)

\* What the server tells, of a guild it makes of another, is true and takes for granted what is.
Truthful(m, srv, srv2, ids, ids2) ==
    /\ m \in Messages /\ AboutFits(m) /\ Sound(m, srv)
    /\ m.type = "CHANNEL_UPDATE" /\ m.id \notin ChannelsOf(srv) => m.id \notin ids
    /\ m.type \in {"ROLE_UPDATE", "ROLE_CREATED"} /\ m.id \notin RolesOf(srv) => m.id \notin ids
    /\ ids \subseteq ids2 /\ ChannelsOf(srv2) \subseteq ids2 /\ RolesOf(srv2) \subseteq ids2
    /\ Flat(srv2)
    /\ \A h \in Guilds : Reads(srv, h) /\ Founded(h, ids) => Reads(srv2, After(h, m))

\* H goes on with what m tells.
Lengthens(H, box, m, G, box2) ==
    /\ Len(box) \in Nat /\ Len(box2) = Len(box) + 1
    /\ \A k \in 1..Len(box) : box2[k] = box[k]
    /\ box2[Len(box) + 1] = m
    /\ H \in [0..Len(box) -> Guilds]
    /\ G = [k \in 0..Len(box2) |-> IF k <= Len(box) THEN H[k] ELSE After(H[Len(box)], m)]

Telling(H, box, m, G, box2, srv, srv2, ids, ids2) ==
    /\ Lengthens(H, box, m, G, box2) /\ srv \in Guilds /\ srv2 \in Guilds
    /\ Story(H, box, ids) /\ Reads(srv, H[Len(box)]) /\ Truthful(m, srv, srv2, ids, ids2)

\* The last facts.
LEMMA TellingLast ==
    ASSUME NEW H, NEW box, NEW m, NEW G, NEW box2, NEW srv, NEW srv2, NEW ids, NEW ids2,
           Telling(H, box, m, G, box2, srv, srv2, ids, ids2)
    PROVE  LET h == H[Len(box)]
               k == G[Len(box) + 1]
           IN  /\ h \in Guilds /\ k \in Guilds /\ k = After(h, m) /\ Reads(srv, h) /\ Reads(srv2, k)
               /\ Founded(h, ids) /\ Sound(m, h)
               /\ ChannelsOf(h) = ChannelsOf(srv) /\ RolesOf(h) = RolesOf(srv)
               /\ ChannelsOf(k) = ChannelsOf(srv2) /\ RolesOf(k) = RolesOf(srv2)
               /\ ChannelsOf(h) \subseteq ids /\ RolesOf(h) \subseteq ids
<1>1. PICK n \in Nat : n = Len(box) /\ Len(box2) = n + 1
  BY DEF Telling, Lengthens
<1> DEFINE h == H[n]
           k == G[n + 1]
<1>2. h \in Guilds /\ k = After(h, m) /\ n \in 0..n /\ m \in Messages
  <2>1. n + 1 \in 0..Len(box2) /\ ~(n + 1 <= n) /\ n \in 0..n
    BY <1>1
  <2> QED
    BY <1>1, <2>1 DEF Telling, Lengthens, Truthful
<1>3. k \in Guilds
  BY <1>2, AfterType
<1>4. Reads(srv, h) /\ Founded(h, ids) /\ Truthful(m, srv, srv2, ids, ids2) /\ srv \in Guilds /\ srv2 \in Guilds
  BY <1>1, <1>2 DEF Telling, Story
<1>5. Reads(srv2, k)
  BY <1>2, <1>4 DEF Truthful
<1>6. ChannelsOf(h) = ChannelsOf(srv) /\ RolesOf(h) = RolesOf(srv)
  BY <1>2, <1>4, ReadsThere
<1>7. ChannelsOf(k) = ChannelsOf(srv2) /\ RolesOf(k) = RolesOf(srv2)
  BY <1>3, <1>4, <1>5, ReadsThere
<1>8. Sound(m, h)
  <2>1. Sound(m, srv)
    BY <1>4 DEF Truthful
  <2>2. \A c \in ChannelsOf(srv) : h.channels[c].isSynced = srv.channels[c].isSynced
    BY <1>4 DEF Reads, Shows, ChannelsOf
  <2> QED
    BY <1>6, <2>1, <2>2 DEF Sound
<1>9. ChannelsOf(h) \subseteq ids /\ RolesOf(h) \subseteq ids
  <2>1. Steady(ChannelsIn(H, n), Channels, box, ids) /\ Steady(RolesIn(H, n), Roles, box, ids)
    BY <1>1 DEF Telling, Story
  <2>2. ChannelsIn(H, n)[n] = h.channels /\ RolesIn(H, n)[n] = h.roles
    BY <1>2 DEF ChannelsIn, RolesIn
  <2> QED
    BY <1>1, <1>2, <2>1, <2>2 DEF Steady, ChannelsOf, RolesOf
<1> HIDE DEF h, k
<1>10. /\ h \in Guilds /\ k \in Guilds /\ k = After(h, m) /\ Reads(srv, h) /\ Reads(srv2, k)
       /\ Founded(h, ids) /\ Sound(m, h)
       /\ ChannelsOf(h) = ChannelsOf(srv) /\ RolesOf(h) = RolesOf(srv)
       /\ ChannelsOf(k) = ChannelsOf(srv2) /\ RolesOf(k) = RolesOf(srv2)
       /\ ChannelsOf(h) \subseteq ids /\ RolesOf(h) \subseteq ids
  BY <1>2, <1>3, <1>4, <1>5, <1>6, <1>7, <1>8, <1>9
<1> QED
  BY <1>1, <1>10 DEF h, k

\* A row after the message was there before it or is new.
LEMMA TellingNew ==
    ASSUME NEW H, NEW box, NEW m, NEW G, NEW box2, NEW srv, NEW srv2, NEW ids, NEW ids2,
           Telling(H, box, m, G, box2, srv, srv2, ids, ids2)
    PROVE  LET h == H[Len(box)]
               k == G[Len(box) + 1]
           IN  /\ \A c \in ChannelsOf(k) : c \in ids => c \in ChannelsOf(h)
               /\ \A r \in RolesOf(k) : r \in ids => r \in RolesOf(h)
               /\ \A c \in ChannelsOf(k) \cap ChannelsOf(h) : k.channels[c].parent = h.channels[c].parent
               /\ \A x : x \notin m.about => /\ x \in Channels => k.channels[x] = h.channels[x]
                                             /\ x \in Roles => k.roles[x] = h.roles[x]
<1> DEFINE h == H[Len(box)]
           k == G[Len(box) + 1]
<1>1. /\ h \in Guilds /\ k = After(h, m) /\ Sound(m, h)
      /\ ChannelsOf(h) = ChannelsOf(srv) /\ RolesOf(h) = RolesOf(srv)
  BY TellingLast
<1>2. /\ m \in Messages /\ AboutFits(m)
      /\ m.type = "CHANNEL_UPDATE" /\ m.id \notin ChannelsOf(srv) => m.id \notin ids
      /\ m.type \in {"ROLE_UPDATE", "ROLE_CREATED"} /\ m.id \notin RolesOf(srv) => m.id \notin ids
  BY DEF Telling, Truthful
<1> SUFFICES /\ \A c \in ChannelsOf(k) : c \in ids => c \in ChannelsOf(h)
             /\ \A r \in RolesOf(k) : r \in ids => r \in RolesOf(h)
             /\ \A c \in ChannelsOf(k) \cap ChannelsOf(h) : k.channels[c].parent = h.channels[c].parent
             /\ \A x : x \notin m.about => /\ x \in Channels => k.channels[x] = h.channels[x]
                                           /\ x \in Roles => k.roles[x] = h.roles[x]
  OBVIOUS
<1> HIDE DEF h, k
<1>3. ASSUME NEW c \in ChannelsOf(k), c \in ids PROVE c \in ChannelsOf(h)
  <2>1. c \in Channels
    BY DEF ChannelsOf
  <2> QED
    BY <1>1, <1>2, <1>3, <2>1, AfterThere
<1>4. ASSUME NEW r \in RolesOf(k), r \in ids PROVE r \in RolesOf(h)
  <2>1. r \in Roles
    BY DEF RolesOf
  <2> QED
    BY <1>1, <1>2, <1>4, <2>1, AfterThere
<1>5. ASSUME NEW c \in ChannelsOf(k) \cap ChannelsOf(h) PROVE k.channels[c].parent = h.channels[c].parent
  BY <1>1, <1>2, AfterRow DEF Sound
<1>6. ASSUME NEW x, x \notin m.about
      PROVE  /\ x \in Channels => k.channels[x] = h.channels[x]
             /\ x \in Roles => k.roles[x] = h.roles[x]
  BY <1>1, <1>2, <1>6, Untold, AfterFields
<1> QED
  BY <1>3, <1>4, <1>5, <1>6

\* Either of the two sets of rows.
Extended(F2, box2, F, box, S, ids) ==
    /\ Len(box) \in Nat /\ Len(box2) = Len(box) + 1
    /\ \A k \in 1..Len(box) : box2[k] = box[k]
    /\ \A k \in 0..Len(box) : F2[k] = F[k]
    /\ \A x \in S : F2[Len(box2)][x] # NoRow /\ x \in ids => F[Len(box)][x] # NoRow
    /\ \A x \in S : x \notin box2[Len(box2)].about => F2[Len(box2)][x] = F[Len(box)][x]

LEMMA SteadyTold ==
    ASSUME NEW F, NEW F2, NEW S, NEW box, NEW box2, NEW ids, NEW ids2,
           Extended(F2, box2, F, box, S, ids), Steady(F, S, box, ids), ids \subseteq ids2,
           \A x \in S : F2[Len(box2)][x] # NoRow => x \in ids2
    PROVE  Steady(F2, S, box2, ids2)
<1>1. PICK n \in Nat : n = Len(box) /\ n + 1 = Len(box2)
  BY DEF Extended
<1> DEFINE about == box2[n + 1].about
<1>2. /\ \A k \in 1..n : box2[k] = box[k]
      /\ \A k \in 0..n : F2[k] = F[k]
      /\ \A x \in S : F2[n + 1][x] # NoRow => x \in ids2 /\ (x \in ids => F[n][x] # NoRow)
      /\ \A x \in S : x \notin about => F2[n + 1][x] = F[n][x]
  BY <1>1 DEF Extended
<1>3. \A x \in S : \A k \in 0..n : F[k][x] # NoRow => x \in ids
  BY <1>1 DEF Steady
<1>4. \A x \in S : \A i, j, k \in 0..n :
         i <= j /\ j <= k /\ F[i][x] # NoRow /\ F[k][x] # NoRow => F[j][x] # NoRow
  BY <1>1 DEF Steady
<1>5. \A x \in S : \A i, k \in 0..n :
         i < k => F[i][x] = F[k][x] \/ \E l \in (i + 1)..k : x \in box[l].about
  BY <1>1 DEF Steady
<1>6. \A k \in 0..(n + 1) : k \in 0..n \/ k = n + 1
  OBVIOUS
<1>7. n \in 0..n
  OBVIOUS
<1>8. \A x \in S : \A k \in 0..(n + 1) : F2[k][x] # NoRow => x \in ids2
  BY <1>3, <1>6, <1>2
<1>9. ASSUME NEW x \in S, NEW i \in 0..(n + 1), NEW j \in 0..(n + 1), NEW k \in 0..(n + 1), i <= j, j <= k,
             F2[i][x] # NoRow, F2[k][x] # NoRow
      PROVE  F2[j][x] # NoRow
  <2>1. CASE j = n + 1 \/ i = n + 1
    BY <1>9, <1>2, <2>1
  <2>2. CASE k \in 0..n
    <3>1. i \in 0..n /\ j \in 0..n
      BY <1>9, <2>2
    <3> QED
      BY <1>4, <1>9, <1>2, <2>2, <3>1
  <2>3. CASE i \in 0..n /\ j \in 0..n /\ k = n + 1
    <3>1. F[n][x] # NoRow
      BY <1>3, <1>9, <1>2, <2>3
    <3> QED
      BY <1>4, <1>7, <1>9, <1>2, <2>3, <3>1
  <2> QED
    BY <1>6, <2>1, <2>2, <2>3
<1>10. ASSUME NEW x \in S, NEW i \in 0..(n + 1), NEW k \in 0..(n + 1), i < k
      PROVE  F2[i][x] = F2[k][x] \/ \E l \in (i + 1)..k : x \in box2[l].about
  <2>1. i \in 0..n
    BY <1>10
  <2>2. ASSUME NEW q \in 0..n, i < q
        PROVE  F2[i][x] = F2[q][x] \/ \E l \in (i + 1)..q : x \in box2[l].about
    <3>1. (i + 1)..q \subseteq 1..n
      BY <2>1
    <3> QED
      BY <1>5, <1>2, <2>1, <2>2, <3>1
  <2>3. CASE k \in 0..n
    BY <1>10, <2>2, <2>3
  <2>4. CASE k = n + 1
    <3>1. CASE x \in about
      BY <2>1, <2>4, <3>1
    <3>2. CASE x \notin about
      <4>1. F2[k][x] = F2[n][x]
        BY <1>7, <1>2, <2>4, <3>2
      <4>2. CASE i = n
        BY <4>1, <4>2
      <4>3. CASE i < n
        <5>1. (i + 1)..n \subseteq (i + 1)..k
          BY <2>1, <2>4
        <5> QED
          BY <1>7, <2>2, <4>1, <4>3, <5>1
      <4> QED
        BY <2>1, <4>2, <4>3
    <3> QED
      BY <3>1, <3>2
  <2> QED
    BY <1>6, <2>3, <2>4
<1> QED
  BY <1>1, <1>8, <1>9, <1>10 DEF Steady

LEMMA TellingBasics ==
    ASSUME NEW H, NEW box, NEW m, NEW G, NEW box2, NEW srv, NEW srv2, NEW ids, NEW ids2,
           Telling(H, box, m, G, box2, srv, srv2, ids, ids2)
    PROVE  /\ Len(box) \in Nat /\ Len(box2) = Len(box) + 1
           /\ \A k \in 1..Len(box) : box2[k] = box[k]
           /\ box2[Len(box) + 1] = m
           /\ \A k \in 0..Len(box) : H[k] \in Guilds /\ G[k] = H[k]
           /\ ids \subseteq ids2
BY DEF Telling, Lengthens, Truthful

LEMMA TellingSteady ==
    ASSUME NEW H, NEW box, NEW m, NEW G, NEW box2, NEW srv, NEW srv2, NEW ids, NEW ids2,
           Telling(H, box, m, G, box2, srv, srv2, ids, ids2)
    PROVE  /\ Steady(ChannelsIn(G, Len(box2)), Channels, box2, ids2)
           /\ Steady(RolesIn(G, Len(box2)), Roles, box2, ids2)
<1>1. /\ Len(box) \in Nat /\ Len(box2) = Len(box) + 1
      /\ \A k \in 1..Len(box) : box2[k] = box[k]
      /\ box2[Len(box2)] = m
      /\ \A k \in 0..Len(box) : G[k] = H[k]
      /\ ids \subseteq ids2
  BY TellingBasics
<1> DEFINE h == H[Len(box)]
           k == G[Len(box2)]
<1>2. /\ \A c \in ChannelsOf(k) : c \in ids => c \in ChannelsOf(h)
      /\ \A r \in RolesOf(k) : r \in ids => r \in RolesOf(h)
      /\ \A x : x \notin m.about => /\ x \in Channels => k.channels[x] = h.channels[x]
                                    /\ x \in Roles => k.roles[x] = h.roles[x]
  BY <1>1, TellingNew
<1>3. ChannelsOf(k) \subseteq ids2 /\ RolesOf(k) \subseteq ids2
  <2>1. ChannelsOf(k) = ChannelsOf(srv2) /\ RolesOf(k) = RolesOf(srv2)
    BY <1>1, TellingLast
  <2> QED
    BY <2>1 DEF Telling, Truthful
<1>4. /\ Steady(ChannelsIn(H, Len(box)), Channels, box, ids)
      /\ Steady(RolesIn(H, Len(box)), Roles, box, ids)
  BY DEF Telling, Story
<1>5. /\ \A j \in 0..Len(box) : /\ ChannelsIn(H, Len(box))[j] = H[j].channels
                                /\ RolesIn(H, Len(box))[j] = H[j].roles
      /\ \A j \in 0..Len(box2) : /\ ChannelsIn(G, Len(box2))[j] = G[j].channels
                                 /\ RolesIn(G, Len(box2))[j] = G[j].roles
      /\ Len(box) \in 0..Len(box) /\ Len(box2) \in 0..Len(box2) /\ 0..Len(box) \subseteq 0..Len(box2)
  BY <1>1 DEF ChannelsIn, RolesIn
<1> HIDE DEF h, k
<1>6. Extended(ChannelsIn(G, Len(box2)), box2, ChannelsIn(H, Len(box)), box, Channels, ids)
  <2>1. \A x \in Channels : /\ x \in ChannelsOf(k) <=> ChannelsIn(G, Len(box2))[Len(box2)][x] # NoRow
                            /\ x \in ChannelsOf(h) <=> ChannelsIn(H, Len(box))[Len(box)][x] # NoRow
    BY <1>5 DEF ChannelsOf, h, k
  <2>2. \A x \in Channels : x \notin m.about =>
           ChannelsIn(G, Len(box2))[Len(box2)][x] = ChannelsIn(H, Len(box))[Len(box)][x]
    BY <1>2, <1>5 DEF h, k
  <2>3. \A j \in 0..Len(box) : ChannelsIn(G, Len(box2))[j] = ChannelsIn(H, Len(box))[j]
    BY <1>1, <1>5
  <2> QED
    BY <1>1, <1>2, <2>1, <2>2, <2>3 DEF Extended
<1>7. Extended(RolesIn(G, Len(box2)), box2, RolesIn(H, Len(box)), box, Roles, ids)
  <2>1. \A x \in Roles : /\ x \in RolesOf(k) <=> RolesIn(G, Len(box2))[Len(box2)][x] # NoRow
                         /\ x \in RolesOf(h) <=> RolesIn(H, Len(box))[Len(box)][x] # NoRow
    BY <1>5 DEF RolesOf, h, k
  <2>2. \A x \in Roles : x \notin m.about =>
           RolesIn(G, Len(box2))[Len(box2)][x] = RolesIn(H, Len(box))[Len(box)][x]
    BY <1>2, <1>5 DEF h, k
  <2>3. \A j \in 0..Len(box) : RolesIn(G, Len(box2))[j] = RolesIn(H, Len(box))[j]
    BY <1>1, <1>5
  <2> QED
    BY <1>1, <1>2, <2>1, <2>2, <2>3 DEF Extended
<1>8. \A x \in Channels : ChannelsIn(G, Len(box2))[Len(box2)][x] # NoRow => x \in ids2
  BY <1>3, <1>5 DEF ChannelsOf, k
<1>9. \A x \in Roles : RolesIn(G, Len(box2))[Len(box2)][x] # NoRow => x \in ids2
  BY <1>3, <1>5 DEF RolesOf, k
<1>10. Steady(ChannelsIn(G, Len(box2)), Channels, box2, ids2)
  BY <1>1, <1>4, <1>6, <1>8, SteadyTold
<1>11. Steady(RolesIn(G, Len(box2)), Roles, box2, ids2)
  BY <1>1, <1>4, <1>7, <1>9, SteadyTold
<1> QED
  BY <1>10, <1>11

\* Rows keep their categories.
Housed(H, n) ==
    \A c \in Channels : \A i, k \in 0..n : c \in ChannelsOf(H[i]) /\ c \in ChannelsOf(H[k]) =>
        H[i].channels[c].parent = H[k].channels[c].parent

LEMMA StoryHoused ==
    ASSUME NEW H, NEW box, NEW ids, Story(H, box, ids)
    PROVE  Housed(H, Len(box))
BY DEF Story, Housed

LEMMA StoryIssued ==
    ASSUME NEW H, NEW box, NEW ids, Story(H, box, ids), Len(box) \in Nat, NEW k \in 0..Len(box)
    PROVE  ChannelsOf(H[k]) \subseteq ids /\ RolesOf(H[k]) \subseteq ids /\ Founded(H[k], ids)
<1>1. /\ Steady(ChannelsIn(H, Len(box)), Channels, box, ids)
      /\ Steady(RolesIn(H, Len(box)), Roles, box, ids)
      /\ Founded(H[k], ids)
  BY DEF Story
<1>2. ChannelsIn(H, Len(box))[k] = H[k].channels /\ RolesIn(H, Len(box))[k] = H[k].roles
  BY DEF ChannelsIn, RolesIn
<1> QED
  BY <1>1, <1>2 DEF Steady, ChannelsOf, RolesOf

LEMMA TellingHoused ==
    ASSUME NEW H, NEW box, NEW m, NEW G, NEW box2, NEW srv, NEW srv2, NEW ids, NEW ids2,
           Telling(H, box, m, G, box2, srv, srv2, ids, ids2)
    PROVE  Housed(G, Len(box2)) /\ NewsOnly(G, Len(box2))
<1>1. PICK n \in Nat : n = Len(box) /\ Len(box2) = n + 1
  BY DEF Telling, Lengthens
<1>2. /\ \A k \in 0..n : H[k] \in Guilds /\ G[k] = H[k]
      /\ Housed(H, n) /\ NewsOnly(H, n)
  <2>1. \A k \in 0..Len(box) : H[k] \in Guilds /\ G[k] = H[k]
    BY TellingBasics
  <2> QED
    BY <1>1, <2>1, StoryHoused, StoryNewsOnly DEF Telling
<1>3. \A k \in 0..n : ChannelsOf(H[k]) \subseteq ids /\ RolesOf(H[k]) \subseteq ids /\ Founded(H[k], ids)
  BY <1>1, StoryIssued DEF Telling
<1> DEFINE h == H[n]
           last == G[n + 1]
<1>4. /\ \A c \in ChannelsOf(last) : c \in ids => c \in ChannelsOf(h)
      /\ \A r \in RolesOf(last) : r \in ids => r \in RolesOf(h)
      /\ \A c \in ChannelsOf(last) \cap ChannelsOf(h) : last.channels[c].parent = h.channels[c].parent
  BY <1>1, TellingNew
<1>5. n \in 0..n /\ 0 \in 0..n /\ \A k \in 0..(n + 1) : k \in 0..n \/ k = n + 1
  OBVIOUS
<1> HIDE DEF h, last
<1>6. ASSUME NEW c \in Channels, NEW i \in 0..n, c \in ChannelsOf(H[i]), c \in ChannelsOf(last)
      PROVE  H[i].channels[c].parent = last.channels[c].parent
  <2>1. c \in ChannelsOf(h)
    BY <1>3, <1>4, <1>6
  <2>2. H[i].channels[c].parent = h.channels[c].parent
    BY <1>2, <1>5, <1>6, <2>1 DEF Housed, h
  <2> QED
    BY <1>4, <1>6, <2>1, <2>2
<1>7. Housed(G, n + 1)
  <2> SUFFICES ASSUME NEW c \in Channels, NEW i \in 0..(n + 1), NEW k \in 0..(n + 1),
                      c \in ChannelsOf(G[i]), c \in ChannelsOf(G[k])
               PROVE  G[i].channels[c].parent = G[k].channels[c].parent
    BY DEF Housed
  <2>1. CASE i \in 0..n /\ k \in 0..n
    BY <1>2, <2>1 DEF Housed
  <2>2. CASE i \in 0..n /\ k = n + 1
    BY <1>2, <1>6, <2>2 DEF last
  <2>3. CASE k \in 0..n /\ i = n + 1
    BY <1>2, <1>6, <2>3 DEF last
  <2>4. CASE k = n + 1 /\ i = n + 1
    BY <2>4
  <2> QED
    BY <1>5, <2>1, <2>2, <2>3, <2>4
<1>8. G[0] = H[0]
  BY <1>2, <1>5
<1>9. ASSUME NEW c \in ChannelsOf(H[0]), NEW k \in 0..(n + 1), H[0].channels[c].parent \in ChannelsOf(G[k])
      PROVE  H[0].channels[c].parent \in ChannelsOf(H[0])
  <2> DEFINE p == H[0].channels[c].parent
  <2>1. p \in ids
    <3>1. p \in ids \cup {NoParent} /\ p # NoParent
      BY <1>3, <1>5, <1>9, EditorsAssumption DEF Founded, ChannelsOf
    <3> QED
      BY <3>1
  <2> HIDE DEF p
  <2>2. \E q \in 0..n : p \in ChannelsOf(H[q])
    <3>1. CASE k \in 0..n
      BY <1>2, <1>9, <3>1 DEF p
    <3>2. CASE k = n + 1
      BY <1>4, <1>5, <1>9, <2>1, <3>2 DEF p, last, h
    <3> QED
      BY <1>5, <3>1, <3>2
  <2> QED
    BY <1>2, <2>2 DEF NewsOnly, p
<1>10. ASSUME NEW v \in Users, NEW r \in H[0].memberRoles[v], NEW k \in 0..(n + 1), r \in RolesOf(G[k])
       PROVE  r \in RolesOf(H[0])
  <2>1. r \in ids
    BY <1>3, <1>5, <1>10 DEF Founded
  <2>2. \E q \in 0..n : r \in RolesOf(H[q])
    <3>1. CASE k \in 0..n
      BY <1>2, <1>10, <3>1
    <3>2. CASE k = n + 1
      BY <1>4, <1>5, <1>10, <2>1, <3>2 DEF last, h
    <3> QED
      BY <1>5, <3>1, <3>2
  <2> QED
    BY <1>2, <1>10, <2>2 DEF NewsOnly
<1>11. NewsOnly(G, n + 1)
  BY <1>8, <1>9, <1>10 DEF NewsOnly
<1> QED
  BY <1>1, <1>7, <1>11

\* The answer to a saved overwrite is about the category that the client shows the channel in.
Aimed(m, g, ids) ==
    m.type = "OVERWRITE" =>
        m.id \in ids /\ m.id \in ChannelsOf(g) /\ g.channels[m.id].parent \in m.about

LEMMA TellingHomes ==
    ASSUME NEW H, NEW box, NEW m, NEW G, NEW box2, NEW srv, NEW srv2, NEW ids, NEW ids2,
           Telling(H, box, m, G, box2, srv, srv2, ids, ids2),
           NEW g \in Guilds, Reads(g, H[0]), Aimed(m, g, ids)
    PROVE  Homes(G, box2, ids2)
<1>1. PICK n \in Nat : n = Len(box) /\ Len(box2) = n + 1
  BY DEF Telling, Lengthens
<1>2. /\ \A k \in 0..n : H[k] \in Guilds /\ G[k] = H[k]
      /\ \A l \in 1..n : box2[l] = box[l]
      /\ box2[n + 1] = m /\ ids \subseteq ids2
  BY <1>1, TellingBasics
<1>3. Housed(G, n + 1) /\ NewsOnly(G, n + 1)
  BY <1>1, TellingHoused
<1>4. /\ Homes(H, box, ids)
      /\ \A k \in 0..n : ChannelsOf(H[k]) \subseteq ids /\ Founded(H[k], ids)
  BY <1>1, StoryIssued, StoryHomes DEF Telling
<1>5. \A c \in ChannelsOf(G[n + 1]) : c \in ids => c \in ChannelsOf(G[n])
  <2>1. \A c \in ChannelsOf(G[n + 1]) : c \in ids => c \in ChannelsOf(H[n])
    BY <1>1, TellingNew
  <2> QED
    BY <1>2, <2>1
<1>6. n \in 0..n /\ 0 \in 0..n /\ \A k \in 0..(n + 1) : k \in 0..n \/ k = n + 1
  OBVIOUS
<1>7. ASSUME NEW l \in 1..n, box2[l].type = "OVERWRITE"
      PROVE  /\ box2[l].id \in ids2
             /\ \A k \in 0..(n + 1) : box2[l].id \in ChannelsOf(G[k]) =>
                  LET home == G[k].channels[box2[l].id].parent IN
                  home \in box2[l].about \cup {NoParent} \/ \A j \in 0..(n + 1) : home \notin ChannelsOf(G[j])
  <2> DEFINE x == box[l].id
  <2>1. /\ x \in ids
        /\ \A k \in 0..n : x \in ChannelsOf(H[k]) =>
               LET home == H[k].channels[x].parent IN
               home \in box[l].about \cup {NoParent} \/ \A j \in 0..n : home \notin ChannelsOf(H[j])
    BY <1>1, <1>2, <1>4, <1>7 DEF Homes
  <2> HIDE DEF x
  <2>2. ASSUME NEW k \in 0..n, x \in ChannelsOf(G[k])
        PROVE  LET home == G[k].channels[x].parent IN
               home \in box[l].about \cup {NoParent} \/ \A j \in 0..(n + 1) : home \notin ChannelsOf(G[j])
    <3> DEFINE home == G[k].channels[x].parent
    <3>1. home \in box[l].about \cup {NoParent} \/ \A j \in 0..n : home \notin ChannelsOf(G[j])
      BY <1>2, <2>1, <2>2
    <3>2. home \in ids \cup {NoParent}
      BY <1>2, <1>4, <2>2 DEF Founded
    <3> HIDE DEF home
    <3>3. home # NoParent /\ (\A j \in 0..n : home \notin ChannelsOf(G[j])) =>
             \A j \in 0..(n + 1) : home \notin ChannelsOf(G[j])
      BY <1>5, <1>6, <3>2
    <3>4. home \in box[l].about \cup {NoParent} \/ \A j \in 0..(n + 1) : home \notin ChannelsOf(G[j])
      BY <3>1, <3>3
    <3> QED
      BY <3>4 DEF home
  <2>3. ASSUME x \in ChannelsOf(G[n + 1])
        PROVE  x \in ChannelsOf(G[n]) /\ G[n + 1].channels[x].parent = G[n].channels[x].parent
    <3>1. x \in ChannelsOf(G[n])
      BY <1>5, <2>1, <2>3
    <3>2. x \in Channels /\ n \in 0..(n + 1) /\ n + 1 \in 0..(n + 1)
      BY <3>1 DEF ChannelsOf
    <3> QED
      BY <1>3, <2>3, <3>1, <3>2 DEF Housed
  <2>4. ASSUME NEW k \in 0..(n + 1), x \in ChannelsOf(G[k])
        PROVE  LET home == G[k].channels[x].parent IN
               home \in box[l].about \cup {NoParent} \/ \A j \in 0..(n + 1) : home \notin ChannelsOf(G[j])
    <3>1. CASE k \in 0..n
      BY <2>2, <2>4, <3>1
    <3>2. CASE k = n + 1
      <4>1. x \in ChannelsOf(G[n]) /\ G[k].channels[x].parent = G[n].channels[x].parent
        BY <2>3, <2>4, <3>2
      <4> QED
        BY <1>6, <2>2, <4>1
    <3> QED
      BY <1>6, <3>1, <3>2
  <2>5. box2[l] = box[l]
    BY <1>2
  <2> QED
    BY <1>2, <2>1, <2>4, <2>5 DEF x
<1>8. ASSUME m.type = "OVERWRITE"
      PROVE  /\ m.id \in ids2
             /\ \A k \in 0..(n + 1) : m.id \in ChannelsOf(G[k]) =>
                  LET home == G[k].channels[m.id].parent IN
                  home \in m.about \cup {NoParent} \/ \A j \in 0..(n + 1) : home \notin ChannelsOf(G[j])
  <2> DEFINE x == m.id
             p == H[0].channels[x].parent
  <2>1. x \in ids /\ x \in ChannelsOf(g) /\ g.channels[x].parent \in m.about
    BY <1>8 DEF Aimed
  <2>2. /\ x \in Channels /\ x \in ChannelsOf(H[0]) /\ H[0] \in Guilds
        /\ g.channels[x].parent = IF p \in ChannelsOf(H[0]) THEN p ELSE NoParent
    <3>1. x \in Channels /\ x \in ChannelsOf(H[0]) /\ H[0] \in Guilds
      BY <1>2, <1>6, <2>1, ReadsThere DEF ChannelsOf
    <3>2. H[0].channels[x] # NoRow /\ H[0].channels[x] \in ChannelRow
      BY <3>1 DEF ChannelsOf, Guilds
    <3>3. g.channels[x].parent = Home(H[0], H[0].channels[x])
      BY <2>1, <3>1 DEF Reads, Shows, ChannelsOf
    <3> QED
      BY <3>1, <3>2, <3>3, HomeIs
  <2>3. G[0] = H[0] /\ 0 \in 0..(n + 1)
    BY <1>2, <1>6
  <2> HIDE DEF x
  <2>4. ASSUME NEW k \in 0..(n + 1), x \in ChannelsOf(G[k]) PROVE G[k].channels[x].parent = p
    BY <1>3, <2>2, <2>3, <2>4 DEF Housed
  <2>5. p \in m.about \/ \A j \in 0..(n + 1) : p \notin ChannelsOf(G[j])
    <3>1. CASE p \in ChannelsOf(H[0])
      BY <2>1, <2>2, <3>1
    <3>2. CASE p \notin ChannelsOf(H[0])
      BY <1>3, <2>2, <2>3, <3>2 DEF NewsOnly
    <3> QED
      BY <3>1, <3>2
  <2> HIDE DEF p
  <2> QED
    BY <1>2, <2>1, <2>4, <2>5 DEF x
<1>9. ASSUME NEW l \in 1..(n + 1), box2[l].type = "OVERWRITE"
      PROVE  /\ box2[l].id \in ids2
             /\ \A k \in 0..(n + 1) : box2[l].id \in ChannelsOf(G[k]) =>
                  LET home == G[k].channels[box2[l].id].parent IN
                  home \in box2[l].about \cup {NoParent} \/ \A j \in 0..(n + 1) : home \notin ChannelsOf(G[j])
  <2>1. CASE l \in 1..n
    BY <1>7, <1>9, <2>1
  <2>2. CASE l = n + 1
    BY <1>2, <1>8, <1>9, <2>2
  <2> QED
    BY <2>1, <2>2
<1> QED
  BY <1>1, <1>9 DEF Homes

LEMMA TellingFounded ==
    ASSUME NEW H, NEW box, NEW m, NEW G, NEW box2, NEW srv, NEW srv2, NEW ids, NEW ids2,
           Telling(H, box, m, G, box2, srv, srv2, ids, ids2)
    PROVE  Founded(G[Len(box2)], ids2)
<1> DEFINE h == H[Len(box)]
           k == G[Len(box) + 1]
<1>1. /\ h \in Guilds /\ k \in Guilds /\ k = After(h, m) /\ Reads(srv2, k)
      /\ Founded(h, ids) /\ Sound(m, h)
      /\ ChannelsOf(k) = ChannelsOf(srv2) /\ ChannelsOf(h) \subseteq ids /\ RolesOf(h) \subseteq ids
  BY TellingLast
<1>2. /\ m \in Messages /\ ids \subseteq ids2 /\ Flat(srv2)
      /\ Len(box2) = Len(box) + 1
  BY DEF Telling, Truthful, Lengthens
<1> SUFFICES Founded(k, ids2)
  BY <1>2
<1> HIDE DEF h, k
<1>3. ASSUME NEW c \in ChannelsOf(k) PROVE k.channels[c].parent \in ids2 \cup {NoParent}
  <2>1. \/ m.type = "CHANNEL_UPDATE" /\ m.id = c /\ "parent" \in DOMAIN m.data /\ k.channels[c].parent = m.data.parent
        \/ c \in ChannelsOf(h) /\ k.channels[c].parent = h.channels[c].parent
    BY <1>1, <1>2, AfterRow DEF Sound
  <2>2. CASE c \in ChannelsOf(h) /\ k.channels[c].parent = h.channels[c].parent
    BY <1>1, <1>2, <2>2 DEF Founded
  <2>3. CASE m.type = "CHANNEL_UPDATE" /\ m.id = c /\ "parent" \in DOMAIN m.data /\ k.channels[c].parent = m.data.parent
    <3>1. m.data.parent \in ChannelsOf(h) \cup {NoParent}
      BY <1>1, <2>3 DEF Sound
    <3> QED
      BY <1>1, <1>2, <2>3, <3>1
  <2> QED
    BY <2>1, <2>2, <2>3
<1>4. ASSUME NEW c \in ChannelsOf(k), c \in Categories PROVE ~k.channels[c].isSynced
  <2>1. c \in ChannelsOf(srv2) /\ ~srv2.channels[c].isSynced
    BY <1>1, <1>2, <1>4 DEF Flat
  <2>2. srv2.channels[c].isSynced = k.channels[c].isSynced
    BY <1>1, <2>1 DEF Reads, Shows, ChannelsOf
  <2> QED
    BY <2>1, <2>2
<1>5. ASSUME NEW v \in Users PROVE k.memberRoles[v] \subseteq ids2
  <2>1. k.memberRoles[v] = HeldAfter(m, v, h.memberRoles[v])
    BY <1>1, AfterFields
  <2>2. h.memberRoles[v] \subseteq ids
    BY <1>1 DEF Founded
  <2>3. m.type = "MEMBERS_UPDATE" /\ v \in DOMAIN m.data => m.data[v] \subseteq ids
    BY <1>1 DEF Sound
  <2> QED
    BY <1>2, <2>1, <2>2, <2>3 DEF HeldAfter
<1> QED
  BY <1>3, <1>4, <1>5 DEF Founded

LEMMA AppendStory ==
    ASSUME NEW H, NEW box, NEW m, NEW G, NEW box2, NEW srv, NEW srv2, NEW ids, NEW ids2,
           Telling(H, box, m, G, box2, srv, srv2, ids, ids2),
           NEW g \in Guilds, Reads(g, H[0]), Aimed(m, g, ids)
    PROVE  /\ G \in [0..Len(box2) -> Guilds] /\ G[0] = H[0]
           /\ Reads(srv2, G[Len(box2)]) /\ Story(G, box2, ids2)
<1>1. PICK n \in Nat : n = Len(box) /\ Len(box2) = n + 1
  BY DEF Telling, Lengthens
<1>2. /\ \A k \in 0..n : H[k] \in Guilds /\ G[k] = H[k]
      /\ \A l \in 1..n : box2[l] = box[l]
      /\ box2[n + 1] = m /\ ids \subseteq ids2
  BY <1>1, TellingBasics
<1>3. /\ G[n + 1] = After(H[n], m) /\ Sound(m, H[n]) /\ G[n + 1] \in Guilds /\ Reads(srv2, G[n + 1])
  BY <1>1, TellingLast
<1>4. n \in 0..n /\ 0 \in 0..n /\ (n + 1) - 1 = n /\ \A k \in 0..(n + 1) : k \in 0..n \/ k = n + 1
  OBVIOUS
<1>5. G \in [0..(n + 1) -> Guilds]
  <2>1. DOMAIN G = 0..(n + 1) /\ G = [k \in DOMAIN G |-> G[k]]
    BY <1>1 DEF Telling, Lengthens
  <2>2. \A k \in 0..(n + 1) : G[k] \in Guilds
    BY <1>2, <1>3, <1>4
  <2> QED
    BY <2>1, <2>2
<1>6. \A k \in 1..(n + 1) : G[k] = After(G[k - 1], box2[k]) /\ Sound(box2[k], G[k - 1])
  <2>1. \A k \in 1..n : H[k] = After(H[k - 1], box[k]) /\ Sound(box[k], H[k - 1])
    BY <1>1 DEF Telling, Story
  <2>2. ASSUME NEW k \in 1..n PROVE G[k] = After(G[k - 1], box2[k]) /\ Sound(box2[k], G[k - 1])
    <3>1. k \in 0..n /\ k - 1 \in 0..n
      OBVIOUS
    <3> QED
      BY <1>2, <2>1, <3>1
  <2>3. G[n + 1] = After(G[n], box2[n + 1]) /\ Sound(box2[n + 1], G[n])
    BY <1>2, <1>3, <1>4
  <2>4. \A k \in 1..(n + 1) : k \in 1..n \/ k = n + 1
    OBVIOUS
  <2> QED
    BY <1>4, <2>2, <2>3, <2>4
<1>7. \A k \in 0..(n + 1) : Founded(G[k], ids2)
  <2>1. ASSUME NEW k \in 0..n PROVE Founded(G[k], ids2)
    <3>1. Founded(H[k], ids)
      BY <1>1 DEF Telling, Story
    <3> QED
      BY <1>2, <3>1 DEF Founded
  <2>2. Founded(G[n + 1], ids2)
    BY <1>1, TellingFounded
  <2> QED
    BY <1>4, <2>1, <2>2
<1>8. /\ Steady(ChannelsIn(G, Len(box2)), Channels, box2, ids2)
      /\ Steady(RolesIn(G, Len(box2)), Roles, box2, ids2)
  BY TellingSteady
<1>9. Housed(G, Len(box2)) /\ NewsOnly(G, Len(box2))
  BY TellingHoused
<1>10. Homes(G, box2, ids2)
  BY TellingHomes
<1>11. Story(G, box2, ids2)
  BY <1>1, <1>6, <1>7, <1>8, <1>9, <1>10 DEF Story, Housed, NewsOnly, Homes
<1> QED
  BY <1>1, <1>2, <1>3, <1>4, <1>5, <1>11

\* A client that will show the guild still will when one more message is sent to it.
LEMMA AppendSettled ==
    ASSUME NEW u \in Users, NEW g \in Guilds, NEW box \in Seq(Messages), NEW m,
           NEW srv \in Guilds, NEW srv2 \in Guilds, NEW ids, NEW ids2,
           Settled(u, g, box, srv, ids), Truthful(m, srv, srv2, ids, ids2), Aimed(m, g, ids),
           m.type # "LEFT", m.type = "MEMBER_LEAVE" => m.id # u
    PROVE  Settled(u, g, Append(box, m), srv2, ids2)
<1>1. PICK box2 : box2 = Append(box, m)
  OBVIOUS
<1>2. m \in Messages
  BY DEF Truthful
<1>3. /\ Len(box) \in Nat /\ Len(box2) = Len(box) + 1 /\ DOMAIN box2 = 1..Len(box2) /\ DOMAIN box = 1..Len(box)
      /\ \A k \in 1..Len(box) : box2[k] = box[k]
      /\ box2[Len(box) + 1] = m
  BY <1>1, <1>2, AppendProperties, LenProperties
<1>4. PICK H \in [0..Len(box) -> Guilds] :
          Reads(g, H[0]) /\ Reads(srv, H[Len(box)]) /\ Story(H, box, ids)
  BY DEF Settled
<1>5. PICK G : G = [k \in 0..Len(box2) |-> IF k <= Len(box) THEN H[k] ELSE After(H[Len(box)], m)]
  OBVIOUS
<1>6. Telling(H, box, m, G, box2, srv, srv2, ids, ids2)
  BY <1>3, <1>4, <1>5 DEF Telling, Lengthens
<1>7. /\ G \in [0..Len(box2) -> Guilds] /\ G[0] = H[0]
      /\ Reads(srv2, G[Len(box2)]) /\ Story(G, box2, ids2)
  BY <1>4, <1>6, AppendStory
<1>8. Stays(u, g, box2)
  BY <1>3 DEF Settled, Stays
<1> QED
  BY <1>1, <1>4, <1>7, <1>8 DEF Settled

LEMMA AppendGone ==
    ASSUME NEW g, NEW box \in Seq(Messages), NEW m \in Messages,
           \/ m.type = "LEFT"
           \/ Gone(g, box) /\ m.type # "GUILD_UPDATE"
    PROVE  Gone(g, Append(box, m))
<1>1. PICK box2 : box2 = Append(box, m)
  OBVIOUS
<1>2. /\ Len(box) \in Nat /\ Len(box2) = Len(box) + 1 /\ DOMAIN box2 = 1..Len(box2) /\ DOMAIN box = 1..Len(box)
      /\ \A k \in 1..Len(box) : box2[k] = box[k]
      /\ box2[Len(box) + 1] = m
  BY <1>1, AppendProperties, LenProperties
<1>3. CASE m.type = "LEFT"
  <2>1. Len(box) + 1 \in DOMAIN box2 /\ \A l \in DOMAIN box2 : ~(l > Len(box) + 1)
    BY <1>2
  <2> QED
    BY <1>1, <1>2, <1>3, <2>1 DEF Gone
<1>4. CASE Gone(g, box) /\ m.type # "GUILD_UPDATE"
  <2>1. \A l \in DOMAIN box2 : (l \in DOMAIN box /\ box2[l] = box[l]) \/ box2[l].type # "GUILD_UPDATE"
    BY <1>2, <1>4
  <2>2. CASE ~g.present /\ \A l \in DOMAIN box : box[l].type # "GUILD_UPDATE"
    BY <1>1, <2>1, <2>2 DEF Gone
  <2>3. CASE \E i \in DOMAIN box : box[i].type = "LEFT" /\ \A l \in DOMAIN box : l > i => box[l].type # "GUILD_UPDATE"
    <3>1. PICK i \in DOMAIN box : box[i].type = "LEFT" /\ \A l \in DOMAIN box : l > i => box[l].type # "GUILD_UPDATE"
      BY <2>3
    <3>2. i \in DOMAIN box2 /\ box2[i].type = "LEFT"
      BY <1>2, <3>1
    <3>3. \A l \in DOMAIN box2 : l > i => box2[l].type # "GUILD_UPDATE"
      BY <2>1, <3>1
    <3> QED
      BY <1>1, <3>2, <3>3 DEF Gone
  <2> QED
    BY <1>4, <2>2, <2>3 DEF Gone
<1> QED
  BY <1>3, <1>4

-----------------------------------------------------------------------------
(* What guild-service tells is true *)

\* What guild-service makes of the guild, but for what is never looked at.
AlikeRows(x, y) ==
    /\ x = NoRow <=> y = NoRow
    /\ x # NoRow =>
         /\ x.name = y.name /\ x.isSynced = y.isSynced /\ x.ownerId = y.ownerId /\ x.parent = y.parent
         /\ ~x.isSynced => x.overwrites = y.overwrites

Alike(a, b) ==
    /\ a.name = b.name /\ a.members = b.members /\ a.memberRoles = b.memberRoles
    /\ \A r \in Roles : KnownRole(a.roles[r]) = KnownRole(b.roles[r])
    /\ \A c \in Channels : AlikeRows(a.channels[c], b.channels[c])

LEMMA AlikeReads ==
    ASSUME NEW a, NEW b, NEW h, Alike(a, b), Reads(a, h)
    PROVE  Reads(b, h)
<1>1. ASSUME NEW c \in Channels PROVE Shows(b.channels[c], h.channels[c], Home(h, h.channels[c]))
  <2>1. AlikeRows(a.channels[c], b.channels[c]) /\ Shows(a.channels[c], h.channels[c], Home(h, h.channels[c]))
    BY DEF Alike, Reads
  <2> QED
    BY <2>1 DEF AlikeRows, Shows
<1> QED
  BY <1>1 DEF Alike, Reads

\* What a message says is news or is of what the guild has.
Newsworthy(m, srv, ids) ==
    /\ m \in Messages /\ AboutFits(m) /\ Sound(m, srv)
    /\ m.type = "CHANNEL_UPDATE" /\ m.id \notin ChannelsOf(srv) => m.id \notin ids
    /\ m.type \in {"ROLE_UPDATE", "ROLE_CREATED"} /\ m.id \notin RolesOf(srv) => m.id \notin ids

LEMMA NewsIsFresh ==
    ASSUME NEW srv \in Guilds, NEW h \in Guilds, NEW m, NEW ids, Newsworthy(m, srv, ids),
           Reads(srv, h), Founded(h, ids)
    PROVE  Sound(m, h) /\ Fresh(m, h) /\ Flat(h)
<1>1. ChannelsOf(h) = ChannelsOf(srv) /\ RolesOf(h) = RolesOf(srv)
  BY ReadsThere
<1>2. Sound(m, h)
  <2>1. Sound(m, srv)
    BY DEF Newsworthy
  <2>2. \A c \in ChannelsOf(srv) : h.channels[c].isSynced = srv.channels[c].isSynced
    BY DEF Reads, Shows, ChannelsOf
  <2> QED
    BY <1>1, <2>1, <2>2 DEF Sound
<1>3. ASSUME m.type = "CHANNEL_UPDATE", m.id \notin ChannelsOf(h), NEW c \in ChannelsOf(h)
      PROVE  h.channels[c].parent # m.id
  <2>1. m.id \in Channels
    BY <1>3 DEF Newsworthy, Messages, Fits, FitsAs
  <2>2. m.id \notin ids /\ m.id # NoParent /\ h.channels[c].parent \in ids \cup {NoParent}
    BY <1>1, <1>3, <2>1, EditorsAssumption DEF Newsworthy, Founded
  <2> QED
    BY <2>2
<1>4. ASSUME m.type \in {"ROLE_UPDATE", "ROLE_CREATED"}, m.id \notin RolesOf(h), NEW v \in Users
      PROVE  m.id \notin h.memberRoles[v]
  BY <1>1, <1>4 DEF Newsworthy, Founded
<1>5. Flat(h)
  BY DEF Founded, Flat
<1> QED
  BY <1>2, <1>3, <1>4, <1>5 DEF Fresh

\* The guild that the server makes of srv, and the ids it has handed out then.
Ground(srv, srv2, ids, ids2) ==
    /\ srv \in Guilds /\ srv2 \in Guilds
    /\ ids \subseteq ids2 /\ ChannelsOf(srv2) \subseteq ids2 /\ RolesOf(srv2) \subseteq ids2
    /\ Flat(srv2)

LEMMA ChangeIsTrue ==
    ASSUME NEW srv, NEW srv2, NEW ids, NEW ids2, Ground(srv, srv2, ids, ids2),
           NEW m, Newsworthy(m, srv, ids), m.type \notin {"LEFT", "GUILD_UPDATE", "RENAMED"},
           Alike(Change(srv, m), srv2)
    PROVE  Truthful(m, srv, srv2, ids, ids2)
<1>1. ASSUME NEW h \in Guilds, Reads(srv, h), Founded(h, ids)
      PROVE  Reads(srv2, After(h, m))
  <2>1. srv \in Guilds /\ m \in Messages
    BY DEF Ground, Newsworthy
  <2>2. Sound(m, h) /\ Fresh(m, h) /\ Flat(h)
    BY <1>1, <2>1, NewsIsFresh
  <2>3. Reads(Change(srv, m), After(h, m))
    BY <1>1, <2>1, <2>2, ReadOn
  <2> QED
    BY <2>3, AlikeReads
<1> QED
  BY <1>1 DEF Truthful, Ground, Newsworthy

LEMMA NameIsTrue ==
    ASSUME NEW srv, NEW srv2, NEW ids, NEW ids2, Ground(srv, srv2, ids, ids2),
           NEW m, Newsworthy(m, srv, ids), m.type = "GUILD_UPDATE",
           srv2 = [srv EXCEPT !.name = m.data]
    PROVE  Truthful(m, srv, srv2, ids, ids2)
<1>1. srv \in Guilds /\ m \in Messages
  BY DEF Ground, Newsworthy
<1>2. /\ srv2.name = m.data /\ srv2.members = srv.members /\ srv2.memberRoles = srv.memberRoles
      /\ srv2.roles = srv.roles /\ srv2.channels = srv.channels
  BY <1>1 DEF Guilds
<1>3. ASSUME NEW h \in Guilds, Reads(srv, h) PROVE Reads(srv2, After(h, m))
  BY <1>1, <1>2, <1>3, NameOn
<1> QED
  BY <1>3 DEF Truthful, Ground, Newsworthy

LEMMA RenameIsTrue ==
    ASSUME NEW srv, NEW srv2, NEW ids, NEW ids2, Ground(srv, srv2, ids, ids2),
           NEW m, Newsworthy(m, srv, ids), m.type = "RENAMED", m.id \in ChannelsOf(srv),
           srv2 = [srv EXCEPT !.channels =
               [srv.channels EXCEPT ![m.id] = [srv.channels[m.id] EXCEPT !.name = m.data.name]]]
    PROVE  Truthful(m, srv, srv2, ids, ids2)
<1>1. srv \in Guilds /\ m \in Messages
  BY DEF Ground, Newsworthy
<1>2. ASSUME NEW h \in Guilds, Reads(srv, h) PROVE Reads(srv2, After(h, m))
  BY <1>1, <1>2, RenameOn
<1> QED
  BY <1>2 DEF Truthful, Ground, Newsworthy

-----------------------------------------------------------------------------
(* Every request is answered with the truth *)

Speaks(m, type, id, data, about) ==
    m \in Messages /\ m.type = type /\ m.id = id /\ m.data = data /\ m.about = about

\* Whoever tells this when the server makes the guild g tells the truth.
Truly(type, id, data, about, g, ids) ==
    \A m : Speaks(m, type, id, data, about) => Truthful(m, server, g, issued, ids)

LEMMA MessageSpeaks ==
    ASSUME NEW type, NEW id, NEW data, NEW about
    PROVE  /\ Reply(Message(type, id, data, about)) \in Messages
              => Speaks(Reply(Message(type, id, data, about)), type, id, data, about)
           /\ Event(Message(type, id, data, about)) \in Messages
              => Speaks(Event(Message(type, id, data, about)), type, id, data, about)
<1>1. PICK yes, no : yes = TRUE /\ no = FALSE
  OBVIOUS
<1>2. /\ Reply(Message(type, id, data, about))
           = [type |-> type, id |-> id, data |-> data, about |-> about, reply |-> yes]
      /\ Event(Message(type, id, data, about))
           = [type |-> type, id |-> id, data |-> data, about |-> about, reply |-> no]
  BY <1>1, MessageParts, Zenon
<1>3. PICK r, e : r = Reply(Message(type, id, data, about)) /\ e = Event(Message(type, id, data, about))
  OBVIOUS
<1>4. /\ r = [type |-> type, id |-> id, data |-> data, about |-> about, reply |-> yes]
      /\ e = [type |-> type, id |-> id, data |-> data, about |-> about, reply |-> no]
  BY <1>2, <1>3, Zenon
<1>5. /\ r.type = type /\ r.id = id /\ r.data = data /\ r.about = about
      /\ e.type = type /\ e.id = id /\ e.data = data /\ e.about = about
  BY <1>4
<1> QED
  BY <1>3, <1>5, Zenon DEF Speaks

\* A request told to all who stay, and to the one who leaves what it is to leave.
Departed(u, g, e, r) ==
    /\ g.members = server.members \ {u} /\ u \in server.members
    /\ e.type = "MEMBER_LEAVE" => e.id = u
    /\ r \in Messages /\ AboutFits(r) /\ r.type = "LEFT"

Remained(u, g, r, ids) ==
    /\ g.members = server.members
    /\ Truthful(r, server, g, issued, ids) /\ Aimed(r, view[u], issued)
    /\ r.type \notin {"LEFT", "MEMBER_LEAVE"} /\ (r.type = "GUILD_UPDATE" => u \in server.members)

Answered(u) ==
    \E g, event, reply :
        /\ Handle(u, g, event, reply) /\ Owner \in g.members /\ RolesOf(g) \subseteq issued'
        /\ Truthful(Event(event), server, g, issued, issued')
        /\ Event(event).type \notin {"LEFT", "OVERWRITE"}
        /\ \/ Remained(u, g, Reply(reply), issued') /\ Event(event).type # "MEMBER_LEAVE"
           \/ Departed(u, g, Event(event), Reply(reply))

LEMMA BothAnswered ==
    ASSUME NEW u \in Users, NEW g, NEW type, NEW id, NEW data, NEW about, NEW answer, NEW data2, NEW about2,
           Handle(u, g, Message(type, id, data, about), Message(answer, id, data2, about2)),
           Event(Message(type, id, data, about)) \in Messages,
           Reply(Message(answer, id, data2, about2)) \in Messages,
           Truly(type, id, data, about, g, issued'), Truly(answer, id, data2, about2, g, issued'),
           RolesOf(g) \subseteq issued', g.members = server.members, Owner \in server.members,
           type \notin {"LEFT", "OVERWRITE", "MEMBER_LEAVE"}, answer \notin {"LEFT", "MEMBER_LEAVE"},
           answer = "GUILD_UPDATE" => u \in server.members,
           answer = "OVERWRITE" =>
               id \in issued /\ id \in ChannelsOf(view[u]) /\ view[u].channels[id].parent \in about2
    PROVE  Answered(u)
<1>1. PICK em, rm : em = Message(type, id, data, about) /\ rm = Message(answer, id, data2, about2)
  OBVIOUS
<1>2. PICK e, r : e = Event(em) /\ r = Reply(rm)
  OBVIOUS
<1>3. Speaks(e, type, id, data, about) /\ Speaks(r, answer, id, data2, about2)
  BY <1>1, <1>2, MessageSpeaks, Zenon
<1>4. Truthful(e, server, g, issued, issued') /\ Truthful(r, server, g, issued, issued')
  BY <1>3 DEF Truly
<1>5. Remained(u, g, r, issued') /\ e.type \notin {"LEFT", "OVERWRITE", "MEMBER_LEAVE"}
  BY <1>3, <1>4 DEF Speaks, Remained, Aimed
<1>6. Handle(u, g, em, rm)
  BY <1>1
<1> QED
  BY <1>2, <1>4, <1>5, <1>6 DEF Answered

LEMMA ToldAnswered ==
    ASSUME NEW u \in Users, NEW g, NEW type, NEW id, NEW data, NEW about,
           Told(u, g, Message(type, id, data, about)),
           Event(Message(type, id, data, about)) \in Messages,
           Reply(Message(type, id, data, about)) \in Messages,
           Truly(type, id, data, about, g, issued'),
           RolesOf(g) \subseteq issued', g.members = server.members, Owner \in server.members,
           type \notin {"LEFT", "OVERWRITE", "MEMBER_LEAVE"},
           type = "GUILD_UPDATE" => u \in server.members
    PROVE  Answered(u)
<1>1. Handle(u, g, Message(type, id, data, about), Message(type, id, data, about))
  BY DEF Told
<1> QED
  BY <1>1, BothAnswered

\* What is there before and after a request.
Asked(u) ==
    /\ Typed /\ Typed' /\ InOrder /\ InOrder'
    /\ RolesOf(server) \subseteq issued /\ Owner \in server.members

LEMMA Grounds ==
    ASSUME NEW u \in Users, Asked(u), NEW g, NEW event, NEW reply, Handle(u, g, event, reply),
           issued \subseteq issued', RolesOf(g) \subseteq RolesOf(server) \cup issued'
    PROVE  Ground(server, g, issued, issued')
<1>1. server \in Guilds /\ server' = g /\ ChannelsOf(server)' = ChannelsOf(g)
  BY DEF Asked, Typed, Handle, ChannelsOf
<1>2. g \in Guilds /\ ChannelsOf(g) \subseteq issued' /\ RolesOf(g) \subseteq issued'
  BY <1>1 DEF Asked, Typed, InOrder
<1>3. \A c \in ChannelsOf(g) \cap Categories : ~g.channels[c].isSynced
  BY <1>1 DEF Asked, Typed, Coherent, ChannelsAreOrdered, ChannelsOf
<1> QED
  BY <1>1, <1>2, <1>3 DEF Ground, Flat

LEMMA SameAlike ==
    ASSUME NEW a, NEW b, a = b
    PROVE  Alike(a, b)
BY DEF Alike, AlikeRows

-----------------------------------------------------------------------------
(* The requests about channels *)

\* The server writes ch over a row it has, and says what of it may have changed.
LEMMA RowWrittenTruly ==
    ASSUME NEW u \in Users, Asked(u), NEW c \in ChannelsOf(server), NEW ch \in ChannelRow, NEW data \in ChannelData,
           NEW g, g = [server EXCEPT !.channels = [server.channels EXCEPT ![c] = ch]],
           Ground(server, g, issued, issued'),
           "parent" \notin DOMAIN data,
           server.channels[c].isSynced => data.isSynced \/ "overwrites" \in DOMAIN data,
           AlikeRows(Merge(server.channels[c], data), ch)
    PROVE  Truly("CHANNEL_UPDATE", c, data, {c}, g, issued')
<1> SUFFICES ASSUME NEW m, Speaks(m, "CHANNEL_UPDATE", c, data, {c})
             PROVE  Truthful(m, server, g, issued, issued')
  BY DEF Truly
<1>1. server \in Guilds /\ c \in Channels /\ server.channels[c] # NoRow
  BY DEF Ground, ChannelsOf
<1>2. Newsworthy(m, server, issued)
  BY DEF Speaks, Newsworthy, Sound, AboutFits
<1>3. Change(server, m) = UpsertChannel(server, c, data)
  BY DEF Speaks, Change
<1>4. PICK new : new = Merge(server.channels[c], data)
  OBVIOUS
<1>5. UpsertChannel(server, c, data) = [server EXCEPT !.channels = [server.channels EXCEPT ![c] = new]]
  BY <1>1, <1>4 DEF UpsertChannel, Guilds
<1>6. Alike([server EXCEPT !.channels = [server.channels EXCEPT ![c] = new]], g)
  BY <1>1, <1>4 DEF Alike, AlikeRows, Guilds
<1> QED
  BY <1>2, <1>3, <1>5, <1>6, ChangeIsTrue DEF Speaks

LEMMA PartsMerged ==
    ASSUME NEW old \in ChannelRow, NEW ch \in ChannelRow, ch.parent = old.parent
    PROVE  /\ AlikeRows(Merge(old, WithOverwrites(ch)), ch)
           /\ ch.isSynced \/ ch.overwrites = old.overwrites => AlikeRows(Merge(old, Bare(ch)), ch)
<1>1. PICK a, b : a = Merge(old, WithOverwrites(ch)) /\ b = Merge(old, Bare(ch))
  OBVIOUS
<1>2. /\ a.name = ch.name /\ a.isSynced = ch.isSynced /\ a.ownerId = ch.ownerId /\ a.parent = old.parent
      /\ a.overwrites = ch.overwrites /\ a \in ChannelRow
  BY <1>1 DEF Merge, WithOverwrites, ChannelRow
<1>3. /\ b.name = ch.name /\ b.isSynced = ch.isSynced /\ b.ownerId = ch.ownerId /\ b.parent = old.parent
      /\ b.overwrites = old.overwrites /\ b \in ChannelRow
  BY <1>1 DEF Merge, Bare, ChannelRow
<1>4. a # NoRow /\ b # NoRow /\ ch # NoRow
  BY <1>2, <1>3, RowAssumption
<1> QED
  BY <1>1, <1>2, <1>3, <1>4 DEF AlikeRows

LEMMA Rewritten ==
    ASSUME NEW s \in Guilds, NEW c \in Channels, NEW ch, NEW g, g = [s EXCEPT !.channels[c] = ch]
    PROVE  /\ g = [s EXCEPT !.channels = [s.channels EXCEPT ![c] = ch]]
           /\ g.members = s.members /\ RolesOf(g) = RolesOf(s)
<1>1. g = [s EXCEPT !.channels = [s.channels EXCEPT ![c] = ch]]
  BY DEF Guilds
<1>2. g.members = s.members /\ g.roles = s.roles
  BY DEF Guilds
<1> QED
  BY <1>1, <1>2 DEF RolesOf

\* What is said of a row that becomes ch: without its overwrites when they are as they were.
Tellable(data, old, ch) ==
    \/ data = WithOverwrites(ch)
    \/ /\ data = Bare(ch) /\ (old.isSynced => ch.isSynced)
       /\ ch.isSynced \/ ch.overwrites = old.overwrites

\* What all requests have that write over a row.
LEMMA RewriteAnswered ==
    ASSUME NEW u \in Users, Asked(u), NEW c \in ChannelsOf(server), NEW ch \in ChannelRow,
           ch.parent = server.channels[c].parent,
           NEW data, Tellable(data, server.channels[c], ch),
           NEW answer, NEW data2, NEW about2,
           Handle(u, [server EXCEPT !.channels[c] = ch], Message("CHANNEL_UPDATE", c, data, {c}),
                  Message(answer, c, data2, about2)),
           issued' = issued,
           NEW g, g = [server EXCEPT !.channels = [server.channels EXCEPT ![c] = ch]],
           Ground(server, g, issued, issued') =>
               /\ Reply(Message(answer, c, data2, about2)) \in Messages
               /\ Truly(answer, c, data2, about2, g, issued'),
           answer \notin {"LEFT", "MEMBER_LEAVE", "GUILD_UPDATE"},
           answer = "OVERWRITE" => c \in ChannelsOf(view[u]) /\ view[u].channels[c].parent \in about2
    PROVE  Answered(u)
<1>1. server \in Guilds /\ c \in Channels /\ server.channels[c] \in ChannelRow
  BY ServerRow DEF Asked, Typed
<1>2. /\ g = [server EXCEPT !.channels[c] = ch] /\ g.members = server.members /\ RolesOf(g) = RolesOf(server)
  BY <1>1, Rewritten
<1>3. PICK em, rm : em = Message("CHANNEL_UPDATE", c, data, {c}) /\ rm = Message(answer, c, data2, about2)
  OBVIOUS
<1>4. Handle(u, g, em, rm)
  BY <1>2, <1>3
<1>5. Ground(server, g, issued, issued')
  BY <1>2, <1>4, Grounds
<1>6. data \in ChannelData /\ "parent" \notin DOMAIN data
  BY PartsOfRow, PartsCarryNothing DEF Tellable
<1>7. server.channels[c].isSynced => data.isSynced \/ "overwrites" \in DOMAIN data
  BY DEF WithOverwrites, Bare, Tellable
<1>8. AlikeRows(Merge(server.channels[c], data), ch)
  BY <1>1, PartsMerged DEF Tellable
<1>9. Truly("CHANNEL_UPDATE", c, data, {c}, g, issued')
  BY <1>5, <1>6, <1>7, <1>8, RowWrittenTruly
<1>10. Event(Message("CHANNEL_UPDATE", c, data, {c})) \in Messages
  BY <1>1, <1>6, ChannelMessageType DEF Subjects
<1>11. /\ Reply(Message(answer, c, data2, about2)) \in Messages
       /\ Truly(answer, c, data2, about2, g, issued')
  BY <1>5
<1>12. RolesOf(g) \subseteq issued' /\ Owner \in server.members /\ c \in issued
  BY <1>2 DEF Asked, InOrder
<1> QED
  BY <1>2, <1>3, <1>4, <1>9, <1>10, <1>11, <1>12, BothAnswered

LEMMA SyncAnswered ==
    ASSUME NEW u \in Users, Asked(u), NEW c \in Channels, Syncs(u, c)
    PROVE  Answered(u)
<1> DEFINE ch == [server.channels[c] EXCEPT !.isSynced = TRUE, !.overwrites = NoOverwrites]
           g == [server EXCEPT !.channels = [server.channels EXCEPT ![c] = ch]]
<1>1. /\ c \in ChannelsOf(server) /\ issued' = issued
      /\ Told(u, [server EXCEPT !.channels[c] = ch], Message("CHANNEL_UPDATE", c, Bare(ch), {c}))
  BY DEF Syncs
<1>2. server.channels[c] \in ChannelRow
  BY <1>1, ServerRow DEF Asked
<1>3. ch \in ChannelRow /\ ch.parent = server.channels[c].parent /\ ch.isSynced
  BY <1>2, BlankType DEF ChannelRow
<1> HIDE DEF ch
<1>4. Bare(ch) \in ChannelData /\ "parent" \notin DOMAIN Bare(ch) /\ Bare(ch).isSynced
      /\ AlikeRows(Merge(server.channels[c], Bare(ch)), ch)
  <2>1. Bare(ch) \in ChannelData /\ AlikeRows(Merge(server.channels[c], Bare(ch)), ch)
    BY <1>2, <1>3, PartsOfRow, PartsMerged
  <2>2. Bare(ch).isSynced
    BY <1>3 DEF Bare
  <2> QED
    BY <2>1, <2>2, PartsCarryNothing
<1>5. Ground(server, g, issued, issued') => Truly("CHANNEL_UPDATE", c, Bare(ch), {c}, g, issued')
  BY <1>1, <1>3, <1>4, RowWrittenTruly
<1>6. Reply(Message("CHANNEL_UPDATE", c, Bare(ch), {c})) \in Messages
  BY <1>4, ChannelMessageType DEF Subjects
<1>7. Handle(u, [server EXCEPT !.channels[c] = ch], Message("CHANNEL_UPDATE", c, Bare(ch), {c}),
             Message("CHANNEL_UPDATE", c, Bare(ch), {c}))
  BY <1>1 DEF Told
<1>8. g = [server EXCEPT !.channels = [server.channels EXCEPT ![c] = ch]]
  OBVIOUS
<1> HIDE DEF g
<1>9. Ground(server, g, issued, issued') =>
          /\ Reply(Message("CHANNEL_UPDATE", c, Bare(ch), {c})) \in Messages
          /\ Truly("CHANNEL_UPDATE", c, Bare(ch), {c}, g, issued')
  BY <1>5, <1>6
<1>10. Tellable(Bare(ch), server.channels[c], ch)
  BY <1>3 DEF Tellable
<1> QED
  BY <1>1, <1>3, <1>7, <1>8, <1>9, <1>10, RewriteAnswered

LEMMA RenameAnswered ==
    ASSUME NEW u \in Users, Asked(u), NEW c \in Channels, NEW n \in Names, Renames(u, c, n)
    PROVE  Answered(u)
<1> DEFINE ch == [server.channels[c] EXCEPT !.name = n]
           answer == [view[u].channels[c] EXCEPT !.name = n]
           g == [server EXCEPT !.channels = [server.channels EXCEPT ![c] = ch]]
<1>1. /\ c \in ChannelsOf(server) \cap ChannelsOf(view[u]) /\ issued' = issued
      /\ Handle(u, [server EXCEPT !.channels[c] = ch], Message("CHANNEL_UPDATE", c, Bare(ch), {c}),
                Message("RENAMED", c, answer, {c}))
  BY DEF Renames
<1>2. server.channels[c] \in ChannelRow
  BY <1>1, ServerRow DEF Asked
<1>3. /\ ch \in ChannelRow /\ ch.parent = server.channels[c].parent /\ ch.isSynced = server.channels[c].isSynced
      /\ ch.overwrites = server.channels[c].overwrites
  BY <1>2 DEF ChannelRow
<1>4. answer \in ChannelRow /\ answer.name = n
  BY <1>1, ViewRow DEF Asked, ChannelRow
<1>5. Reply(Message("RENAMED", c, answer, {c})) \in Messages
  BY <1>4, RenameMessageType DEF Subjects
<1>6. ASSUME Ground(server, g, issued, issued') PROVE Truly("RENAMED", c, answer, {c}, g, issued')
  <2> SUFFICES ASSUME NEW m, Speaks(m, "RENAMED", c, answer, {c})
               PROVE  Truthful(m, server, g, issued, issued')
    BY DEF Truly
  <2>1. Newsworthy(m, server, issued)
    BY DEF Speaks, Newsworthy, AboutFits, Sound
  <2>2. m.type = "RENAMED" /\ m.id = c /\ m.data.name = n
    BY <1>4 DEF Speaks
  <2> QED
    BY <1>1, <1>6, <2>1, <2>2, RenameIsTrue
<1>7. g = [server EXCEPT !.channels = [server.channels EXCEPT ![c] = ch]]
  OBVIOUS
<1> HIDE DEF ch, answer, g
<1>8. Ground(server, g, issued, issued') =>
          /\ Reply(Message("RENAMED", c, answer, {c})) \in Messages
          /\ Truly("RENAMED", c, answer, {c}, g, issued')
  BY <1>5, <1>6
<1>9. Tellable(Bare(ch), server.channels[c], ch) /\ c \in ChannelsOf(server)
  BY <1>1, <1>3 DEF Tellable
<1>10. "RENAMED" \notin {"LEFT", "MEMBER_LEAVE", "GUILD_UPDATE"} /\ "RENAMED" # "OVERWRITE"
  OBVIOUS
<1> QED
  BY <1>1, <1>3, <1>7, <1>8, <1>9, <1>10, RewriteAnswered, Zenon

\* What a client makes of a channel with the answer to a saved overwrite, the server has made.
LEMMA MergedIsOverwritten ==
    ASSUME Typed, NEW c \in ChannelsOf(server), NEW row \in Overwrites
    PROVE  /\ MergeOverwrite(server, c, row) =
                [server EXCEPT !.channels = [server.channels EXCEPT ![c] = Overwritten(c, row)]]
           /\ Overwritten(c, row).parent = server.channels[c].parent
<1>1. PICK ch \in ChannelRow : ch = server.channels[c]
  BY ServerRow
<1>2. server \in Guilds /\ c \in Channels /\ ch # NoRow
  BY <1>1, ServerRow, RowAssumption DEF Typed
<1>3. Fitting(c, ch)
  BY <1>1, ServerFits
<1>4. At(server)!Follows(c) <=> ch.isSynced /\ ch.parent # NoParent
  BY <1>1 DEF At!Follows
<1>5. CASE ~(ch.isSynced /\ ch.parent # NoParent)
  <2>1. PICK w : w = At(server)!Upsert(ch.overwrites, row)
    OBVIOUS
  <2>2. Overwritten(c, row) = [ch EXCEPT !.isSynced = ch.isSynced /\ ~At(server)!Follows(c), !.overwrites = w]
    BY <1>1, <1>4, <1>5, <2>1 DEF Overwritten
  <2>3. PICK b \in BOOLEAN : b = (ch.isSynced /\ ~At(server)!Follows(c)) /\ b = ch.isSynced
    <3>1. ch.isSynced \in BOOLEAN
      BY DEF ChannelRow
    <3> QED
      BY <1>4, <1>5, <3>1
  <2>4. Overwritten(c, row) = [ch EXCEPT !.isSynced = b, !.overwrites = w]
    BY <2>2, <2>3
  <2>5. [ch EXCEPT !.isSynced = b, !.overwrites = w] = [ch EXCEPT !.overwrites = w]
    BY <2>3 DEF ChannelRow
  <2>6. MergeOverwrite(server, c, row) = [server EXCEPT !.channels = [server.channels EXCEPT
              ![c] = [ch EXCEPT !.overwrites = w]]]
    BY <1>1, <1>2, <1>5, <2>1 DEF MergeOverwrite, Guilds
  <2>7. [ch EXCEPT !.overwrites = w].parent = ch.parent
    BY DEF ChannelRow
  <2> QED
    BY <1>1, <2>4, <2>5, <2>6, <2>7
<1>6. CASE ch.isSynced /\ ch.parent # NoParent
  <2>1. ch.parent \in ChannelsOf(server) /\ ch.overwrites = NoOverwrites
    BY <1>3, <1>6 DEF Fitting
  <2>2. PICK p \in ChannelRow : p = server.channels[ch.parent]
    BY <2>1, ServerRow
  <2>3. At(server)!Upsert(NoOverwrites, p.overwrites) = p.overwrites
    <3>1. PICK rows \in Overwrites : rows = p.overwrites
      BY DEF ChannelRow
    <3>2. At(server)!Upsert(NoOverwrites, rows) = [t \in Target |-> IF rows[t] # NoRow THEN rows[t] ELSE NoOverwrites[t]]
      BY DEF At!Upsert, At!Target, Target
    <3>3. \A t \in Target : NoOverwrites[t] = NoRow
      BY DEF NoOverwrites
    <3>4. rows = [t \in Target |-> IF rows[t] # NoRow THEN rows[t] ELSE NoOverwrites[t]]
      BY <3>1, <3>3 DEF Overwrites
    <3> QED
      BY <3>1, <3>2, <3>4
  <2>4. PICK w : w = At(server)!Upsert(p.overwrites, row)
    OBVIOUS
  <2>5. Overwritten(c, row) = [ch EXCEPT !.isSynced = ch.isSynced /\ ~At(server)!Follows(c), !.overwrites = w]
    BY <1>1, <1>4, <1>6, <2>1, <2>2, <2>3, <2>4 DEF Overwritten
  <2>6. PICK b \in BOOLEAN : b = (ch.isSynced /\ ~At(server)!Follows(c)) /\ b = FALSE
    BY <1>4, <1>6
  <2>7. Overwritten(c, row) = [ch EXCEPT !.isSynced = b, !.overwrites = w]
    BY <2>5, <2>6
  <2>8. MergeOverwrite(server, c, row) = [server EXCEPT !.channels = [server.channels EXCEPT
              ![c] = [ch EXCEPT !.isSynced = FALSE, !.overwrites = w]]]
    BY <1>1, <1>2, <1>6, <2>1, <2>2, <2>4 DEF MergeOverwrite, Guilds
  <2>9. [ch EXCEPT !.isSynced = FALSE, !.overwrites = w] = [ch EXCEPT !.isSynced = b, !.overwrites = w]
    BY <2>6, Zenon
  <2>10. [ch EXCEPT !.isSynced = b, !.overwrites = w].parent = ch.parent
    BY DEF ChannelRow
  <2> QED
    BY <1>1, <2>7, <2>8, <2>9, <2>10
<1> QED
  BY <1>5, <1>6

LEMMA OverwriteAnswered ==
    ASSUME NEW u \in Users, Asked(u), NEW c \in Channels, NEW row \in Overwrites, SetsOverwrite(u, c, row)
    PROVE  Answered(u)
<1>1. PICK ch : ch = Overwritten(c, row)
  OBVIOUS
<1>2. PICK about : about = {c, view[u].channels[c].parent}
  OBVIOUS
<1>3. /\ c \in ChannelsOf(server) /\ c \in ChannelsOf(view[u]) /\ issued' = issued
      /\ Handle(u, [server EXCEPT !.channels[c] = ch], Message("CHANNEL_UPDATE", c, WithOverwrites(ch), {c}),
                Message("OVERWRITE", c, row, about))
  BY <1>1, <1>2 DEF SetsOverwrite
<1>4. ch \in ChannelRow /\ ch.parent = server.channels[c].parent
  BY <1>1, <1>3, OverwrittenType, MergedIsOverwritten DEF Asked
<1>5. about \in SUBSET Subjects /\ c \in about /\ view[u].channels[c].parent \in about
  <2>1. view[u].channels[c] \in ChannelRow
    BY <1>3, ViewRow DEF Asked
  <2>2. view[u].channels[c].parent \in Channels \cup {NoParent}
    BY <2>1, EditorsAssumption DEF ChannelRow
  <2> QED
    BY <1>2, <2>2 DEF Subjects
<1>6. Reply(Message("OVERWRITE", c, row, about)) \in Messages
  BY <1>5, OverwriteMessageType
<1>7. PICK g : g = [server EXCEPT !.channels = [server.channels EXCEPT ![c] = ch]]
  OBVIOUS
<1>8. ASSUME Ground(server, g, issued, issued') PROVE Truly("OVERWRITE", c, row, about, g, issued')
  <2> SUFFICES ASSUME NEW m, Speaks(m, "OVERWRITE", c, row, about)
               PROVE  Truthful(m, server, g, issued, issued')
    BY DEF Truly
  <2>1. Newsworthy(m, server, issued)
    BY <1>5 DEF Speaks, Newsworthy, AboutFits, Sound
  <2>2. Change(server, m) = MergeOverwrite(server, c, row)
    BY DEF Speaks, Change
  <2>3. MergeOverwrite(server, c, row) = g
    BY <1>1, <1>3, <1>7, MergedIsOverwritten DEF Asked
  <2>4. Alike(Change(server, m), g)
    BY <2>2, <2>3, SameAlike
  <2> QED
    BY <1>8, <2>1, <2>4, ChangeIsTrue DEF Speaks
<1>9. Ground(server, g, issued, issued') =>
          /\ Reply(Message("OVERWRITE", c, row, about)) \in Messages
          /\ Truly("OVERWRITE", c, row, about, g, issued')
  BY <1>6, <1>8
<1>10. Tellable(WithOverwrites(ch), server.channels[c], ch)
  BY DEF Tellable
<1>11. "OVERWRITE" \notin {"LEFT", "MEMBER_LEAVE", "GUILD_UPDATE"}
  OBVIOUS
<1> QED
  BY <1>3, <1>4, <1>5, <1>7, <1>9, <1>10, <1>11, RewriteAnswered, Zenon

LEMMA DropAnswered ==
    ASSUME NEW u \in Users, Asked(u), NEW c \in Channels, NEW t \in Target, DropsOverwrite(u, c, t)
    PROVE  Answered(u)
<1>1. PICK ch : ch = [server.channels[c] EXCEPT !.overwrites[t] = NoRow]
  OBVIOUS
<1>2. /\ c \in ChannelsOf(server) /\ issued' = issued
      /\ Handle(u, [server EXCEPT !.channels[c] = ch], Message("CHANNEL_UPDATE", c, WithOverwrites(ch), {c}),
                Message("OVERWRITE_DELETE", c, t, {c}))
  BY <1>1 DEF DropsOverwrite
<1>3. PICK old \in ChannelRow : old = server.channels[c] /\ server \in Guilds
  BY <1>2, ServerRow DEF Asked, Typed
<1>4. PICK ows \in Overwrites : ows = [old.overwrites EXCEPT ![t] = NoRow]
  BY DEF ChannelRow, Overwrites
<1>5. ch = [old EXCEPT !.overwrites = ows]
  BY <1>1, <1>3, <1>4 DEF ChannelRow
<1>6. ch \in ChannelRow /\ ch.parent = server.channels[c].parent
  BY <1>3, <1>5 DEF ChannelRow
<1>7. Reply(Message("OVERWRITE_DELETE", c, t, {c})) \in Messages
  BY OverwriteGoneMessageType DEF Subjects
<1>8. PICK g : g = [server EXCEPT !.channels = [server.channels EXCEPT ![c] = ch]]
  OBVIOUS
<1>9. ASSUME Ground(server, g, issued, issued') PROVE Truly("OVERWRITE_DELETE", c, t, {c}, g, issued')
  <2> SUFFICES ASSUME NEW m, Speaks(m, "OVERWRITE_DELETE", c, t, {c})
               PROVE  Truthful(m, server, g, issued, issued')
    BY DEF Truly
  <2>1. Newsworthy(m, server, issued)
    BY DEF Speaks, Newsworthy, AboutFits, Sound
  <2>2. Change(server, m) = DropOverwrite(server, c, t)
    BY DEF Speaks, Change
  <2>3. DropOverwrite(server, c, t) = g
    BY <1>1, <1>2, <1>3, <1>8 DEF DropOverwrite, ChannelsOf, Guilds
  <2>4. Alike(Change(server, m), g)
    BY <2>2, <2>3, SameAlike
  <2> QED
    BY <1>9, <2>1, <2>4, ChangeIsTrue DEF Speaks
<1>10. Ground(server, g, issued, issued') =>
          /\ Reply(Message("OVERWRITE_DELETE", c, t, {c})) \in Messages
          /\ Truly("OVERWRITE_DELETE", c, t, {c}, g, issued')
  BY <1>7, <1>9
<1>11. Tellable(WithOverwrites(ch), server.channels[c], ch)
  BY DEF Tellable
<1>12. "OVERWRITE_DELETE" \notin {"LEFT", "MEMBER_LEAVE", "GUILD_UPDATE"} /\ "OVERWRITE_DELETE" # "OVERWRITE"
  OBVIOUS
<1> QED
  BY <1>2, <1>6, <1>8, <1>10, <1>11, <1>12, RewriteAnswered, Zenon

LEMMA CreateAnswered ==
    ASSUME NEW u \in Users, Asked(u), NEW c \in Channels, NEW ch \in ChannelRow, Creates(u, c, ch)
    PROVE  Answered(u)
<1>1. PICK g, about : g = [server EXCEPT !.channels[c] = ch] /\ about = {c, ch.parent}
  OBVIOUS
<1>2. /\ c \notin issued /\ issued' = issued \cup {c}
      /\ ch.parent # NoParent => ch.parent \in ChannelsOf(server)
      /\ Told(u, g, Message("CHANNEL_UPDATE", c, ch, about))
  BY <1>1 DEF Creates
<1>3. server \in Guilds /\ c \notin ChannelsOf(server) /\ server.channels[c] = NoRow
  BY <1>2 DEF Asked, Typed, InOrder, ChannelsOf
<1>4. /\ g = [server EXCEPT !.channels = [server.channels EXCEPT ![c] = ch]]
      /\ g.members = server.members /\ RolesOf(g) = RolesOf(server)
  BY <1>1, <1>3, Rewritten
<1>5. Ground(server, g, issued, issued')
  BY <1>2, <1>4, Grounds DEF Told
<1>6. Truly("CHANNEL_UPDATE", c, ch, about, g, issued')
  <2> SUFFICES ASSUME NEW m, Speaks(m, "CHANNEL_UPDATE", c, ch, about)
               PROVE  Truthful(m, server, g, issued, issued')
    BY DEF Truly
  <2>1. "parent" \in DOMAIN ch
    BY DEF ChannelRow
  <2>2. Newsworthy(m, server, issued)
    BY <1>1, <1>2, <1>3, <2>1 DEF Speaks, Newsworthy, AboutFits, Sound
  <2>3. Merge(Blank, ch) = ch
    BY BlankType DEF Merge, ChannelRow
  <2>4. Change(server, m) = UpsertChannel(server, c, ch)
    BY DEF Speaks, Change
  <2>5. UpsertChannel(server, c, ch) = g
    BY <1>3, <1>4, <2>3 DEF UpsertChannel, Guilds
  <2> QED
    BY <1>5, <2>2, <2>4, <2>5, SameAlike, ChangeIsTrue DEF Speaks
<1>7. about \in SUBSET Subjects
  BY <1>1, EditorsAssumption DEF ChannelRow, Subjects
<1>8. Reply(Message("CHANNEL_UPDATE", c, ch, about)) \in Messages /\ Event(Message("CHANNEL_UPDATE", c, ch, about)) \in Messages
  BY <1>7, ChannelMessageType, PartsOfRow
<1>9. RolesOf(g) \subseteq issued' /\ Owner \in server.members
  BY <1>2, <1>4 DEF Asked
<1>10. "CHANNEL_UPDATE" \notin {"LEFT", "OVERWRITE", "MEMBER_LEAVE"} /\ "CHANNEL_UPDATE" # "GUILD_UPDATE"
  OBVIOUS
<1> QED
  BY <1>2, <1>4, <1>6, <1>8, <1>9, <1>10, ToldAnswered, Zenon

LEMMA DeleteAnswered ==
    ASSUME NEW u \in Users, Asked(u), NEW c \in Channels, Deletes(u, c)
    PROVE  Answered(u)
<1>1. PICK g : g = WithoutChannel(server, c)
  OBVIOUS
<1>2. issued' = issued /\ Told(u, g, Message("CHANNEL_DELETE", c, NoRow, {c}))
  BY <1>1 DEF Deletes
<1>3. g.members = server.members /\ RolesOf(g) = RolesOf(server)
  BY <1>1 DEF WithoutChannel, RolesOf, Asked, Typed, Guilds
<1>4. Ground(server, g, issued, issued')
  BY <1>2, <1>3, Grounds DEF Told
<1>5. Truly("CHANNEL_DELETE", c, NoRow, {c}, g, issued')
  <2> SUFFICES ASSUME NEW m, Speaks(m, "CHANNEL_DELETE", c, NoRow, {c})
               PROVE  Truthful(m, server, g, issued, issued')
    BY DEF Truly
  <2>1. Newsworthy(m, server, issued)
    BY DEF Speaks, Newsworthy, AboutFits, Sound
  <2>2. Change(server, m) = g
    BY <1>1 DEF Speaks, Change
  <2> QED
    BY <1>4, <2>1, <2>2, SameAlike, ChangeIsTrue DEF Speaks
<1>6. Reply(Message("CHANNEL_DELETE", c, NoRow, {c})) \in Messages /\ Event(Message("CHANNEL_DELETE", c, NoRow, {c})) \in Messages
  BY DeletionMessageType DEF Subjects
<1>7. RolesOf(g) \subseteq issued' /\ Owner \in server.members
  BY <1>2, <1>3 DEF Asked
<1> QED
  BY <1>2, <1>3, <1>5, <1>6, <1>7, ToldAnswered

-----------------------------------------------------------------------------
(* The requests about the guild, its roles and its members *)

LEMMA GuildRenameAnswered ==
    ASSUME NEW u \in Users, Asked(u), NEW n \in Names, RenamesGuild(u, n)
    PROVE  Answered(u)
<1>1. PICK g, about : g = [server EXCEPT !.name = n] /\ about = {"guild"}
  OBVIOUS
<1>2. u = Owner /\ issued' = issued /\ Told(u, g, Message("GUILD_UPDATE", NoRow, n, about))
  BY <1>1 DEF RenamesGuild
<1>3. g.members = server.members /\ RolesOf(g) = RolesOf(server)
  BY <1>1 DEF RolesOf, Asked, Typed, Guilds
<1>4. Ground(server, g, issued, issued')
  BY <1>2, <1>3, Grounds DEF Told
<1>5. Truly("GUILD_UPDATE", NoRow, n, about, g, issued')
  <2> SUFFICES ASSUME NEW m, Speaks(m, "GUILD_UPDATE", NoRow, n, about)
               PROVE  Truthful(m, server, g, issued, issued')
    BY DEF Truly
  <2>1. Newsworthy(m, server, issued)
    BY <1>1 DEF Speaks, Newsworthy, AboutFits, Sound
  <2> QED
    BY <1>1, <1>4, <2>1, NameIsTrue DEF Speaks
<1>6. about \in SUBSET Subjects
  BY <1>1 DEF Subjects
<1>7. Reply(Message("GUILD_UPDATE", NoRow, n, about)) \in Messages /\ Event(Message("GUILD_UPDATE", NoRow, n, about)) \in Messages
  BY <1>6, GuildMessageType
<1>8. RolesOf(g) \subseteq issued' /\ Owner \in server.members
  BY <1>2, <1>3 DEF Asked
<1> QED
  BY <1>2, <1>3, <1>5, <1>7, <1>8, ToldAnswered

LEMMA LeaveAnswered ==
    ASSUME NEW u \in Users, Asked(u), Leaves(u)
    PROVE  Answered(u)
<1>1. PICK g, about : g = RemoveMember(server, u) /\ about = Target \cup Channels \cup {"guild"}
  OBVIOUS
<1>2. /\ u \in server.members \ {Owner} /\ issued' = issued
      /\ Handle(u, g, Message("MEMBER_LEAVE", u, NoRow, {u}), Message("LEFT", u, NoRow, about))
  BY <1>1 DEF Leaves
<1>3. g.members = server.members \ {u} /\ RolesOf(g) = RolesOf(server)
  BY <1>1 DEF RemoveMember, RolesOf, Asked, Typed, Guilds
<1>4. Ground(server, g, issued, issued')
  BY <1>2, <1>3, Grounds
<1>5. Truly("MEMBER_LEAVE", u, NoRow, {u}, g, issued')
  <2> SUFFICES ASSUME NEW m, Speaks(m, "MEMBER_LEAVE", u, NoRow, {u})
               PROVE  Truthful(m, server, g, issued, issued')
    BY DEF Truly
  <2>1. Newsworthy(m, server, issued)
    BY DEF Speaks, Newsworthy, AboutFits, Sound
  <2>2. Change(server, m) = g
    BY <1>1 DEF Speaks, Change
  <2> QED
    BY <1>4, <2>1, <2>2, SameAlike, ChangeIsTrue DEF Speaks
<1>6. about \in SUBSET Subjects /\ "guild" \in about
  BY <1>1 DEF Subjects
<1>7. PICK em, rm : em = Message("MEMBER_LEAVE", u, NoRow, {u}) /\ rm = Message("LEFT", u, NoRow, about)
  OBVIOUS
<1>8. PICK e, r : e = Event(em) /\ r = Reply(rm)
  OBVIOUS
<1>9. e \in Messages /\ r \in Messages
  BY <1>6, <1>7, <1>8, DepartureMessageType, GoodbyeMessageType DEF Subjects, Target
<1>10. Speaks(e, "MEMBER_LEAVE", u, NoRow, {u}) /\ Speaks(r, "LEFT", u, NoRow, about)
  BY <1>7, <1>8, <1>9, MessageSpeaks, Zenon
<1>11. Truthful(e, server, g, issued, issued') /\ e.type \notin {"LEFT", "OVERWRITE"}
  BY <1>5, <1>10 DEF Truly, Speaks
<1>12. Departed(u, g, e, r)
  BY <1>2, <1>3, <1>6, <1>10 DEF Departed, Speaks, AboutFits
<1>13. RolesOf(g) \subseteq issued' /\ Owner \in g.members /\ Handle(u, g, em, rm)
  BY <1>2, <1>3, <1>7 DEF Asked
<1> QED
  BY <1>8, <1>11, <1>12, <1>13 DEF Answered

LEMMA SaveRoleAnswered ==
    ASSUME NEW u \in Users, Asked(u), NEW r \in Roles, NEW row \in RoleRow, SavesRole(u, r, row)
    PROVE  Answered(u)
<1>1. PICK g : g = UpsertRole(server, r, row)
  OBVIOUS
<1>2. r \in RolesOf(server) /\ issued' = issued /\ Told(u, g, Message("ROLE_UPDATE", r, row, {r}))
  BY <1>1 DEF SavesRole
<1>3. g.members = server.members /\ RolesOf(g) \subseteq RolesOf(server)
  BY <1>1, <1>2 DEF UpsertRole, RolesOf, Asked, Typed, Guilds
<1>4. Ground(server, g, issued, issued')
  BY <1>2, <1>3, Grounds DEF Told
<1>5. Truly("ROLE_UPDATE", r, row, {r}, g, issued')
  <2> SUFFICES ASSUME NEW m, Speaks(m, "ROLE_UPDATE", r, row, {r})
               PROVE  Truthful(m, server, g, issued, issued')
    BY DEF Truly
  <2>1. Newsworthy(m, server, issued)
    BY <1>2 DEF Speaks, Newsworthy, AboutFits, Sound
  <2>2. Change(server, m) = g
    BY <1>1 DEF Speaks, Change
  <2> QED
    BY <1>4, <2>1, <2>2, SameAlike, ChangeIsTrue DEF Speaks
<1>6. /\ Reply(Message("ROLE_UPDATE", r, row, {r})) \in Messages
      /\ Event(Message("ROLE_UPDATE", r, row, {r})) \in Messages
  BY RoleMessageType DEF Subjects, Target
<1>7. RolesOf(g) \subseteq issued' /\ Owner \in server.members
  BY <1>2, <1>3 DEF Asked
<1>8. "ROLE_UPDATE" \notin {"LEFT", "OVERWRITE", "MEMBER_LEAVE"} /\ "ROLE_UPDATE" # "GUILD_UPDATE"
  OBVIOUS
<1> QED
  BY <1>2, <1>3, <1>5, <1>6, <1>7, <1>8, ToldAnswered, Zenon

LEMMA DeleteRoleAnswered ==
    ASSUME NEW u \in Users, Asked(u), NEW r \in Roles, DeletesRole(u, r)
    PROVE  Answered(u)
<1>1. PICK g : g = RemoveRole(server, r)
  OBVIOUS
<1>2. issued' = issued /\ Told(u, g, Message("ROLE_DELETE", r, NoRow, {r}))
  BY <1>1 DEF DeletesRole
<1>3. g.members = server.members /\ RolesOf(g) \subseteq RolesOf(server)
  BY <1>1 DEF RemoveRole, RolesOf, Asked, Typed, Guilds
<1>4. Ground(server, g, issued, issued')
  BY <1>2, <1>3, Grounds DEF Told
<1>5. Truly("ROLE_DELETE", r, NoRow, {r}, g, issued')
  <2> SUFFICES ASSUME NEW m, Speaks(m, "ROLE_DELETE", r, NoRow, {r})
               PROVE  Truthful(m, server, g, issued, issued')
    BY DEF Truly
  <2>1. Newsworthy(m, server, issued)
    BY DEF Speaks, Newsworthy, AboutFits, Sound
  <2>2. Change(server, m) = g
    BY <1>1 DEF Speaks, Change
  <2> QED
    BY <1>4, <2>1, <2>2, SameAlike, ChangeIsTrue DEF Speaks
<1>6. /\ Reply(Message("ROLE_DELETE", r, NoRow, {r})) \in Messages
      /\ Event(Message("ROLE_DELETE", r, NoRow, {r})) \in Messages
  BY RoleGoneMessageType DEF Subjects, Target
<1>7. RolesOf(g) \subseteq issued' /\ Owner \in server.members
  BY <1>2, <1>3 DEF Asked
<1>8. "ROLE_DELETE" \notin {"LEFT", "OVERWRITE", "MEMBER_LEAVE"} /\ "ROLE_DELETE" # "GUILD_UPDATE"
  OBVIOUS
<1> QED
  BY <1>2, <1>3, <1>5, <1>6, <1>7, <1>8, ToldAnswered, Zenon

\* The roles that made room for a new one are where no client looks for them.
LEMMA RoleAddedAlike ==
    ASSUME NEW s \in Guilds, NEW g \in Guilds, NEW r \in Roles, NEW row \in RoleRow,
           g = [s EXCEPT !.roles = g.roles], g.roles[r] = row, Moved(s, g, r)
    PROVE  Alike(UpsertRole(s, r, row), g) /\ g.members = s.members /\ RolesOf(g) \subseteq RolesOf(s) \cup {r}
<1>1. PICK new : new = UpsertRole(s, r, row)
  OBVIOUS
<1>2. /\ new.name = s.name /\ new.members = s.members /\ new.memberRoles = s.memberRoles
      /\ new.channels = s.channels /\ new.roles[r] = row
      /\ \A q \in Roles \ {r} : new.roles[q] = s.roles[q]
  BY <1>1 DEF UpsertRole, Guilds
<1>3. /\ g.name = s.name /\ g.members = s.members /\ g.memberRoles = s.memberRoles /\ g.channels = s.channels
  BY DEF Guilds
<1>4. ASSUME NEW q \in Roles \ {r}
      PROVE  KnownRole(new.roles[q]) = KnownRole(g.roles[q]) /\ (s.roles[q] = NoRow => g.roles[q] = NoRow)
  <2>1. CASE s.roles[q] = NoRow
    BY <1>2, <2>1 DEF Moved
  <2>2. CASE s.roles[q] # NoRow
    <3>1. PICK n \in Nat : g.roles[q] = [s.roles[q] EXCEPT !.position = n]
      BY <2>2 DEF Moved
    <3>2. PICK old \in RoleRow : old = s.roles[q]
      BY <2>2 DEF Guilds
    <3>3. PICK moved : moved = [old EXCEPT !.position = n]
      OBVIOUS
    <3>4. moved \in RoleRow /\ [moved EXCEPT !.position = 0] = [old EXCEPT !.position = 0]
      BY <3>3 DEF RoleRow
    <3>5. moved # NoRow
      BY <3>4, RowAssumption
    <3> QED
      BY <1>2, <2>2, <3>1, <3>2, <3>3, <3>4, <3>5 DEF KnownRole
  <2> QED
    BY <2>1, <2>2
<1>5. \A q \in Roles : KnownRole(new.roles[q]) = KnownRole(g.roles[q])
  BY <1>2, <1>4
<1>6. RolesOf(g) \subseteq RolesOf(s) \cup {r}
  BY <1>4 DEF RolesOf
<1> QED
  BY <1>1, <1>2, <1>3, <1>5, <1>6 DEF Alike, AlikeRows

LEMMA CreateRoleAnswered ==
    ASSUME NEW u \in Users, Asked(u), NEW r \in Roles, NEW row \in RoleRow, NEW g, CreatesRole(u, r, row, g)
    PROVE  Answered(u)
<1>1. /\ r \notin issued /\ issued' = issued \cup {r}
      /\ g \in Guilds /\ g = [server EXCEPT !.roles = g.roles] /\ g.roles[r] = row /\ Moved(server, g, r)
      /\ Handle(u, g, Message("ROLE_UPDATE", r, row, {r}), Message("ROLE_CREATED", r, row, {r}))
  BY DEF CreatesRole
<1>2. server \in Guilds
  BY DEF Asked, Typed
<1>3. /\ Alike(UpsertRole(server, r, row), g)
      /\ g.members = server.members /\ RolesOf(g) \subseteq RolesOf(server) \cup {r}
  BY <1>1, <1>2, RoleAddedAlike
<1>4. Ground(server, g, issued, issued')
  BY <1>1, <1>3, Grounds
<1>5. ASSUME NEW type \in {"ROLE_UPDATE", "ROLE_CREATED"} PROVE Truly(type, r, row, {r}, g, issued')
  <2> SUFFICES ASSUME NEW m, Speaks(m, type, r, row, {r})
               PROVE  Truthful(m, server, g, issued, issued')
    BY DEF Truly
  <2>1. Newsworthy(m, server, issued)
    BY <1>1 DEF Speaks, Newsworthy, AboutFits, Sound
  <2>2. Change(server, m) = UpsertRole(server, r, row)
    BY DEF Speaks, Change
  <2> QED
    BY <1>3, <1>4, <2>1, <2>2, ChangeIsTrue DEF Speaks
<1>6. /\ Reply(Message("ROLE_CREATED", r, row, {r})) \in Messages
      /\ Event(Message("ROLE_UPDATE", r, row, {r})) \in Messages
  BY RoleMessageType, NewRoleMessageType DEF Subjects, Target
<1>7. RolesOf(g) \subseteq issued' /\ Owner \in server.members
  BY <1>1, <1>3 DEF Asked
<1>8. /\ "ROLE_UPDATE" \notin {"LEFT", "OVERWRITE", "MEMBER_LEAVE"}
      /\ "ROLE_CREATED" \notin {"LEFT", "MEMBER_LEAVE"} /\ "ROLE_CREATED" # "GUILD_UPDATE"
      /\ "ROLE_CREATED" # "OVERWRITE"
  OBVIOUS
<1>9. Truly("ROLE_UPDATE", r, row, {r}, g, issued') /\ Truly("ROLE_CREATED", r, row, {r}, g, issued')
  BY <1>5
<1> QED
  BY <1>1, <1>3, <1>6, <1>7, <1>8, <1>9, BothAnswered, Zenon

LEMMA SetMembersAnswered ==
    ASSUME NEW u \in Users, Asked(u), NEW data \in MemberData, SetsMembers(u, data)
    PROVE  Answered(u)
<1>1. PICK g, about : /\ g = UpsertMembers(server, data)
                      /\ about = DOMAIN data \cup UNION {data[v] : v \in DOMAIN data}
  OBVIOUS
<1>2. /\ issued' = issued /\ DOMAIN data \subseteq server.members
      /\ \A v \in DOMAIN data : data[v] \subseteq RolesOf(server)
      /\ Told(u, g, Message("MEMBERS_UPDATE", NoRow, data, about))
  BY <1>1 DEF SetsMembers
<1>3. g.members = server.members /\ RolesOf(g) = RolesOf(server)
  BY <1>1, <1>2 DEF UpsertMembers, RolesOf, Asked, Typed, Guilds
<1>4. Ground(server, g, issued, issued')
  BY <1>2, <1>3, Grounds DEF Told
<1>5. Truly("MEMBERS_UPDATE", NoRow, data, about, g, issued')
  <2> SUFFICES ASSUME NEW m, Speaks(m, "MEMBERS_UPDATE", NoRow, data, about)
               PROVE  Truthful(m, server, g, issued, issued')
    BY DEF Truly
  <2>1. DOMAIN data \subseteq about /\ \A v \in DOMAIN data : data[v] \subseteq about
    BY <1>1
  <2>2. Newsworthy(m, server, issued)
    BY <1>2, <2>1 DEF Speaks, Newsworthy, AboutFits, Sound
  <2>3. Change(server, m) = g
    BY <1>1 DEF Speaks, Change
  <2> QED
    BY <1>4, <2>2, <2>3, SameAlike, ChangeIsTrue DEF Speaks
<1>6. about \in SUBSET Subjects
  <2>1. PICK D \in SUBSET Users : data \in [D -> SUBSET Roles]
    BY DEF MemberData
  <2> QED
    BY <1>1, <2>1 DEF Subjects, Target
<1>7. /\ Reply(Message("MEMBERS_UPDATE", NoRow, data, about)) \in Messages
      /\ Event(Message("MEMBERS_UPDATE", NoRow, data, about)) \in Messages
  BY <1>6, MembersMessageType
<1>8. RolesOf(g) \subseteq issued' /\ Owner \in server.members
  BY <1>2, <1>3 DEF Asked
<1>9. "MEMBERS_UPDATE" \notin {"LEFT", "OVERWRITE", "MEMBER_LEAVE"} /\ "MEMBERS_UPDATE" # "GUILD_UPDATE"
  OBVIOUS
<1> QED
  BY <1>2, <1>3, <1>5, <1>7, <1>8, <1>9, ToldAnswered, Zenon

LEMMA AsksAnswered ==
    ASSUME NEW u \in Users, Asked(u), Asks(u)
    PROVE  Answered(u)
BY CreateAnswered, DeleteAnswered, SyncAnswered, RenameAnswered, OverwriteAnswered, DropAnswered,
   GuildRenameAnswered, LeaveAnswered, SaveRoleAnswered, CreateRoleAnswered, DeleteRoleAnswered,
   SetMembersAnswered DEF Asks

-----------------------------------------------------------------------------
(* Every step keeps clients settling *)

LEMMA AnsweredFollows ==
    ASSUME Typed, Typed', NEW u \in Users, Answered(u), NEW v \in Users,
           Follows(v, view[v], inbox[v], server, issued)
    PROVE  Follows(v, view[v], inbox'[v], server', issued')
<1>1. PICK g, event, reply :
        /\ Handle(u, g, event, reply) /\ Owner \in g.members /\ RolesOf(g) \subseteq issued'
        /\ Truthful(Event(event), server, g, issued, issued')
        /\ Event(event).type \notin {"LEFT", "OVERWRITE"}
        /\ \/ Remained(u, g, Reply(reply), issued') /\ Event(event).type # "MEMBER_LEAVE"
           \/ Departed(u, g, Event(event), Reply(reply))
  BY DEF Answered
<1>2. PICK e, r : e = Event(event) /\ r = Reply(reply)
  OBVIOUS
<1>3. /\ server' = g
      /\ inbox'[v] = IF v = u THEN Append(inbox[v], r)
                     ELSE IF v \in server.members THEN Append(inbox[v], e) ELSE inbox[v]
  BY <1>1, <1>2 DEF Handle
<1>4. /\ Truthful(e, server, g, issued, issued') /\ e.type \notin {"LEFT", "OVERWRITE"}
      /\ \/ Remained(u, g, r, issued') /\ e.type # "MEMBER_LEAVE"
         \/ Departed(u, g, e, r)
  BY <1>1, <1>2
<1>5. server \in Guilds /\ g \in Guilds /\ view[v] \in Guilds /\ inbox[v] \in Seq(Messages)
  <2>1. server \in Guilds /\ view[v] \in Guilds /\ inbox[v] \in Seq(Messages)
    BY DEF Typed
  <2>2. g \in Guilds
    BY <1>3 DEF Typed
  <2> QED
    BY <2>1, <2>2
<1>6. CASE v # u /\ v \in server.members
  <2>1. Settled(v, view[v], inbox[v], server, issued)
    BY <1>6 DEF Follows
  <2>2. e.type = "MEMBER_LEAVE" => e.id # v
    BY <1>4, <1>6 DEF Departed
  <2>3. Aimed(e, view[v], issued)
    BY <1>4 DEF Aimed
  <2>4. Settled(v, view[v], Append(inbox[v], e), g, issued')
    BY <1>4, <1>5, <2>1, <2>2, <2>3, AppendSettled
  <2>5. v \in g.members
    BY <1>4, <1>6 DEF Remained, Departed
  <2> QED
    BY <1>3, <1>6, <2>4, <2>5 DEF Follows
<1>7. CASE v # u /\ v \notin server.members
  <2>1. v \notin g.members
    BY <1>4, <1>7 DEF Remained, Departed
  <2> QED
    BY <1>3, <1>7, <2>1 DEF Follows
<1>8. CASE v = u /\ Departed(u, g, e, r)
  <2>1. Gone(view[v], Append(inbox[v], r))
    BY <1>5, <1>8, AppendGone DEF Departed
  <2>2. v \notin g.members
    BY <1>8 DEF Departed
  <2> QED
    BY <1>3, <1>8, <2>1, <2>2 DEF Follows
<1>9. CASE v = u /\ Remained(u, g, r, issued') /\ v \in server.members
  <2>1. Settled(v, view[v], inbox[v], server, issued)
    BY <1>9 DEF Follows
  <2>2. /\ Truthful(r, server, g, issued, issued') /\ Aimed(r, view[v], issued)
        /\ r.type # "LEFT" /\ r.type # "MEMBER_LEAVE" /\ v \in g.members
    BY <1>9 DEF Remained
  <2>3. Settled(v, view[v], Append(inbox[v], r), g, issued')
    BY <1>5, <2>1, <2>2, AppendSettled
  <2> QED
    BY <1>3, <1>9, <2>2, <2>3 DEF Follows
<1>10. CASE v = u /\ Remained(u, g, r, issued') /\ v \notin server.members
  <2>1. r \in Messages /\ r.type # "GUILD_UPDATE" /\ v \notin g.members
    BY <1>10 DEF Remained, Truthful
  <2>2. Gone(view[v], Append(inbox[v], r))
    BY <1>5, <1>10, <2>1, AppendGone DEF Follows
  <2> QED
    BY <1>3, <1>10, <2>1, <2>2 DEF Follows
<1> QED
  BY <1>4, <1>6, <1>7, <1>8, <1>9, <1>10

LEMMA AnsweredSettling ==
    ASSUME Typed, Typed', Settling, NEW u \in Users, Answered(u)
    PROVE  Settling'
<1>1. PICK g, event, reply :
        /\ Handle(u, g, event, reply) /\ Owner \in g.members /\ RolesOf(g) \subseteq issued'
        /\ Truthful(Event(event), server, g, issued, issued')
        /\ Event(event).type \notin {"LEFT", "OVERWRITE"}
        /\ \/ Remained(u, g, Reply(reply), issued') /\ Event(event).type # "MEMBER_LEAVE"
           \/ Departed(u, g, Event(event), Reply(reply))
  BY DEF Answered
<1>2. PICK e, r : e = Event(event) /\ r = Reply(reply)
  OBVIOUS
<1>3. /\ server' = g /\ view' = view /\ raced' = raced /\ private' = private
      /\ \A v \in Users : inbox'[v] = IF v = u THEN Append(inbox[v], r)
                                     ELSE IF v \in server.members THEN Append(inbox[v], e) ELSE inbox[v]
  BY <1>1, <1>2 DEF Handle
<1>4. AboutFits(e) /\ AboutFits(r)
  BY <1>1, <1>2 DEF Truthful, Remained, Departed
<1>5. Owner \in server'.members /\ RolesOf(server)' \subseteq issued'
  BY <1>1, <1>3 DEF RolesOf
<1>6. ASSUME NEW v \in Users, NEW i \in DOMAIN inbox'[v] PROVE AboutFits(inbox'[v][i])
  <2>1. inbox[v] \in Seq(Messages) /\ \A j \in DOMAIN inbox[v] : AboutFits(inbox[v][j])
    BY DEF Typed, Settling
  <2>2. CASE inbox'[v] = inbox[v]
    BY <1>6, <2>1, <2>2
  <2>3. ASSUME NEW m, inbox'[v] = Append(inbox[v], m), AboutFits(m) PROVE AboutFits(inbox'[v][i])
    BY <1>6, <2>1, <2>3, AppendItems
  <2> QED
    BY <1>3, <1>4, <2>2, <2>3
<1>7. ASSUME NEW v \in Users, v \notin raced', private'[v] = {}
      PROVE  Follows(v, view'[v], inbox'[v], server', issued')
  <2>1. Follows(v, view[v], inbox[v], server, issued)
    BY <1>3, <1>7 DEF Settling
  <2> QED
    BY <1>3, <2>1, AnsweredFollows
<1> QED
  BY <1>5, <1>6, <1>7 DEF Settling, AboutFits

LEMMA TakeSettling ==
    ASSUME Typed, Settling, NEW u \in Users, NEW i \in DOMAIN inbox[u], Take(u, i)
    PROVE  Settling'
<1>1. PICK g \in Guilds, box \in Seq(Messages) : g = view[u] /\ box = inbox[u]
  BY DEF Typed
<1>2. i \in 1..Len(box) /\ \A k \in DOMAIN box : AboutFits(box[k])
  BY <1>1 DEF Settling
<1>3. PICK m \in Messages : m = box[i]
  BY <1>2, ElementOfSeq
<1>4. /\ server' = server /\ issued' = issued /\ private' = private
      /\ inbox'[u] = RemoveAt(box, i) /\ view'[u] = Applied(g, m)
      /\ \A v \in Users \ {u} : inbox'[v] = inbox[v] /\ view'[v] = view[v]
      /\ raced' = IF Races(u, i) THEN raced \cup {u} ELSE raced
  BY <1>1, <1>3 DEF Take, Typed
<1>5. PICK rest : rest = RemoveAt(box, i)
  OBVIOUS
<1>6. \A k \in DOMAIN rest : AboutFits(rest[k])
  <2>1. /\ rest \in Seq(Messages) /\ Len(rest) \in Nat /\ Len(box) = Len(rest) + 1
        /\ \A k \in 1..Len(rest) : rest[k] = IF k < i THEN box[k] ELSE box[k + 1]
    BY <1>2, <1>5, RemoveAtItems
  <2>2. DOMAIN rest = 1..Len(rest) /\ DOMAIN box = 1..Len(box)
    BY <2>1
  <2>3. \A k \in 1..Len(rest) : k \in 1..Len(box) /\ k + 1 \in 1..Len(box)
    BY <2>1
  <2> QED
    BY <1>2, <2>1, <2>2, <2>3
<1>7. ASSUME NEW v \in Users, NEW k \in DOMAIN inbox'[v] PROVE AboutFits(inbox'[v][k])
  BY <1>4, <1>5, <1>6, <1>7 DEF Settling
<1>8. ASSUME NEW v \in Users, v \notin raced', private'[v] = {}
      PROVE  Follows(v, view'[v], inbox'[v], server', issued')
  <2>1. Follows(v, view[v], inbox[v], server, issued)
    BY <1>4, <1>8 DEF Settling
  <2>2. CASE v # u
    BY <1>4, <2>1, <2>2
  <2>3. CASE v = u
    <3>1. ~Races(u, i)
      BY <1>4, <1>8, <2>3
    <3>2. /\ \A j \in 1..(i - 1) : box[j].about \cap box[i].about = {}
          /\ UpToDate(g, box[i])
      BY <1>1, <3>1 DEF Races, UpToDate
    <3>3. CASE u \in server.members
      <4>1. Settled(u, g, box, server, issued)
        BY <1>1, <2>1, <2>3, <3>3 DEF Follows
      <4>2. Settled(u, Applied(g, box[i]), RemoveAt(box, i), server, issued)
        BY <1>2, <3>2, <4>1, TakeSettled
      <4> QED
        BY <1>3, <1>4, <2>3, <3>3, <4>2 DEF Follows
    <3>4. CASE u \notin server.members
      <4>1. Gone(g, box)
        BY <1>1, <2>1, <2>3, <3>4 DEF Follows
      <4>2. Gone(Applied(g, box[i]), RemoveAt(box, i))
        BY <1>2, <3>2, <4>1, TakeGone
      <4> QED
        BY <1>3, <1>4, <2>3, <3>4, <4>2 DEF Follows
    <3> QED
      BY <3>3, <3>4
  <2> QED
    BY <2>2, <2>3
<1>9. Owner \in server'.members /\ RolesOf(server)' \subseteq issued'
  BY <1>4 DEF Settling, RolesOf
<1> QED
  BY <1>7, <1>8, <1>9 DEF Settling, AboutFits

\* The pages change a copy in one way only: by the checkbox for a private channel.
LEMMA PagesSettling ==
    ASSUME Typed, Settling, NEW u \in Users, Browse(u) \/ Edit(u)
    PROVE  Settling'
<1>1. server' = server /\ inbox' = inbox /\ issued' = issued /\ raced' = raced
  BY Zenon DEF Browse, Edit, Show, Close, OpenPermissions, SelectTarget, OpenRole, SelectRole, Draft, ClickPermission,
         TickPermission, PickColor, Reset, MakePrivate
<1>2. (view' = view /\ private' = private) \/ MakePrivate(u)
  BY Zenon DEF Browse, Edit, Show, Close, OpenPermissions, SelectTarget, OpenRole, SelectRole, Draft, ClickPermission,
         TickPermission, PickColor, Reset
<1>3. ASSUME NEW v \in Users, private'[v] = {}
      PROVE  view'[v] = view[v] /\ private[v] = {}
  <2>1. CASE MakePrivate(u) /\ v = u
    <3>1. private'[u] = private[u] \cup {screen[u].id}
      BY <2>1 DEF MakePrivate, Typed
    <3> QED
      BY <1>3, <2>1, <3>1
  <2>2. CASE MakePrivate(u) /\ v # u
    BY <1>3, <2>2 DEF MakePrivate, Typed
  <2> QED
    BY <1>2, <1>3, <2>1, <2>2
<1>4. ASSUME NEW v \in Users, v \notin raced', private'[v] = {}
      PROVE  Follows(v, view'[v], inbox'[v], server', issued')
  BY <1>1, <1>3, <1>4 DEF Settling
<1>5. /\ Owner \in server'.members /\ RolesOf(server)' \subseteq issued'
      /\ \A v \in Users : \A k \in DOMAIN inbox'[v] : AboutFits(inbox'[v][k])
  BY <1>1 DEF Settling, RolesOf
<1> QED
  BY <1>4, <1>5 DEF Settling, AboutFits

LEMMA NextSettling == Typed /\ InOrder /\ Settling /\ [Next]_vars => Settling'
<1> SUFFICES ASSUME Typed, InOrder, Settling, [Next]_vars PROVE Settling'
  OBVIOUS
<1>1. CASE UNCHANGED vars
  <2>1. server' = server /\ view' = view /\ inbox' = inbox /\ issued' = issued /\ raced' = raced /\ private' = private
    BY <1>1 DEF vars
  <2>2. \A v \in Users : v \notin raced' /\ private'[v] = {} => Follows(v, view'[v], inbox'[v], server', issued')
    BY <2>1 DEF Settling
  <2>3. /\ Owner \in server'.members /\ RolesOf(server)' \subseteq issued'
        /\ \A v \in Users : \A k \in DOMAIN inbox'[v] : AboutFits(inbox'[v][k])
    BY <2>1 DEF Settling, RolesOf
  <2> QED
    BY <2>2, <2>3 DEF Settling, AboutFits
<1>2. ASSUME NEW u \in Users, Browse(u) \/ Edit(u) PROVE Settling'
  BY <1>2, PagesSettling
<1>3. ASSUME NEW u \in Users, Request(u) PROVE Settling'
  <2>1. Typed' /\ InOrder'
    BY NextTyped, NextInOrder
  <2>2. Asked(u) /\ Asks(u)
    BY <1>3, <2>1, RequestAsks DEF Asked, Settling
  <2> QED
    BY <2>1, <2>2, AsksAnswered, AnsweredSettling
<1>4. ASSUME NEW u \in Users, NEW i \in DOMAIN inbox[u], Take(u, i) PROVE Settling'
  BY <1>4, TakeSettling
<1> QED
  BY <1>1, <1>2, <1>3, <1>4 DEF Next, Request

-----------------------------------------------------------------------------
(* The guild as it is created, and clients that have taken in everything *)

LEMMA SelfReads ==
    ASSUME NEW g \in Guilds, Coherent(g)
    PROVE  Reads(g, g)
<1>1. ASSUME NEW c \in Channels PROVE Shows(g.channels[c], g.channels[c], Home(g, g.channels[c]))
  <2>1. CASE g.channels[c] = NoRow
    BY <2>1 DEF Shows
  <2>2. CASE g.channels[c] # NoRow
    <3>1. PICK row \in ChannelRow : row = g.channels[c] /\ c \in ChannelsOf(g)
      BY <2>2 DEF Guilds, ChannelsOf
    <3>2. row.parent = NoParent \/ row.parent \in ChannelsOf(g)
      BY <3>1 DEF Coherent, ChannelsAreOrdered
    <3>3. Home(g, row) = row.parent
      BY <3>2, HomeIs
    <3> QED
      BY <2>2, <3>1, <3>3 DEF Shows
  <2> QED
    BY <2>1, <2>2
<1>2. \A v \in Users : g.memberRoles[v] = g.memberRoles[v] \cap RolesOf(g)
  BY DEF Coherent, RolesAreHeld
<1> QED
  BY <1>1, <1>2 DEF Reads

LEMMA SelfFounded ==
    ASSUME NEW g \in Guilds, Coherent(g), NEW ids, ChannelsOf(g) \subseteq ids, RolesOf(g) \subseteq ids
    PROVE  Founded(g, ids)
<1>1. ASSUME NEW c \in ChannelsOf(g)
      PROVE  /\ g.channels[c].parent \in ids \cup {NoParent}
             /\ c \in Categories => ~g.channels[c].isSynced
  BY <1>1 DEF Coherent, ChannelsAreOrdered
<1>2. ASSUME NEW v \in Users PROVE g.memberRoles[v] \subseteq ids
  BY <1>2 DEF Coherent, RolesAreHeld
<1> QED
  BY <1>1, <1>2 DEF Founded

\* Nothing is under way to a copy of the guild as it is.
LEMMA NothingUnderWay ==
    ASSUME NEW u \in Users, NEW g \in Guilds, Coherent(g), u \in g.members,
           NEW ids, ChannelsOf(g) \subseteq ids, RolesOf(g) \subseteq ids, NEW box, box = << >>
    PROVE  Settled(u, g, box, g, ids)
<1>1. Len(box) = 0 /\ DOMAIN box = {} /\ 0..0 = {0} /\ 1..0 = {}
  OBVIOUS
<1>2. PICK H : H = [k \in 0..0 |-> g]
  OBVIOUS
<1>3. H \in [0..0 -> Guilds] /\ H[0] = g /\ \A k \in 0..0 : k = 0
  BY <1>2
<1>4. Founded(g, ids) /\ Reads(g, g)
  BY SelfReads, SelfFounded
<1>5. ASSUME NEW F, NEW S, \A x \in S : F[0][x] # NoRow => x \in ids
      PROVE  Steady(F, S, box, ids)
  BY <1>1, <1>3, <1>5 DEF Steady
<1>6. Steady(ChannelsIn(H, 0), Channels, box, ids) /\ Steady(RolesIn(H, 0), Roles, box, ids)
  <2>1. ChannelsIn(H, 0)[0] = g.channels /\ RolesIn(H, 0)[0] = g.roles
    BY <1>3 DEF ChannelsIn, RolesIn
  <2>2. /\ \A x \in Channels : ChannelsIn(H, 0)[0][x] # NoRow => x \in ids
        /\ \A x \in Roles : RolesIn(H, 0)[0][x] # NoRow => x \in ids
    BY <2>1 DEF ChannelsOf, RolesOf
  <2> QED
    BY <1>5, <2>2
<1>7. Story(H, box, ids)
  BY <1>1, <1>3, <1>4, <1>6 DEF Story
<1>8. Stays(u, g, box)
  BY <1>1 DEF Stays, Coherent
<1> QED
  BY <1>1, <1>3, <1>4, <1>7, <1>8 DEF Settled

LEMMA InitSettling == Init => Settling
<1> SUFFICES ASSUME Init PROVE Settling
  OBVIOUS
<1>1. server \in Guilds /\ Coherent(server) /\ server.members = Users
  BY DefaultGuildTyped DEF Init, DefaultGuild
<1>2. ChannelsOf(server) \subseteq issued /\ RolesOf(server) \subseteq issued
  BY DEF Init
<1>3. ASSUME NEW u \in Users PROVE Follows(u, view[u], inbox[u], server, issued)
  <2>1. view[u] = server /\ inbox[u] = << >>
    BY DEF Init
  <2> QED
    BY <1>1, <1>2, <2>1, NothingUnderWay DEF Follows
<1>4. \A u \in Users : \A i \in DOMAIN inbox[u] : AboutFits(inbox[u][i])
  <2>1. \A u \in Users : DOMAIN inbox[u] = {}
    BY DEF Init
  <2> QED
    BY <2>1
<1> QED
  BY <1>1, <1>2, <1>3, <1>4, EditorsAssumption DEF Settling

\* Two copies of the same facts differ in nothing that is looked at.
LEMMA ReadersAgree ==
    ASSUME NEW a \in Guilds, NEW b \in Guilds, NEW h \in Guilds, Reads(a, h), Reads(b, h), a.present
    PROVE  Agrees(a, b)
<1>1. a.memberRoles = b.memberRoles
  <2>1. a.memberRoles \in [Users -> SUBSET Roles] /\ b.memberRoles \in [Users -> SUBSET Roles]
    BY DEF Guilds
  <2>2. \A v \in Users : a.memberRoles[v] = b.memberRoles[v]
    BY DEF Reads
  <2> QED
    BY <2>1, <2>2
<1>2. ASSUME NEW c \in Channels PROVE Known(a.channels[c]) = Known(b.channels[c])
  <2>1. PICK home : Shows(a.channels[c], h.channels[c], home) /\ Shows(b.channels[c], h.channels[c], home)
    BY DEF Reads
  <2>2. CASE a.channels[c] = NoRow
    BY <2>1, <2>2 DEF Shows
  <2>3. CASE a.channels[c] # NoRow
    <3>1. PICK x \in ChannelRow, y \in ChannelRow : x = a.channels[c] /\ y = b.channels[c]
      BY <2>1, <2>3 DEF Shows, Guilds
    <3>2. x # NoRow /\ y # NoRow
      BY RowAssumption
    <3>3. /\ x.name = y.name /\ x.isSynced = y.isSynced /\ x.ownerId = y.ownerId /\ x.parent = y.parent
          /\ ~x.isSynced => x.overwrites = y.overwrites
      BY <2>1, <3>1, <3>2 DEF Shows
    <3>4. CASE ~x.isSynced
      <4>1. x = y
        BY <3>3, <3>4 DEF ChannelRow
      <4> QED
        BY <3>1, <4>1
    <3>5. CASE x.isSynced
      <4>1. [x EXCEPT !.overwrites = NoOverwrites] = [y EXCEPT !.overwrites = NoOverwrites]
        BY <3>3 DEF ChannelRow
      <4> QED
        BY <3>1, <3>2, <3>3, <3>5, <4>1 DEF Known
    <3> QED
      BY <3>4, <3>5
  <2> QED
    BY <2>2, <2>3
<1> QED
  BY <1>1, <1>2 DEF Agrees, Reads

LEMMA SettlingConverges == Typed /\ Settling => Converged
<1> SUFFICES ASSUME Typed, Settling, NEW u \in Users,
                    inbox[u] = << >>, u \notin raced, private[u] = {}
             PROVE  IF u \in server.members THEN Agrees(view[u], server) ELSE ~view[u].present
  BY DEF Converged
<1>1. Follows(u, view[u], inbox[u], server, issued)
  BY DEF Settling
<1>2. Len(inbox[u]) = 0 /\ DOMAIN inbox[u] = {}
  OBVIOUS
<1>3. CASE u \in server.members
  <2>1. Stays(u, view[u], inbox[u])
    BY <1>1, <1>3 DEF Follows, Settled
  <2>2. PICK H \in [0..0 -> Guilds] : Reads(view[u], H[0]) /\ Reads(server, H[0])
    BY <1>1, <1>2, <1>3 DEF Follows, Settled
  <2>3. H[0] \in Guilds /\ view[u] \in Guilds /\ server \in Guilds
    BY <2>2 DEF Typed
  <2> QED
    BY <1>3, <2>1, <2>2, <2>3, ReadersAgree DEF Stays
<1>4. CASE u \notin server.members
  BY <1>1, <1>2, <1>4 DEF Follows, Gone
<1> QED
  BY <1>3, <1>4

\* Whatever the members edit at the same time, a client that has taken in every event and
\* answer shows the guild as the database has it, though the answers hold less than the
\* events (mutations.ts:404) and overtake them: but where two changes to one row changed
\* places or an old row was written back (channel-overview-section.tsx:104).
THEOREM ConvergedAlways == Spec => []Converged
<1>1. Init => Typed /\ InOrder /\ Settling
  BY InitTyped, InitInOrder, InitSettling
<1>2. Typed /\ InOrder /\ Settling /\ [Next]_vars => (Typed /\ InOrder /\ Settling)'
  BY NextTyped, NextInOrder, NextSettling
<1>3. Typed /\ Settling => Converged
  BY SettlingConverges
<1> QED
  BY <1>1, <1>2, <1>3, PTL DEF Spec
=============================================================================
