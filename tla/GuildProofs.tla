----------------------------- MODULE GuildProofs -----------------------------
(***************************************************************************)
(* Theorems about the guild, for every set of users, roles, channels and   *)
(* permissions, every number of requests in flight, with and without       *)
(* faults; and about requests that come one at a time.                     *)
(***************************************************************************)
EXTENDS Guild, FiniteSetTheorems, TLAPS

USE DEF Exists, Existing

-----------------------------------------------------------------------------
(* Rows, tables and masks *)

\* A row is not the absence of a row.
LEMMA RowIsNotNoRow ==
    /\ \A row \in Row : row # NoRow
    /\ \A ow \in Overwrite : ow # NoRow
BY PermissionsAssumption, GuildAssumption DEF Row, Overwrite, Mask

\* The tables the handlers build are tables of overwrites.
LEMMA TablesType ==
    /\ NoOverwrites \in Overwrites
    /\ \A rows, new \in Overwrites : Upsert(rows, new) \in Overwrites
    /\ \A rows \in Overwrites, ts \in SUBSET Target : Without(rows, ts) \in Overwrites
    /\ \A t \in Target, ow \in Overwrite : One(t, ow) \in Overwrites
<1>1. NoOverwrites \in Overwrites
  BY DEF NoOverwrites, Overwrites
<1>2. \A rows, new \in Overwrites : Upsert(rows, new) \in Overwrites
  BY DEF Upsert, Overwrites
<1>3. \A rows \in Overwrites, ts \in SUBSET Target : Without(rows, ts) \in Overwrites
  BY DEF Without, Overwrites
<1>4. \A t \in Target, ow \in Overwrite : One(t, ow) \in Overwrites
  BY <1>1 DEF One, Overwrites
<1> QED
  BY <1>1, <1>2, <1>3, <1>4

\* What the handlers put into an overwrite is a pair of masks.
LEMMA OverwritesType ==
    /\ \A ow \in Overwrite : Cleaned(ow) \in Overwrite
    /\ \A parent, isPrivate : InitialRows(parent, isPrivate) \in Overwrites
<1>1. \A ow \in Overwrite : Cleaned(ow) \in Overwrite
  BY DEF Cleaned, Overwrite, Mask
<1>2. Everyone \in Target
  BY PermissionsAssumption DEF Target
<1>3. /\ [allow |-> {}, deny |-> {}] \in Overwrite
      /\ [allow |-> {}, deny |-> {VIEW_CHANNELS}] \in Overwrite
  BY GuildAssumption DEF Overwrite, Mask
<1>4. \A parent, isPrivate : InitialRows(parent, isPrivate) \in Overwrites
  BY <1>2, <1>3, TablesType DEF InitialRows
<1> QED
  BY <1>1, <1>4

\* A request in flight is one of the four kinds, told apart by its op.
LEMMA RequestKind ==
    ASSUME NEW req \in Request \cup {Idle}
    PROVE  /\ req # Idle => req \in Request /\ req.ch \in Channels
           /\ req.op = "create" => req \in CreateRequest
           /\ req.op = "overwrite" => req \in OverwriteRequest
           /\ req.op = "sync" => req \in SyncRequest
           /\ req.op \in {"touch", "overwrite", "sync"} => req.row \in Row
BY DEF Request, CreateRequest, OverwriteRequest, SyncRequest, TouchRequest, Idle

-----------------------------------------------------------------------------
(* Types *)

\* The guild as it is created is well typed.
LEMMA InitType == Init => TypeOK
BY PermissionsAssumption, GuildAssumption, TablesType
   DEF Init, TypeOK, Idle, Mask

\* What a channel request is started with, and the row it may write, is well typed.
LEMMA ChannelRequestType ==
    ASSUME TypeOK, NEW q \in Requests, ChannelRequest(q)
    PROVE  TypeOK'
<1> USE DEF TypeOK, Start
<1>1. ASSUME NEW u \in Users, NEW c \in Channels,
             NEW parent \in Channels \cup {NoParent}, NEW isPrivate \in BOOLEAN,
             CreateChannel(q, u, c, parent, isPrivate)
      PROVE  TypeOK'
  <2> DEFINE rows == InitialRows(parent, isPrivate)
  <2>1. [op |-> "create", ch |-> c, rows |-> rows] \in Request
    BY OverwritesType DEF Request, CreateRequest
  <2>2. [parent |-> parent, isSynced |-> rows = NoOverwrites, ownerId |-> u] \in Row
    BY DEF Row
  <2> QED
    BY <1>1, <2>1, <2>2 DEF CreateChannel, guildVars
<1>2. ASSUME NEW u \in Users, NEW c \in Channels, DeleteChannel(q, u, c)
      PROVE  TypeOK'
  <2>1. channels' \in [Channels -> Row \cup {NoRow}]
    BY <1>2 DEF DeleteChannel, Row
  <2> QED
    BY <1>2, <2>1, TablesType DEF DeleteChannel, guildVars
<1>3. ASSUME NEW u \in Users, NEW c \in Channels, Rename(q, u, c)
      PROVE  TypeOK'
  <2>1. [op |-> "touch", stage |-> "row", ch |-> c, row |-> channels[c]] \in Request
    BY <1>3 DEF Rename, Request, TouchRequest
  <2> QED
    BY <1>3, <2>1 DEF Rename, guildVars
<1>4. ASSUME NEW u \in Users, NEW c \in Channels, SyncChannel(q, u, c)
      PROVE  TypeOK'
  <2> DEFINE row == [channels[c] EXCEPT !.isSynced = TRUE]
  <2>1. row \in Row
    BY <1>4 DEF SyncChannel, Row
  <2>2. [op |-> "sync", stage |-> "clear", ch |-> c, row |-> row,
         targets |-> TargetsOf(overwrites[c])] \in Request
    BY <2>1 DEF Request, SyncRequest, TargetsOf
  <2> QED
    BY <1>4, <2>2 DEF SyncChannel, guildVars
<1>5. ASSUME NEW u \in Users, NEW c \in Channels, NEW t \in TargetInputs,
             DeleteOverwrite(q, u, c, t)
      PROVE  TypeOK'
  BY <1>5, TablesType, GuildAssumption DEF DeleteOverwrite, guildVars
<1>6. ASSUME NEW u \in Users, NEW c \in Channels, NEW t \in TargetInputs,
             NEW ow \in OverwriteInputs, UpdateOverwrite(q, u, c, t, ow)
      PROVE  TypeOK'
  <2> DEFINE stage  == IF Follows(c) THEN "clones" ELSE "row"
             row    == IF Follows(c) THEN [channels[c] EXCEPT !.isSynced = FALSE]
                                     ELSE channels[c]
             clones == IF Follows(c) THEN ClonedOverwrites(c, t, ow) ELSE NoOverwrites
  <2>1. channels[c] \in Row
    BY <1>6 DEF UpdateOverwrite
  <2>2. row \in Row
    BY <2>1 DEF Row
  <2>3. t \in Target /\ ow \in Overwrite
    BY GuildAssumption
  <2>4. CASE Follows(c)
    <3>1. channels[c].parent \in Channels
      BY <2>1, <2>4, GuildAssumption DEF Follows, Row
    <3>2. clones \in Overwrites
      BY <2>3, <2>4, <3>1, TablesType DEF ClonedOverwrites
    <3>3. [op |-> "overwrite", ch |-> c, target |-> t, ow |-> ow, stage |-> stage,
           row |-> row, clones |-> clones] \in OverwriteRequest
      BY <2>2, <2>3, <2>4, <3>2 DEF OverwriteRequest
    <3> QED
      BY <1>6, <3>3 DEF UpdateOverwrite, guildVars, Request
  <2>5. CASE ~Follows(c)
    <3>1. clones \in Overwrites
      BY <2>5, TablesType
    <3>2. [op |-> "overwrite", ch |-> c, target |-> t, ow |-> ow, stage |-> stage,
           row |-> row, clones |-> clones] \in OverwriteRequest
      BY <2>2, <2>3, <2>5, <3>1 DEF OverwriteRequest
    <3> QED
      BY <1>6, <3>2 DEF UpdateOverwrite, guildVars, Request
  <2> QED
    BY <2>4, <2>5
<1>7. ASSUME NEW c \in Channels, MessageCreated(q, c)
      PROVE  TypeOK'
  <2>1. [op |-> "touch", stage |-> "row", ch |-> c, row |-> channels[c]] \in Request
    BY <1>7 DEF MessageCreated, Request, TouchRequest
  <2> QED
    BY <1>7, <2>1 DEF MessageCreated, guildVars
<1> HIDE DEF TypeOK, Start, Exists, Existing
<1> QED
  BY <1>1, <1>2, <1>3, <1>4, <1>5, <1>6, <1>7 DEF ChannelRequest

\* Each write of a request in flight keeps the tables and the slot well typed.
LEMMA RequestStepType ==
    ASSUME TypeOK, NEW q \in Requests, RequestStep(q)
    PROVE  TypeOK'
<1> DEFINE req == requests[q]
<1>1. req \in Request \cup {Idle}
  BY DEF TypeOK
<1>2. Idle.op = "idle"
  BY DEF Idle
<1>3. CASE FinishCreate(q)
  <2>1. req \in CreateRequest
    BY <1>1, <1>3, RequestKind DEF FinishCreate
  <2>2. overwrites' \in [Channels -> Overwrites]
    BY <1>3, <2>1, TablesType DEF FinishCreate, CreateRequest, TypeOK
  <2> QED
    BY <1>3, <2>2 DEF FinishCreate, Finish, TypeOK, guildVars
<1>4. CASE SaveClones(q)
  <2>1. req \in OverwriteRequest
    BY <1>1, <1>4, RequestKind DEF SaveClones
  <2>2. overwrites' \in [Channels -> Overwrites]
    BY <1>4, <2>1, TablesType DEF SaveClones, OverwriteRequest, TypeOK
  <2>3. [req EXCEPT !.stage = "row"] \in Request
    BY <2>1 DEF OverwriteRequest, Request
  <2>4. requests' \in [Requests -> Request \cup {Idle}]
    BY <1>4, <2>3 DEF SaveClones, MoveTo, Finish, TypeOK
  <2> QED
    BY <1>4, <2>2, <2>4 DEF SaveClones, TypeOK, guildVars
<1>5. CASE SaveRow(q)
  <2>1. req \in Request /\ req.ch \in Channels /\ req.row \in Row
    BY <1>1, <1>2, <1>5, RequestKind DEF SaveRow
  <2>2. channels' \in [Channels -> Row \cup {NoRow}]
    BY <1>5, <2>1 DEF SaveRow, TypeOK
  <2>3. req.op = "overwrite" => [req EXCEPT !.stage = "overwrite"] \in Request
    <3>1. req.op = "overwrite" => req \in OverwriteRequest
      BY <1>1, RequestKind
    <3> QED
      BY <3>1 DEF OverwriteRequest, Request
  <2>4. requests' \in [Requests -> Request \cup {Idle}]
    BY <1>5, <2>3 DEF SaveRow, MoveTo, Finish, TypeOK
  <2> QED
    BY <1>5, <2>2, <2>4 DEF SaveRow, TypeOK, guildVars
<1>6. CASE SaveOverwrite(q)
  <2>1. req \in OverwriteRequest
    BY <1>1, <1>6, RequestKind DEF SaveOverwrite
  <2>2. One(req.target, Cleaned(req.ow)) \in Overwrites
    BY <2>1, TablesType, OverwritesType DEF OverwriteRequest
  <2>3. overwrites' \in [Channels -> Overwrites]
    BY <1>6, <2>1, <2>2, TablesType DEF SaveOverwrite, OverwriteRequest, TypeOK
  <2> QED
    BY <1>6, <2>3 DEF SaveOverwrite, Finish, TypeOK, guildVars
<1>7. CASE ClearOverwrites(q)
  <2>1. req \in SyncRequest
    BY <1>1, <1>7, RequestKind DEF ClearOverwrites
  <2>2. overwrites' \in [Channels -> Overwrites]
    BY <1>7, <2>1, TablesType DEF ClearOverwrites, SyncRequest, TypeOK
  <2>3. [req EXCEPT !.stage = "row"] \in Request
    BY <2>1 DEF SyncRequest, Request
  <2>4. requests' \in [Requests -> Request \cup {Idle}]
    BY <1>7, <2>3 DEF ClearOverwrites, MoveTo, TypeOK
  <2> QED
    BY <1>7, <2>2, <2>4 DEF ClearOverwrites, TypeOK, guildVars
<1>8. CASE Abandon(q)
  BY <1>8 DEF Abandon, Finish, TypeOK, guildVars
<1> QED
  BY <1>3, <1>4, <1>5, <1>6, <1>7, <1>8 DEF RequestStep

\* The requests on members and roles leave no member with a role that is gone.
LEMMA GuildRequestType ==
    ASSUME TypeOK, GuildRequest
    PROVE  TypeOK'
<1> USE DEF TypeOK, channelVars
<1>1. ASSUME NEW u \in Users, Join(u)
      PROVE  TypeOK'
  BY <1>1 DEF Join
<1>2. ASSUME NEW u \in Users, Leave(u)
      PROVE  TypeOK'
  BY <1>2 DEF Leave
<1>3. ASSUME NEW r \in Roles, CreateRole(r)
      PROVE  TypeOK'
  BY <1>3 DEF CreateRole
<1>4. ASSUME NEW r \in Roles, NEW mask \in RoleInputs, UpdateRole(r, mask)
      PROVE  TypeOK'
  BY <1>4, GuildAssumption DEF UpdateRole
<1>5. ASSUME NEW r \in Roles, NEW u \in Users, DeleteRole(u, r)
      PROVE  TypeOK'
  BY <1>5 DEF DeleteRole, Mask
<1>6. ASSUME NEW r \in Roles, NEW u \in Users, NEW ms \in SUBSET Users,
             AssignRole(u, r, ms)
      PROVE  TypeOK'
  BY <1>6 DEF AssignRole
<1>7. ASSUME NEW u \in Users, NEW m \in Users, NEW rs \in SUBSET Roles,
             UpdateMember(u, m, rs)
      PROVE  TypeOK'
  BY <1>7 DEF UpdateMember
<1> HIDE DEF TypeOK, channelVars
<1> QED
  BY <1>1, <1>2, <1>3, <1>4, <1>5, <1>6, <1>7 DEF GuildRequest

\* Every reachable guild is well typed; above all, no member ever holds a role that does
\* not exist, whatever roles and members come and go (guilds.service.ts:505-912).
THEOREM TypeCorrect == Spec => []TypeOK
<1>1. TypeOK /\ [Next]_vars => TypeOK'
  <2> SUFFICES ASSUME TypeOK, [Next]_vars PROVE TypeOK'
    OBVIOUS
  <2>1. ASSUME NEW q \in Requests, ChannelRequest(q) PROVE TypeOK'
    BY <2>1, ChannelRequestType
  <2>2. ASSUME NEW q \in Requests, RequestStep(q) PROVE TypeOK'
    BY <2>2, RequestStepType
  <2>3. CASE GuildRequest
    BY <2>3, GuildRequestType
  <2>4. CASE UNCHANGED vars
    BY <2>4 DEF vars, guildVars, channelVars, TypeOK
  <2> QED
    BY <2>1, <2>2, <2>3, <2>4 DEF Next
<1> QED
  BY InitType, <1>1, PTL DEF Spec

-----------------------------------------------------------------------------
(* References *)

\* No channel request leaves a reference to a channel that is gone: a channel is created
\* below a channel that exists, and a deletion reaches every row that names the channel.
LEMMA ChannelRequestReferences ==
    ASSUME TypeOK, NoDanglingReference, NEW q \in Requests, ChannelRequest(q)
    PROVE  NoDanglingReference'
<1> USE DEF NoDanglingReference
<1>1. ASSUME NEW u \in Users, NEW c \in Channels,
             NEW parent \in Channels \cup {NoParent}, NEW isPrivate \in BOOLEAN,
             CreateChannel(q, u, c, parent, isPrivate)
      PROVE  NoDanglingReference'
  <2> DEFINE row == [parent |-> parent, isSynced |-> InitialRows(parent, isPrivate) = NoOverwrites,
                     ownerId |-> u]
  <2>1. row # NoRow /\ row.parent = parent
    BY RowIsNotNoRow DEF Row
  <2>2. parent = NoParent \/ parent \in Existing
    BY <1>1, GuildAssumption DEF CreateChannel
  <2>3. channels' = [channels EXCEPT ![c] = row] /\ UNCHANGED overwrites
    BY <1>1 DEF CreateChannel
  <2>4. channels \in [Channels -> Row \cup {NoRow}]
    BY DEF TypeOK
  <2> HIDE DEF row
  <2> QED
    BY <2>1, <2>2, <2>3, <2>4
<1>2. ASSUME NEW u \in Users, NEW c \in Channels, DeleteChannel(q, u, c)
      PROVE  NoDanglingReference'
  <2>1. \A d \in Channels : channels[d] \in Row =>
           /\ [channels[d] EXCEPT !.parent = NoParent] \in Row
           /\ [channels[d] EXCEPT !.parent = NoParent].parent = NoParent
    BY DEF Row
  <2>2. \A d \in Channels : channels'[d] =
           IF d = c THEN NoRow
           ELSE IF channels[d] # NoRow /\ channels[d].parent = c
           THEN [channels[d] EXCEPT !.parent = NoParent]
           ELSE channels[d]
    BY <1>2 DEF DeleteChannel
  <2>3. \A d \in Channels \ {c} : channels[d] # NoRow <=> channels'[d] # NoRow
    BY <2>1, <2>2, RowIsNotNoRow DEF TypeOK
  <2>4. \A d \in Channels : channels'[d] # NoRow =>
           \/ channels'[d].parent = NoParent
           \/ channels'[d].parent = channels[d].parent /\ channels'[d].parent # c
    BY <2>1, <2>2 DEF TypeOK
  <2>5. \A d \in Channels : overwrites'[d] = IF d = c THEN NoOverwrites ELSE overwrites[d]
    BY <1>2 DEF DeleteChannel, TypeOK
  <2>6. channels'[c] = NoRow
    BY <2>2
  <2> QED
    BY <2>3, <2>4, <2>5, <2>6
<1>3. ASSUME NEW u \in Users, NEW c \in Channels, NEW t \in TargetInputs,
             DeleteOverwrite(q, u, c, t)
      PROVE  NoDanglingReference'
  BY <1>3 DEF DeleteOverwrite, TypeOK
<1>4. ASSUME UNCHANGED <<channels, overwrites>>
      PROVE  NoDanglingReference'
  BY <1>4
<1> HIDE DEF NoDanglingReference, Exists, Existing
<1> QED
  BY <1>1, <1>2, <1>3, <1>4
     DEF ChannelRequest, Rename, SyncChannel, UpdateOverwrite, MessageCreated

\* No write of a request in flight brings one back, however stale what it carries: the
\* row of a synced channel may reappear after its deletion, but only with a parent that
\* still exists, and overwrites are stored for existing channels alone.
LEMMA RequestStepReferences ==
    ASSUME TypeOK, NoDanglingReference, NEW q \in Requests, RequestStep(q)
    PROVE  NoDanglingReference'
<1> USE DEF NoDanglingReference
<1> DEFINE req == requests[q]
<1>1. req \in Request \cup {Idle}
  BY DEF TypeOK
<1>2. CASE FinishCreate(q)
  BY <1>2 DEF FinishCreate, TypeOK
<1>3. CASE SaveClones(q)
  BY <1>3 DEF SaveClones, TypeOK
<1>4. CASE SaveOverwrite(q)
  BY <1>4 DEF SaveOverwrite, TypeOK
<1>5. CASE ClearOverwrites(q)
  <2>1. Without(NoOverwrites, req.targets) = NoOverwrites
    BY DEF Without, NoOverwrites
  <2>2. overwrites' = [overwrites EXCEPT ![req.ch] = Without(@, req.targets)] /\ UNCHANGED channels
    BY <1>5 DEF ClearOverwrites
  <2> QED
    BY <2>1, <2>2 DEF TypeOK
<1>6. CASE SaveRow(q)
  <2>1. req.ch \in Channels /\ req.row \in Row /\ req.row # NoRow
    BY <1>1, <1>6, RequestKind, RowIsNotNoRow DEF SaveRow, Idle
  <2>2. CASE ~ParentExists(req.row)
    BY <1>6, <2>2 DEF SaveRow
  <2>3. CASE ParentExists(req.row)
    <3>1. channels' = [channels EXCEPT ![req.ch] = req.row] /\ UNCHANGED overwrites
      BY <1>6, <2>3 DEF SaveRow
    <3>2. req.row.parent \in Existing \cup {NoParent}
      BY <2>1, <2>3, GuildAssumption DEF ParentExists, Row
    <3> HIDE DEF req
    <3> QED
      BY <2>1, <3>1, <3>2, GuildAssumption DEF TypeOK
  <2> QED
    BY <2>2, <2>3
<1>7. CASE Abandon(q)
  BY <1>7 DEF Abandon
<1> QED
  BY <1>2, <1>3, <1>4, <1>5, <1>6, <1>7 DEF RequestStep

\* No row ever refers to a channel that is gone, for any number of requests in flight and
\* with writes that fail half way (channels.service.ts:179-238, 1265-1499).
THEOREM ReferencesHold == Spec => []NoDanglingReference
<1>1. Init => NoDanglingReference
  BY DEF Init, NoDanglingReference
<1>2. TypeOK /\ NoDanglingReference /\ [Next]_vars => NoDanglingReference'
  <2> SUFFICES ASSUME TypeOK, NoDanglingReference, [Next]_vars PROVE NoDanglingReference'
    OBVIOUS
  <2>1. ASSUME NEW q \in Requests, ChannelRequest(q) PROVE NoDanglingReference'
    BY <2>1, ChannelRequestReferences
  <2>2. ASSUME NEW q \in Requests, RequestStep(q) PROVE NoDanglingReference'
    BY <2>2, RequestStepReferences
  <2>3. ASSUME UNCHANGED <<channels, overwrites>> PROVE NoDanglingReference'
    BY <2>3 DEF NoDanglingReference
  <2>4. GuildRequest => UNCHANGED <<channels, overwrites>>
    BY DEF GuildRequest, Join, Leave, CreateRole, UpdateRole, DeleteRole, AssignRole,
           UpdateMember, channelVars
  <2> QED
    BY <2>1, <2>2, <2>3, <2>4 DEF Next, vars, channelVars
<1> QED
  BY TypeCorrect, <1>1, <1>2, PTL DEF Spec

-----------------------------------------------------------------------------
(* Permissions *)

\* Merging the overwrites of the roles keeps, bit by bit, what any of them says.
LEMMA MergedRolesBits ==
    ASSUME NEW ows, NEW rs, NEW p
    PROVE  /\ p \in MergedRoles(ows, rs).allow <=> \E r \in rs \cap TargetsOf(ows) : p \in ows[r].allow
           /\ p \in MergedRoles(ows, rs).deny <=> \E r \in rs \cap TargetsOf(ows) : p \in ows[r].deny
BY DEF MergedRoles

\* Whatever the overwrites, applying them layer by layer lets the most specific one that
\* mentions a permission decide it (permission.helper.ts:15-43).
LEMMA LayersDecide ==
    ASSUME NEW base, NEW ows, NEW u, NEW rs, NEW p
    PROVE  p \in ApplyChannelOverwrites(base, ows, u, rs) <=> MostSpecificGrants(p, base, ows, u, rs)
<1> DEFINE afterEveryone == ApplyIfSet(base, ows, Everyone)
           merged        == MergedRoles(ows, rs)
           afterRoles    == Apply(afterEveryone, merged)
           own           == rs \cap TargetsOf(ows)
<1>1. p \in afterEveryone <=>
        IF Everyone \in TargetsOf(ows) /\ Mentions(ows[Everyone], p)
        THEN p \in ows[Everyone].allow ELSE p \in base
  BY DEF ApplyIfSet, Apply, Mentions
<1>2. p \in afterRoles <=>
        IF \E r \in own : Mentions(ows[r], p)
        THEN \E r \in own : p \in ows[r].allow ELSE p \in afterEveryone
  <2> HIDE DEF merged, afterEveryone
  <2>1. p \in afterRoles <=> (p \in afterEveryone /\ p \notin merged.deny) \/ p \in merged.allow
    BY DEF Apply
  <2> QED
    BY <2>1, MergedRolesBits DEF merged, Mentions
<1>3. p \in ApplyIfSet(afterRoles, ows, u) <=>
        IF u \in TargetsOf(ows) /\ Mentions(ows[u], p)
        THEN p \in ows[u].allow ELSE p \in afterRoles
  <2> HIDE DEF afterRoles
  <2> QED
    BY DEF ApplyIfSet, Apply, Mentions
<1>4. ApplyChannelOverwrites(base, ows, u, rs) = ApplyIfSet(afterRoles, ows, u)
  BY DEF ApplyChannelOverwrites
<1> HIDE DEF afterEveryone, afterRoles
<1> QED
  BY <1>1, <1>2, <1>3, <1>4 DEF MostSpecificGrants

\* The order of the layers is the documented one in every reachable guild.
THEOREM SpecificityDecides == Spec => []MostSpecificWins
<1>1. MostSpecificWins
  BY LayersDecide DEF MostSpecificWins, EffectivePermission
<1> QED
  BY <1>1, PTL

\* Since no member holds a role that is gone, the permissions the client derives from the
\* guild's role list are those the service derives from the member's roles.
LEMMA OwnRolesExist ==
    ASSUME TypeOK, NEW u \in Users
    PROVE  memberRoles[u] \cap roles = memberRoles[u]
BY DEF TypeOK

\* The API's check, the message listing and the client's copy of the computation agree in
\* every reachable guild (channels.service.ts:1214-1263, permissions.helper.ts:19-69).
THEOREM EvaluatorsConcur == Spec => []EvaluatorsAgree
<1>1. TypeOK => EvaluatorsAgree
  <2> SUFFICES ASSUME TypeOK, NEW c \in Existing,
                      NEW u \in members \ {Owner, channels[c].ownerId}
               PROVE  /\ ClientEffectivePermission(u, c) = EffectivePermission(u, c)
                      /\ \A p \in ALL_PERMISSIONS :
                           u \in MembersWithChannelPermission(c, p) <=> p \in EffectivePermission(u, c)
    BY DEF EvaluatorsAgree
  <2> DEFINE rs == memberRoles[u]
             effective == ApplyChannelOverwrites(RolePermissions({Everyone} \cup rs),
                                                 EffectiveOverwrites(c), u, rs)
  <2>1. u \in Users
    BY DEF TypeOK
  <2>2. BasePermission(u) = RolePermissions({Everyone} \cup rs)
    BY DEF BasePermission
  <2>3. EffectivePermission(u, c) = effective
    BY <2>2 DEF EffectivePermission
  <2>4. ClientEffectivePermission(u, c) = effective
    BY <2>1, OwnRolesExist DEF ClientEffectivePermission
  <2>5. \A p : u \in MembersWithChannelPermission(c, p) <=> p \in effective
    BY DEF MembersWithChannelPermission
  <2> QED
    BY <2>3, <2>4, <2>5
<1> QED
  BY TypeCorrect, <1>1, PTL

-----------------------------------------------------------------------------
(* The overwrites, one request at a time *)

\* A target of c that is both allowed and denied a permission.
Overlaps(ow) == ow # NoRow /\ ow.allow \cap ow.deny # {}

\* What the overwrites of a channel are while no request is about it.
InOrder(c) ==
    /\ \A t \in Target : ~Overlaps(overwrites[c][t])
    /\ ~channels[c].isSynced => overwrites[c][Everyone] # NoRow \/ c \in bare
    /\ Follows(c) => overwrites[c] = NoOverwrites

\* No channel is its own parent, so that what it clones is not its own.
ParentIsOther == \A c \in Existing : channels[c].parent # c

\* A request in flight and the channel it is about: the row it carries differs from the stored
\* one at most in isSynced, and what it has not yet written is in order.
CreateInFlight(req) ==
    /\ ~channels[req.ch].isSynced
    /\ overwrites[req.ch] = NoOverwrites
    /\ req.rows[Everyone] # NoRow /\ \A t \in Target : ~Overlaps(req.rows[t])

OverwriteInFlight(req) ==
    LET ows == overwrites[req.ch] IN
    /\ Follows(req.ch) => /\ req.stage \in {"clones", "row"}
                          /\ req.row = [channels[req.ch] EXCEPT !.isSynced = FALSE]
                          /\ req.clones = ClonedOverwrites(req.ch, req.target, req.ow)
                          /\ ows = IF req.stage = "clones" THEN NoOverwrites ELSE req.clones
                          /\ \/ ~LacksEveryone(channels[req.ch].parent)
                             \/ req.ch \in bare \/ req.target = Everyone
    /\ ~Follows(req.ch) => /\ req.stage \in {"row", "overwrite"}
                           /\ req.row = channels[req.ch]
                           /\ \/ channels[req.ch].isSynced \/ ows[Everyone] # NoRow
                              \/ req.ch \in bare \/ req.target = Everyone
                           /\ \A t \in Target \ {req.target} : ~Overlaps(ows[t])

SyncInFlight(req) ==
    /\ channels[req.ch].parent # NoParent
    /\ req.row = [channels[req.ch] EXCEPT !.isSynced = TRUE]
    /\ req.stage = "clear" => req.targets = TargetsOf(overwrites[req.ch])
    /\ req.stage # "clear" => overwrites[req.ch] = NoOverwrites
    /\ \A t \in Target : ~Overlaps(overwrites[req.ch][t])

InFlight(req) ==
    /\ Exists(req.ch)
    /\ req.op = "create" => CreateInFlight(req)
    /\ req.op = "overwrite" => OverwriteInFlight(req)
    /\ req.op = "sync" => SyncInFlight(req)
    /\ req.op = "touch" => req.row = channels[req.ch] /\ InOrder(req.ch)

\* What holds when q is the one request slot.
Orderly(q) ==
    /\ Existing \subseteq issued
    /\ ParentIsOther
    /\ requests[q] # Idle => InFlight(requests[q])
    /\ \A c \in Existing : (requests[q] # Idle => requests[q].ch # c) => InOrder(c)

\* What the cells of the tables hold that the handlers build.
LEMMA Cells ==
    /\ Everyone \in Target
    /\ \A t \in Target : NoOverwrites[t] = NoRow
    /\ \A rows, new : \A t \in Target :
          Upsert(rows, new)[t] = IF new[t] # NoRow THEN new[t] ELSE rows[t]
    /\ \A ow : \A target, t \in Target :
          One(target, ow)[t] = IF t = target THEN ow ELSE NoRow
    /\ \A rows, ts : \A t \in Target :
          Without(rows, ts)[t] = IF t \in ts THEN NoRow ELSE rows[t]
    /\ \A rows : Without(rows, TargetsOf(rows)) = NoOverwrites
    /\ \A rows \in Overwrites : Upsert(NoOverwrites, rows) = rows
BY PermissionsAssumption
   DEF Target, NoOverwrites, Upsert, One, Without, TargetsOf, Overwrites

\* A channel whose row and overwrites stay is in order as before.
LEMMA OrderStays ==
    ASSUME NEW c, channels'[c] = channels[c], overwrites'[c] = overwrites[c], InOrder(c),
           c \in bare => c \in bare'
    PROVE  InOrder(c)'
BY DEF InOrder, Follows, Overlaps

\* The slot q holds req, now or after a step.
LEMMA OrderlyNow ==
    ASSUME NEW q, NEW req, requests[q] = req, Orderly(q)
    PROVE  /\ Existing \subseteq issued /\ ParentIsOther
           /\ req # Idle => InFlight(req)
           /\ \A c \in Existing : (req # Idle => req.ch # c) => InOrder(c)
BY DEF Orderly

LEMMA OrderlyNext ==
    ASSUME NEW q, NEW req, requests'[q] = req,
           \A c \in Channels : channels'[c] # NoRow => c \in issued',
           ParentIsOther',
           req # Idle => InFlight(req)',
           \A c \in Channels : channels'[c] # NoRow /\ (req # Idle => req.ch # c) => InOrder(c)'
    PROVE  Orderly(q)'
BY DEF Orderly, InFlight, CreateInFlight, OverwriteInFlight, SyncInFlight, InOrder, Follows,
       Overlaps, ClonedOverwrites, LacksEveryone

\* A channel is created with overwrites in order, or is about to get them.
LEMMA CreateIsOrderly ==
    ASSUME TypeOK, NoDanglingReference, NEW q \in Requests, Orderly(q),
           NEW u \in Users, NEW c \in Channels,
           NEW parent \in Channels \cup {NoParent}, NEW isPrivate \in BOOLEAN,
           CreateChannel(q, u, c, parent, isPrivate)
    PROVE  Orderly(q)'
<1> DEFINE rows == InitialRows(parent, isPrivate)
           row  == [parent |-> parent, isSynced |-> rows = NoOverwrites, ownerId |-> u]
           req  == [op |-> "create", ch |-> c, rows |-> rows]
<1>1. /\ requests[q] = Idle /\ c \notin issued /\ issued' = issued \cup {c}
      /\ channels' = [channels EXCEPT ![c] = row] /\ UNCHANGED <<overwrites, bare>>
      /\ requests'[q] = IF rows = NoOverwrites THEN Idle ELSE req
      /\ parent # NoParent => Exists(parent)
  BY DEF CreateChannel, Start, TypeOK
<1>2. row # NoRow /\ row.parent = parent /\ row.isSynced = (rows = NoOverwrites)
  BY RowIsNotNoRow DEF Row
<1>3. /\ parent = NoParent => rows # NoOverwrites
      /\ rows # NoOverwrites => rows[Everyone] # NoRow /\ \A t \in Target : ~Overlaps(rows[t])
  <2>1. /\ [allow |-> {}, deny |-> {}] \in Overwrite
        /\ [allow |-> {}, deny |-> {VIEW_CHANNELS}] \in Overwrite
    BY GuildAssumption DEF Overwrite, Mask
  <2>2. ASSUME NEW ow \in Overwrite, ow.allow = {}, rows = One(Everyone, ow)
        PROVE  rows[Everyone] # NoRow /\ \A t \in Target : ~Overlaps(rows[t])
    BY <2>2, Cells, RowIsNotNoRow DEF Overlaps
  <2>3. \A ow \in Overwrite : One(Everyone, ow) # NoOverwrites
    BY Cells, RowIsNotNoRow
  <2> QED
    BY <2>1, <2>2, <2>3 DEF InitialRows
<1>4. ~Exists(c) /\ overwrites[c] = NoOverwrites
  BY <1>1, OrderlyNow DEF NoDanglingReference
<1> HIDE DEF rows, row
<1>5. /\ channels'[c] = row /\ \A d \in Channels \ {c} : channels'[d] = channels[d]
  BY <1>1 DEF TypeOK
<1>6. \A d \in Channels : channels'[d] # NoRow => d \in issued'
  BY <1>1, <1>5, OrderlyNow
<1>7. ParentIsOther'
  BY <1>1, <1>2, <1>5, OrderlyNow, GuildAssumption DEF ParentIsOther
<1>8. \A d \in Channels \ {c} : channels'[d] # NoRow => InOrder(d)'
  BY <1>1, <1>5, OrderlyNow, OrderStays
<1>9. CASE rows = NoOverwrites
  <2>1. InOrder(c)'
    <3>1. overwrites'[c] = NoOverwrites /\ channels'[c].isSynced
      BY <1>1, <1>2, <1>4, <1>5, <1>9
    <3>2. \A t \in Target : ~Overlaps(overwrites'[c][t])
      BY <3>1, Cells DEF Overlaps
    <3> QED
      BY <3>1, <3>2 DEF InOrder, Overlaps
  <2> QED
    BY <1>1, <1>6, <1>7, <1>8, <1>9, <2>1, OrderlyNext
<1>10. CASE rows # NoOverwrites
  <2>1. /\ ~channels'[c].isSynced /\ overwrites'[c] = NoOverwrites /\ channels'[c] # NoRow
    BY <1>1, <1>2, <1>4, <1>5, <1>10
  <2>2. InFlight(req)'
    BY <1>3, <1>10, <2>1 DEF InFlight, CreateInFlight, Overlaps
  <2>3. req # Idle /\ req.ch = c
    BY DEF Idle
  <2> QED
    BY <1>1, <1>6, <1>7, <1>8, <1>10, <2>2, <2>3, OrderlyNext
<1> QED
  BY <1>9, <1>10

\* Deleting a channel changes of the others no more than which they follow.
LEMMA DeleteIsOrderly ==
    ASSUME TypeOK, NEW q \in Requests, Orderly(q),
           NEW u \in Users, NEW c \in Channels, DeleteChannel(q, u, c)
    PROVE  Orderly(q)'
<1>1. /\ requests[q] = Idle /\ requests' = requests /\ issued' = issued /\ bare' = bare
      /\ overwrites' = [overwrites EXCEPT ![c] = NoOverwrites]
      /\ \A d \in Channels : channels'[d] =
            IF d = c THEN NoRow
            ELSE IF channels[d] # NoRow /\ channels[d].parent = c
            THEN [channels[d] EXCEPT !.parent = NoParent]
            ELSE channels[d]
  BY DEF DeleteChannel
<1>2. ASSUME NEW d \in Channels, channels'[d] # NoRow
      PROVE  /\ d # c /\ channels[d] # NoRow
             /\ channels'[d].isSynced = channels[d].isSynced
             /\ channels'[d].parent \in {NoParent, channels[d].parent}
             /\ overwrites'[d] = overwrites[d]
  BY <1>1, <1>2 DEF TypeOK, Row
<1>3. \A d \in Channels : channels'[d] # NoRow => d \in issued'
  BY <1>1, <1>2, OrderlyNow
<1>4. ParentIsOther'
  BY <1>2, OrderlyNow, GuildAssumption DEF ParentIsOther
<1>5. ASSUME NEW d \in Channels, channels'[d] # NoRow
      PROVE  InOrder(d)'
  <2>1. InOrder(d)
    BY <1>1, <1>2, <1>5, OrderlyNow
  <2> QED
    BY <1>1, <1>2, <1>5, <2>1 DEF InOrder, Follows, Overlaps
<1> QED
  BY <1>1, <1>3, <1>4, <1>5, OrderlyNext DEF TypeOK

\* What a channel follows is another channel.
LEMMA FollowedIsOther ==
    ASSUME TypeOK, NoDanglingReference, NEW q \in Requests, Orderly(q),
           NEW c \in Channels, Exists(c), Follows(c)
    PROVE  /\ channels[c].parent \in Channels
           /\ Exists(channels[c].parent) /\ channels[c].parent # c
<1>1. channels[c] \in Row /\ channels[c].parent # NoParent
  BY DEF TypeOK, Follows
<1>2. channels[c].parent \in Channels /\ channels[c].parent \in Existing
  BY <1>1 DEF NoDanglingReference, Row
<1>3. channels[c].parent # c
  BY OrderlyNow DEF ParentIsOther
<1> QED
  BY <1>2, <1>3

\* A request that begins by reading the row carries it as it is.
LEMMA ReadIsOrderly ==
    ASSUME TypeOK, NoDanglingReference, NEW q \in Requests, Orderly(q), NEW c \in Channels
    PROVE  /\ \A u \in Users : Rename(q, u, c) => Orderly(q)'
           /\ MessageCreated(q, c) => Orderly(q)'
           /\ \A u \in Users : SyncChannel(q, u, c) => Orderly(q)'
           /\ \A u \in Users, t \in TargetInputs, ow \in OverwriteInputs :
                 UpdateOverwrite(q, u, c, t, ow) => Orderly(q)'
<1>1. ASSUME NEW req, req # Idle, req.ch = c,
             Start(q, req), Exists(c), UNCHANGED <<channels, overwrites, issued>>,
             \A d \in Channels \ {c} : d \in bare => d \in bare',
             InOrder(c) => InFlight(req)'
      PROVE  Orderly(q)'
  <2>1. requests[q] = Idle /\ requests'[q] = req
    BY <1>1 DEF Start, TypeOK
  <2>2. InFlight(req)'
    BY <1>1, <2>1, OrderlyNow
  <2>3. \A d \in Channels : channels'[d] # NoRow /\ (req # Idle => req.ch # d) => InOrder(d)'
    BY <1>1, <2>1, OrderlyNow, OrderStays
  <2>4. ParentIsOther' /\ \A d \in Channels : channels'[d] # NoRow => d \in issued'
    BY <1>1, <2>1, OrderlyNow DEF ParentIsOther
  <2> QED
    BY <2>1, <2>2, <2>3, <2>4, OrderlyNext
<1>2. ASSUME Exists(c),
             Start(q, [op |-> "touch", stage |-> "row", ch |-> c, row |-> channels[c]]),
             UNCHANGED <<channels, overwrites, issued, bare>>
      PROVE  Orderly(q)'
  <2> DEFINE req == [op |-> "touch", stage |-> "row", ch |-> c, row |-> channels[c]]
  <2>1. InOrder(c) => InFlight(req)'
    BY <1>2 DEF InFlight, InOrder, Follows, Overlaps
  <2>2. req # Idle /\ req.ch = c
    BY DEF Idle
  <2> QED
    BY <1>1, <1>2, <2>1, <2>2
<1>3. ASSUME NEW u \in Users, SyncChannel(q, u, c)
      PROVE  Orderly(q)'
  <2> DEFINE req == [op |-> "sync", stage |-> "clear", ch |-> c,
                     row |-> [channels[c] EXCEPT !.isSynced = TRUE],
                     targets |-> TargetsOf(overwrites[c])]
  <2>1. /\ Start(q, req) /\ Exists(c) /\ channels[c].parent # NoParent
        /\ UNCHANGED <<channels, overwrites, issued, bare>>
    BY <1>3 DEF SyncChannel
  <2>2. InOrder(c) => InFlight(req)'
    BY <2>1 DEF InFlight, SyncInFlight, InOrder, Overlaps
  <2>3. req # Idle /\ req.ch = c
    BY DEF Idle
  <2> QED
    BY <1>1, <2>1, <2>2, <2>3
<1>4. ASSUME NEW u \in Users, NEW t \in TargetInputs, NEW ow \in OverwriteInputs,
             UpdateOverwrite(q, u, c, t, ow)
      PROVE  Orderly(q)'
  <2>1. PICK req :
           req = [op |-> "overwrite", ch |-> c, target |-> t, ow |-> ow,
                  stage  |-> IF Follows(c) THEN "clones" ELSE "row",
                  row    |-> IF Follows(c) THEN [channels[c] EXCEPT !.isSynced = FALSE]
                             ELSE channels[c],
                  clones |-> IF Follows(c) THEN ClonedOverwrites(c, t, ow) ELSE NoOverwrites]
    OBVIOUS
  <2>2. Start(q, req) /\ Exists(c) /\ UNCHANGED <<channels, overwrites, issued>>
    BY <1>4, <2>1 DEF UpdateOverwrite
  <2>3. /\ req.op = "overwrite" /\ req.ch = c /\ req.target = t /\ req.ow = ow
        /\ req.stage = IF Follows(c) THEN "clones" ELSE "row"
        /\ req.row = IF Follows(c) THEN [channels[c] EXCEPT !.isSynced = FALSE] ELSE channels[c]
        /\ Follows(c) => req.clones = ClonedOverwrites(c, t, ow)
    BY <2>1
  <2>4. bare' = IF Follows(c) /\ t # Everyone /\ LacksEveryone(channels[c].parent)
                THEN bare \cup {c}
                ELSE IF Follows(c) \/ t = Everyone THEN bare \ {c} ELSE bare
    BY <1>4 DEF UpdateOverwrite
  <2>5. ASSUME InOrder(c)
        PROVE  InFlight(req)'
    <3>1. CASE Follows(c)
      <4>1. channels[c].parent # c
        BY <2>2, <3>1, FollowedIsOther
      <4>2. LacksEveryone(channels[c].parent)' => LacksEveryone(channels[c].parent)
        BY <2>2, <2>4, <4>1 DEF LacksEveryone
      <4>3. LacksEveryone(channels[c].parent) => c \in bare' \/ t = Everyone
        BY <2>4, <3>1
      <4> QED
        BY <2>2, <2>3, <2>5, <3>1, <4>2, <4>3
           DEF InFlight, OverwriteInFlight, InOrder, Follows, ClonedOverwrites
    <3>2. CASE ~Follows(c)
      BY <2>2, <2>3, <2>4, <2>5, <3>2
         DEF InFlight, OverwriteInFlight, InOrder, Follows, Overlaps
    <3> QED
      BY <3>1, <3>2
  <2>6. req # Idle
    BY <2>3 DEF Idle
  <2>7. \A d \in Channels \ {c} : d \in bare => d \in bare'
    BY <2>4
  <2> QED
    BY <1>1, <2>2, <2>3, <2>5, <2>6, <2>7
<1> QED
  BY <1>2, <1>3, <1>4 DEF Rename, MessageCreated

\* Deleting an overwrite leaves that of @everyone.
LEMMA DeleteOverwriteIsOrderly ==
    ASSUME TypeOK, NEW q \in Requests, Orderly(q), NEW u \in Users, NEW c \in Channels,
           NEW t \in TargetInputs, DeleteOverwrite(q, u, c, t)
    PROVE  Orderly(q)'
<1>1. /\ requests[q] = Idle /\ requests'[q] = Idle /\ Exists(c)
      /\ t \in TargetsOf(overwrites[c]) /\ t # Everyone
      /\ UNCHANGED <<channels, issued, bare>>
      /\ overwrites' = [overwrites EXCEPT ![c] = Without(overwrites[c], {t})]
  BY DEF DeleteOverwrite
<1>2. InOrder(c) /\ \A d \in Existing : InOrder(d)
  BY <1>1, OrderlyNow
<1>3. InOrder(c)'
  <2>1. overwrites'[c] = Without(overwrites[c], {t})
    BY <1>1 DEF TypeOK
  <2>2. overwrites'[c][Everyone] = overwrites[c][Everyone]
    BY <1>1, <2>1, Cells
  <2>3. \A s \in Target : ~Overlaps(overwrites'[c][s])
    BY <1>2, <2>1, Cells DEF InOrder, Overlaps
  <2>4. ~Follows(c)
    BY <1>1, <1>2, Cells DEF InOrder, TargetsOf
  <2> QED
    BY <1>1, <1>2, <2>2, <2>3, <2>4 DEF InOrder, Follows, Overlaps
<1>4. ASSUME NEW d \in Channels, channels'[d] # NoRow
      PROVE  InOrder(d)'
  <2>1. CASE d = c
    BY <1>3, <2>1
  <2>2. CASE d # c
    BY <1>1, <1>2, <1>4, <2>2, OrderStays DEF TypeOK
  <2> QED
    BY <2>1, <2>2
<1>5. ParentIsOther' /\ \A d \in Channels : channels'[d] # NoRow => d \in issued'
  BY <1>1, OrderlyNow DEF ParentIsOther
<1> QED
  BY <1>1, <1>4, <1>5, OrderlyNext

\* A step of the request in the slot that writes overwrites of its own channel alone.
LEMMA WriteIsOrderly ==
    ASSUME TypeOK, NEW q \in Requests, Orderly(q), NEW req, requests[q] = req, req # Idle,
           req.ch \in Channels, NEW next, requests'[q] = next,
           UNCHANGED <<channels, issued, bare>>,
           \A d \in Channels \ {req.ch} : overwrites'[d] = overwrites[d],
           \/ next = Idle /\ InOrder(req.ch)'
           \/ next # Idle /\ next.ch = req.ch /\ InFlight(next)'
    PROVE  Orderly(q)'
<1>1. \A d \in Channels \ {req.ch} : channels'[d] # NoRow => InOrder(d)'
  BY OrderlyNow, OrderStays
<1>2. ParentIsOther' /\ \A d \in Channels : channels'[d] # NoRow => d \in issued'
  BY OrderlyNow DEF ParentIsOther
<1>3. CASE next = Idle /\ InOrder(req.ch)'
  <2>1. \A d \in Channels : channels'[d] # NoRow => InOrder(d)'
    BY <1>1, <1>3
  <2> QED
    BY <1>2, <1>3, <2>1, OrderlyNext
<1>4. CASE next # Idle /\ next.ch = req.ch /\ InFlight(next)'
  BY <1>1, <1>2, <1>4, OrderlyNext
<1> QED
  BY <1>3, <1>4

\* The row a request saves is the stored one, but for being synced or not.
LEMMA SaveRowIsOrderly ==
    ASSUME TypeOK, NoDanglingReference, NEW q \in Requests, Orderly(q), SaveRow(q)
    PROVE  Orderly(q)'
<1>1. PICK req : req = requests[q]
  OBVIOUS
<1>2. /\ req \in Request /\ req # Idle /\ req.ch \in Channels /\ req.row \in Row
      /\ req.op \in {"touch", "overwrite", "sync"} /\ req.stage = "row"
  BY <1>1, RequestKind DEF SaveRow, TypeOK, Idle
<1>3. InFlight(req) /\ channels[req.ch] \in Row
  BY <1>1, <1>2, OrderlyNow DEF InFlight, TypeOK
<1>4. /\ req.row.parent = channels[req.ch].parent
      /\ req.op = "touch" => req.row = channels[req.ch]
      /\ req.op = "sync" => req.row.isSynced /\ channels[req.ch].parent # NoParent
      /\ req.op = "overwrite" =>
            IF Follows(req.ch) THEN ~req.row.isSynced ELSE req.row = channels[req.ch]
  BY <1>2, <1>3 DEF InFlight, OverwriteInFlight, SyncInFlight, Row
<1>5. ParentExists(req.row)
  BY <1>2, <1>3, <1>4 DEF ParentExists, NoDanglingReference, InFlight
<1>6. PICK next : next = IF req.op = "overwrite" THEN [req EXCEPT !.stage = "overwrite"] ELSE Idle
  OBVIOUS
<1>7. /\ channels' = [channels EXCEPT ![req.ch] = req.row]
      /\ requests'[q] = next /\ UNCHANGED <<overwrites, issued, bare>>
  BY <1>1, <1>5, <1>6 DEF SaveRow, MoveTo, Finish, TypeOK
<1>8. channels'[req.ch] = req.row /\ \A d \in Channels \ {req.ch} : channels'[d] = channels[d]
  BY <1>2, <1>7 DEF TypeOK
<1>9. \A d \in Channels : channels'[d] # NoRow => d \in issued'
  BY <1>1, <1>2, <1>3, <1>7, <1>8, OrderlyNow DEF InFlight
<1>10. ParentIsOther'
  BY <1>1, <1>2, <1>3, <1>4, <1>8, OrderlyNow DEF ParentIsOther, InFlight
<1>11. \A d \in Channels \ {req.ch} : channels'[d] # NoRow => InOrder(d)'
  BY <1>1, <1>2, <1>7, <1>8, OrderlyNow, OrderStays
<1>12. CASE req.op = "touch"
  <2>1. InOrder(req.ch)'
    BY <1>3, <1>4, <1>7, <1>8, <1>12, OrderStays DEF InFlight
  <2> QED
    BY <1>6, <1>7, <1>9, <1>10, <1>11, <1>12, <2>1, OrderlyNext
<1>13. CASE req.op = "sync"
  <2>1. overwrites[req.ch] = NoOverwrites
    BY <1>2, <1>3, <1>13 DEF InFlight, SyncInFlight
  <2>2. InOrder(req.ch)'
    BY <1>4, <1>7, <1>8, <1>13, <2>1, Cells DEF InOrder, Overlaps
  <2> QED
    BY <1>6, <1>7, <1>9, <1>10, <1>11, <1>13, <2>2, OrderlyNext
<1>14. CASE req.op = "overwrite"
  <2>1. req \in OverwriteRequest
    BY <1>2, <1>14, RequestKind
  <2>2. /\ next.op = "overwrite" /\ next.stage = "overwrite" /\ next.ch = req.ch
        /\ next.row = req.row /\ next.target = req.target
        /\ next # Idle
    BY <1>6, <1>14, <2>1 DEF OverwriteRequest, Idle
  <2>3. OverwriteInFlight(req) /\ Exists(req.ch)
    BY <1>3, <1>14 DEF InFlight
  <2>4. /\ \/ channels'[req.ch].isSynced \/ overwrites[req.ch][Everyone] # NoRow
           \/ req.ch \in bare \/ req.target = Everyone
        /\ \A t \in Target \ {req.target} : ~Overlaps(overwrites[req.ch][t])
        /\ ~(channels'[req.ch].isSynced /\ channels'[req.ch].parent # NoParent)
    <3>1. CASE ~Follows(req.ch)
      BY <1>4, <1>8, <1>14, <2>3, <3>1 DEF OverwriteInFlight, Follows
    <3>2. CASE Follows(req.ch)
      <4>1. PICK parent \in Channels :
               parent = channels[req.ch].parent /\ Exists(parent) /\ parent # req.ch
        BY <1>2, <2>3, <3>2, FollowedIsOther
      <4>2. InOrder(parent)
        BY <1>1, <4>1, OrderlyNow
      <4>3. overwrites[req.ch] = Upsert(overwrites[parent], One(req.target, req.ow))
        BY <1>2, <2>3, <3>2, <4>1 DEF OverwriteInFlight, ClonedOverwrites
      <4>4. req.target \in Target /\ req.ow # NoRow
        BY <2>1, RowIsNotNoRow DEF OverwriteRequest
      <4>5. overwrites[req.ch][Everyone] # NoRow \/ req.ch \in bare \/ req.target = Everyone
        <5>1. CASE LacksEveryone(parent)
          BY <2>3, <3>2, <4>1, <5>1 DEF OverwriteInFlight
        <5>2. CASE ~LacksEveryone(parent)
          BY <4>2, <4>3, <4>4, <5>2, Cells DEF InOrder, LacksEveryone
        <5> QED
          BY <5>1, <5>2
      <4>6. \A t \in Target \ {req.target} : overwrites[req.ch][t] = overwrites[parent][t]
        BY <4>3, <4>4, Cells
      <4> QED
        BY <1>4, <1>8, <1>14, <3>2, <4>2, <4>5, <4>6 DEF InOrder
    <3> QED
      BY <3>1, <3>2
  <2>5. InFlight(next)'
    BY <1>2, <1>7, <1>8, <2>2, <2>4, RowIsNotNoRow DEF InFlight, OverwriteInFlight, Follows, Overlaps
  <2> QED
    BY <1>7, <1>9, <1>10, <1>11, <2>2, <2>5, OrderlyNext
<1> QED
  BY <1>2, <1>12, <1>13, <1>14

\* The writes of a request leave the overwrites of its channel in order when it is done.
LEMMA StepIsOrderly ==
    ASSUME ~Faults, TypeOK, NoDanglingReference, NEW q \in Requests, Orderly(q), RequestStep(q)
    PROVE  Orderly(q)'
<1>1. PICK req : req = requests[q]
  OBVIOUS
<1>2. /\ req \in Request \cup {Idle}
      /\ overwrites \in [Channels -> Overwrites] /\ channels \in [Channels -> Row \cup {NoRow}]
      /\ requests \in [Requests -> Request \cup {Idle}]
  BY <1>1 DEF TypeOK
<1>3. CASE FinishCreate(q)
  <2>1. req # Idle /\ req.op = "create" /\ req \in CreateRequest /\ req.ch \in Channels
    BY <1>1, <1>2, <1>3, RequestKind DEF FinishCreate, Idle
  <2>2. Exists(req.ch) /\ CreateInFlight(req)
    BY <1>1, <2>1, OrderlyNow DEF InFlight
  <2>3. /\ requests'[q] = Idle /\ UNCHANGED <<channels, issued, bare>>
        /\ overwrites' = [overwrites EXCEPT ![req.ch] = Upsert(overwrites[req.ch], req.rows)]
    BY <1>1, <1>2, <1>3, <2>2 DEF FinishCreate, Finish
  <2>4. overwrites'[req.ch] = req.rows
    BY <1>2, <2>1, <2>2, <2>3, Cells DEF CreateInFlight, CreateRequest
  <2>5. InOrder(req.ch)'
    BY <2>2, <2>3, <2>4 DEF CreateInFlight, InOrder, Follows, Overlaps
  <2> QED
    BY <1>1, <1>2, <2>1, <2>3, <2>5, WriteIsOrderly
<1>4. CASE SaveClones(q)
  <2>1. /\ req # Idle /\ req.op = "overwrite" /\ req.stage = "clones"
        /\ req \in OverwriteRequest /\ req.ch \in Channels
    BY <1>1, <1>2, <1>4, RequestKind DEF SaveClones, Idle
  <2>2. Exists(req.ch) /\ OverwriteInFlight(req)
    BY <1>1, <2>1, OrderlyNow DEF InFlight
  <2>3. PICK next : next = [req EXCEPT !.stage = "row"]
    OBVIOUS
  <2>4. /\ requests'[q] = next /\ UNCHANGED <<channels, issued, bare>>
        /\ overwrites' = [overwrites EXCEPT ![req.ch] = Upsert(overwrites[req.ch], req.clones)]
    BY <1>1, <1>2, <1>4, <2>2, <2>3 DEF SaveClones, MoveTo
  <2>5. /\ Follows(req.ch) /\ overwrites[req.ch] = NoOverwrites
        /\ req.row = [channels[req.ch] EXCEPT !.isSynced = FALSE]
        /\ req.clones = ClonedOverwrites(req.ch, req.target, req.ow)
    BY <2>1, <2>2 DEF OverwriteInFlight
  <2>6. /\ overwrites'[req.ch] = req.clones
        /\ \A d \in Channels \ {req.ch} : overwrites'[d] = overwrites[d]
    BY <1>2, <2>1, <2>4, <2>5, Cells DEF OverwriteRequest
  <2>7. /\ next.op = "overwrite" /\ next.stage = "row" /\ next.ch = req.ch /\ next.row = req.row
        /\ next.clones = req.clones /\ next.target = req.target /\ next.ow = req.ow
        /\ next # Idle
    BY <2>1, <2>3 DEF OverwriteRequest, Idle
  <2>8. ClonedOverwrites(req.ch, req.target, req.ow)' = ClonedOverwrites(req.ch, req.target, req.ow)
    <3>1. channels[req.ch].parent \in Channels /\ channels[req.ch].parent # req.ch
      BY <1>1, <1>2, <2>1, <2>2, <2>5, FollowedIsOther
    <3> QED
      BY <2>4, <2>6, <3>1 DEF ClonedOverwrites
  <2>9. InFlight(next)'
    BY <2>2, <2>4, <2>5, <2>6, <2>7, <2>8
       DEF InFlight, OverwriteInFlight, Follows, LacksEveryone
  <2> QED
    BY <1>1, <2>1, <2>4, <2>6, <2>7, <2>9, WriteIsOrderly
<1>5. CASE SaveRow(q)
  BY <1>5, SaveRowIsOrderly
<1>6. CASE SaveOverwrite(q)
  <2>1. /\ req # Idle /\ req.op = "overwrite" /\ req.stage = "overwrite"
        /\ req \in OverwriteRequest /\ req.ch \in Channels /\ req.target \in Target
    BY <1>1, <1>2, <1>6, RequestKind DEF SaveOverwrite, Idle, OverwriteRequest
  <2>2. Exists(req.ch) /\ OverwriteInFlight(req)
    BY <1>1, <2>1, OrderlyNow DEF InFlight
  <2>3. PICK ow \in Overwrite : ow = Cleaned(req.ow)
    BY <2>1, OverwritesType DEF OverwriteRequest
  <2>4. /\ requests'[q] = Idle /\ UNCHANGED <<channels, issued, bare>>
        /\ overwrites' = [overwrites EXCEPT ![req.ch] = Upsert(overwrites[req.ch], One(req.target, ow))]
    BY <1>1, <1>2, <1>6, <2>2, <2>3 DEF SaveOverwrite, Finish
  <2>5. /\ \A t \in Target : overwrites'[req.ch][t] =
              IF t = req.target THEN ow ELSE overwrites[req.ch][t]
        /\ \A d \in Channels \ {req.ch} : overwrites'[d] = overwrites[d]
    BY <1>2, <2>1, <2>3, <2>4, Cells, RowIsNotNoRow
  <2>6. ow # NoRow /\ ow.allow \cap ow.deny = {}
    BY <2>3, RowIsNotNoRow DEF Cleaned
  <2>7. /\ ~Follows(req.ch)
        /\ \/ channels[req.ch].isSynced \/ overwrites[req.ch][Everyone] # NoRow
           \/ req.ch \in bare \/ req.target = Everyone
        /\ \A t \in Target \ {req.target} : ~Overlaps(overwrites[req.ch][t])
    BY <2>1, <2>2 DEF OverwriteInFlight
  <2>8. InOrder(req.ch)'
    BY <2>4, <2>5, <2>6, <2>7, Cells DEF InOrder, Follows, Overlaps
  <2> QED
    BY <1>1, <2>1, <2>4, <2>5, <2>8, WriteIsOrderly
<1>7. CASE ClearOverwrites(q)
  <2>1. /\ req # Idle /\ req.op = "sync" /\ req.stage = "clear"
        /\ req \in SyncRequest /\ req.ch \in Channels
    BY <1>1, <1>2, <1>7, RequestKind DEF ClearOverwrites, Idle
  <2>2. Exists(req.ch) /\ SyncInFlight(req)
    BY <1>1, <2>1, OrderlyNow DEF InFlight
  <2>3. PICK next : next = [req EXCEPT !.stage = "row"]
    OBVIOUS
  <2>4. /\ requests'[q] = next /\ UNCHANGED <<channels, issued, bare>>
        /\ overwrites' = [overwrites EXCEPT ![req.ch] = Without(overwrites[req.ch], req.targets)]
    BY <1>1, <1>2, <1>7, <2>3 DEF ClearOverwrites, MoveTo
  <2>5. /\ overwrites'[req.ch] = NoOverwrites
        /\ \A d \in Channels \ {req.ch} : overwrites'[d] = overwrites[d]
    BY <1>2, <2>1, <2>2, <2>4, Cells DEF SyncInFlight
  <2>6. /\ next.op = "sync" /\ next.stage = "row" /\ next.ch = req.ch /\ next.row = req.row
        /\ next # Idle
    BY <2>1, <2>3 DEF SyncRequest, Idle
  <2>7. InFlight(next)'
    BY <2>2, <2>4, <2>5, <2>6, Cells DEF InFlight, SyncInFlight, Overlaps
  <2> QED
    BY <1>1, <2>1, <2>4, <2>5, <2>6, <2>7, WriteIsOrderly
<1> QED
  BY <1>3, <1>4, <1>5, <1>6, <1>7 DEF RequestStep, Abandon

\* The one request slot is orderly at the start and after every step.
LEMMA OrderlyAlways ==
    ASSUME ~Faults, NEW q, Requests = {q}
    PROVE  Spec => []Orderly(q)
<1>1. Init => Orderly(q)
  BY DEF Init, Orderly, ParentIsOther
<1>2. TypeOK /\ NoDanglingReference /\ Orderly(q) /\ [Next]_vars => Orderly(q)'
  <2> SUFFICES ASSUME TypeOK, NoDanglingReference, Orderly(q), [Next]_vars PROVE Orderly(q)'
    OBVIOUS
  <2>1. ASSUME UNCHANGED <<channels, overwrites, requests, bare>>, issued \subseteq issued'
        PROVE  Orderly(q)'
    <3>1. PICK req : req = requests[q]
      OBVIOUS
    <3>2. req # Idle => InFlight(req)'
      BY <2>1, <3>1, OrderlyNow
         DEF InFlight, CreateInFlight, OverwriteInFlight, SyncInFlight, InOrder, Follows,
             Overlaps, ClonedOverwrites, LacksEveryone
    <3>3. \A c \in Channels : channels'[c] # NoRow /\ (req # Idle => req.ch # c) => InOrder(c)'
      BY <2>1, <3>1, OrderlyNow, OrderStays
    <3>4. ParentIsOther' /\ \A c \in Channels : channels'[c] # NoRow => c \in issued'
      BY <2>1, <3>1, OrderlyNow DEF ParentIsOther
    <3> QED
      BY <2>1, <3>1, <3>2, <3>3, <3>4, OrderlyNext
  <2>2. CASE UNCHANGED vars
    BY <2>1, <2>2 DEF vars, channelVars
  <2>3. CASE GuildRequest
    <3>1. UNCHANGED <<channels, overwrites, requests, bare>> /\ issued \subseteq issued'
      BY <2>3 DEF GuildRequest, Join, Leave, CreateRole, UpdateRole, DeleteRole, AssignRole,
                  UpdateMember, channelVars
    <3> QED
      BY <2>1, <3>1
  <2>4. CASE ChannelRequest(q)
    BY <2>4, CreateIsOrderly, DeleteIsOrderly, ReadIsOrderly, DeleteOverwriteIsOrderly
       DEF ChannelRequest
  <2>5. CASE RequestStep(q)
    BY <2>5, StepIsOrderly
  <2> QED
    BY <2>2, <2>3, <2>4, <2>5 DEF Next
<1> QED
  BY <1>1, <1>2, TypeCorrect, ReferencesHold, PTL DEF Spec

\* With one slot, the overwrites are in order whenever it is orderly.
LEMMA OrderlyIsInOrder ==
    ASSUME TypeOK, NoDanglingReference, NEW q, Requests = {q}, Orderly(q)
    PROVE  OverlapIsTransient /\ UnsyncedHasEveryone /\ FollowerHasNoOverwrites
<1>1. PICK req : req = requests[q]
  OBVIOUS
<1>2. req \in Request \cup {Idle} /\ DOMAIN requests = {q}
  BY <1>1 DEF TypeOK
<1>3. ASSUME NEW c \in Existing, AtRest(c)
      PROVE  InOrder(c)
  BY <1>1, <1>2, <1>3, OrderlyNow DEF AtRest
<1>4. UnsyncedHasEveryone
  BY <1>3, Cells DEF UnsyncedHasEveryone, InOrder, TargetsOf
<1>5. FollowerHasNoOverwrites
  BY <1>3 DEF FollowerHasNoOverwrites, InOrder
<1>6. OverlapIsTransient
  <2> SUFFICES ASSUME NEW c \in Channels, NEW t \in Target, Overlaps(overwrites[c][t])
               PROVE  req.op = "overwrite" /\ req.ch = c /\ req.target = t
    BY <1>1, <1>2 DEF OverlapIsTransient, TargetsOf, Overlaps
  <2>1. Exists(c)
    BY Cells DEF NoDanglingReference, Overlaps
  <2>2. ~InOrder(c)
    BY DEF InOrder
  <2>3. req # Idle /\ req.ch = c
    BY <1>1, <2>1, <2>2, OrderlyNow
  <2>4. InFlight(req) /\ req \in Request
    BY <1>1, <1>2, <2>3, OrderlyNow
  <2>5. CASE req.op = "create"
    BY <2>3, <2>4, <2>5, Cells DEF InFlight, CreateInFlight, Overlaps
  <2>6. CASE req.op = "touch"
    BY <2>2, <2>3, <2>4, <2>6 DEF InFlight
  <2>7. CASE req.op = "sync"
    <3>1. CASE req.stage = "clear"
      BY <2>2, <2>3, <2>4, <2>7, <3>1 DEF InFlight, SyncInFlight
    <3>2. CASE req.stage # "clear"
      BY <2>3, <2>4, <2>7, <3>2, Cells DEF InFlight, SyncInFlight, Overlaps
    <3> QED
      BY <3>1, <3>2
  <2>8. CASE req.op = "overwrite"
    <3>1. OverwriteInFlight(req) /\ req \in OverwriteRequest
      BY <2>4, <2>8, <1>2, RequestKind DEF InFlight
    <3>2. CASE ~Follows(c)
      BY <2>3, <2>8, <3>1, <3>2 DEF OverwriteInFlight
    <3>3. CASE Follows(c)
      <4>1. PICK parent \in Channels :
               parent = channels[c].parent /\ Exists(parent) /\ parent # c
        BY <2>1, <3>3, FollowedIsOther
      <4>2. InOrder(parent)
        BY <1>1, <2>3, <4>1, OrderlyNow
      <4>3. \/ overwrites[c] = NoOverwrites
            \/ overwrites[c] = Upsert(overwrites[parent], One(req.target, req.ow))
        BY <2>3, <3>1, <3>3, <4>1 DEF OverwriteInFlight, ClonedOverwrites
      <4>4. \A s \in Target : s # req.target /\ req.target \in Target =>
               Upsert(overwrites[parent], One(req.target, req.ow))[s] = overwrites[parent][s]
        BY Cells
      <4>5. req.target \in Target
        BY <3>1 DEF OverwriteRequest
      <4> QED
        BY <2>3, <2>8, <4>2, <4>3, <4>4, <4>5, Cells DEF InOrder, Overlaps
    <3> QED
      BY <3>2, <3>3
  <2> QED
    BY <2>4, <2>5, <2>6, <2>7, <2>8
       DEF Request, CreateRequest, OverwriteRequest, SyncRequest, TouchRequest
<1> QED
  BY <1>4, <1>5, <1>6

\* There is one slot when requests come one at a time.
LEMMA OneSlot ==
    ASSUME TypeOK, OneAtATime
    PROVE  \E q : Requests = {q}
<1>1. Cardinality(Requests) = 1
  BY DEF TypeOK, OneAtATime
<1> QED
  BY <1>1, GuildAssumption, FS_Singleton

\* One request at a time and none that fails half way: the overwrites of every channel are in
\* order.  However an update unsyncs, clones, saves and cleans (channels.service.ts:1308-1377),
\* a stored overwrite contradicts itself only until the same update is done, a channel that is
\* not synced keeps an overwrite for @everyone, unless it cloned those of a synced channel, which
\* has none, and one that follows its parent has none of its own.
THEOREM OverwritesStayInOrder ==
    ASSUME ~Faults PROVE Spec => []OverwritesAreInOrder
<1>1. ASSUME NEW q, Requests = {q}
      PROVE  Spec => []OverwritesAreInOrder
  <2>1. TypeOK /\ NoDanglingReference /\ Orderly(q) => OverwritesAreInOrder
    BY <1>1, OrderlyIsInOrder DEF OverwritesAreInOrder
  <2> QED
    BY <1>1, <2>1, TypeCorrect, ReferencesHold, OrderlyAlways, PTL
<1>2. ASSUME ~\E q : Requests = {q}
      PROVE  Spec => []OverwritesAreInOrder
  <2>1. TypeOK => OverwritesAreInOrder
    BY <1>2, OneSlot DEF OverwritesAreInOrder
  <2> QED
    BY <2>1, TypeCorrect, PTL
<1> QED
  BY <1>1, <1>2

-----------------------------------------------------------------------------
(* What an overwrite update changes *)

\* An overwrite for neither a member, nor @everyone, nor a role of the member decides nothing
\* for that member.
LEMMA OtherTargetsDecide ==
    ASSUME NEW u \in Users, NEW rs \in SUBSET Roles, NEW t, t # u, t # Everyone, t \notin rs,
           NEW a, NEW b, \A s \in Target : s # t => a[s] = b[s], NEW base
    PROVE  ApplyChannelOverwrites(base, a, u, rs) = ApplyChannelOverwrites(base, b, u, rs)
<1>1. u \in Target /\ Everyone \in Target /\ rs \subseteq Target
  BY PermissionsAssumption DEF Target
<1>2. \A mask : ApplyIfSet(mask, a, u) = ApplyIfSet(mask, b, u)
  BY <1>1 DEF ApplyIfSet, TargetsOf
<1>3. ApplyIfSet(base, a, Everyone) = ApplyIfSet(base, b, Everyone)
  BY <1>1 DEF ApplyIfSet, TargetsOf
<1>4. {a[r] : r \in rs \cap TargetsOf(a)} = {b[r] : r \in rs \cap TargetsOf(b)}
  <2>1. rs \cap TargetsOf(a) = rs \cap TargetsOf(b) /\ \A r \in rs : a[r] = b[r]
    BY <1>1 DEF TargetsOf
  <2> QED
    BY <2>1
<1>5. MergedRoles(a, rs) = MergedRoles(b, rs)
  BY <1>4 DEF MergedRoles
<1> QED
  BY <1>2, <1>3, <1>5 DEF ApplyChannelOverwrites

\* So a member's permissions on a channel stay when only such overwrites change.
LEMMA PermissionStays ==
    ASSUME TypeOK, UNCHANGED guildVars,
           NEW c \in Channels, NEW u \in Users, NEW t, ~Concerns(t, u),
           Exists(c), channels'[c] # NoRow, channels'[c].ownerId = channels[c].ownerId,
           NEW a, EffectiveOverwrites(c) = a, NEW b, EffectiveOverwrites(c)' = b,
           \A s \in Target : s # t => a[s] = b[s]
    PROVE  EffectivePermission(u, c)' = EffectivePermission(u, c)
<1>1. PICK rs, base : rs = memberRoles[u] /\ base = BasePermission(u)
  OBVIOUS
<1>2. rs \in SUBSET Roles /\ t # u /\ t # Everyone /\ t \notin rs
  BY <1>1 DEF TypeOK, Concerns
<1>3. memberRoles'[u] = rs /\ BasePermission(u)' = base
  BY <1>1 DEF guildVars, BasePermission, RolePermissions
<1>4. ApplyChannelOverwrites(base, a, u, rs) = ApplyChannelOverwrites(base, b, u, rs)
  BY <1>2, OtherTargetsDecide
<1>5. EffectivePermission(u, c) =
         IF channels[c].ownerId = u THEN base ELSE ApplyChannelOverwrites(base, a, u, rs)
  BY <1>1 DEF EffectivePermission
<1>6. EffectivePermission(u, c)' =
         IF channels'[c].ownerId = u THEN base ELSE ApplyChannelOverwrites(base, b, u, rs)
  BY <1>3 DEF EffectivePermission, Existing
<1> QED
  BY <1>4, <1>5, <1>6

\* No write of an overwrite update changes what another target's members may do: the clones go
\* to a channel that still follows its parent, the row that unsyncs it hands over to them,
\* and the last write is of the one target.
LEMMA UpdateStepIsLocal ==
    ASSUME ~Faults, TypeOK, NoDanglingReference, NEW q \in Requests, Orderly(q), RequestStep(q),
           NEW req, requests[q] = req, req.op = "overwrite",
           NEW u \in Users, ~Concerns(req.target, u)
    PROVE  EffectivePermission(u, req.ch)' = EffectivePermission(u, req.ch)
<1> DEFINE c == req.ch
           t == req.target
<1>1. /\ req # Idle /\ req \in OverwriteRequest /\ c \in Channels /\ t \in Target
      /\ overwrites \in [Channels -> Overwrites] /\ channels \in [Channels -> Row \cup {NoRow}]
  <2>1. req \in Request \cup {Idle} /\ req # Idle
    BY DEF TypeOK, Idle
  <2> QED
    BY <2>1, RequestKind DEF TypeOK, OverwriteRequest
<1>2. Exists(c) /\ OverwriteInFlight(req) /\ channels[c] \in Row /\ channels[c] # NoRow
  BY <1>1, OrderlyNow DEF InFlight
<1>3. UNCHANGED guildVars
  BY DEF RequestStep, FinishCreate, SaveClones, SaveRow, SaveOverwrite, ClearOverwrites, Abandon
<1>4. PICK a : a = EffectiveOverwrites(c)
  OBVIOUS
<1>5. CASE SaveClones(q)
  <2>1. /\ req.stage = "clones" /\ UNCHANGED channels
        /\ overwrites' = [overwrites EXCEPT ![c] = Upsert(overwrites[c], req.clones)]
    BY <1>2, <1>5 DEF SaveClones
  <2>2. Follows(c)
    BY <1>2, <2>1 DEF OverwriteInFlight
  <2>3. channels[c].parent # c /\ channels[c].parent \in Channels
    BY <1>1, <1>2, <2>2, FollowedIsOther
  <2>4. EffectiveOverwrites(c)' = a
    BY <1>1, <1>4, <2>1, <2>2, <2>3 DEF EffectiveOverwrites, Follows
  <2> QED
    BY <1>1, <1>2, <1>3, <1>4, <2>1, <2>4, PermissionStays
<1>6. CASE SaveRow(q)
  <2>1. /\ UNCHANGED overwrites /\ req.stage = "row"
        /\ \/ UNCHANGED channels
           \/ channels' = [channels EXCEPT ![c] = req.row]
    BY <1>6 DEF SaveRow
  <2>2. CASE UNCHANGED channels
    <3>1. EffectiveOverwrites(c)' = a
      BY <1>4, <2>1, <2>2 DEF EffectiveOverwrites, Follows
    <3> QED
      BY <1>1, <1>2, <1>3, <1>4, <2>2, <3>1, PermissionStays
  <2>3. CASE channels' = [channels EXCEPT ![c] = req.row] /\ Follows(c)
    <3>1. channels'[c] = [channels[c] EXCEPT !.isSynced = FALSE]
      BY <1>1, <1>2, <2>3 DEF OverwriteInFlight
    <3>2. channels'[c] # NoRow /\ channels'[c].ownerId = channels[c].ownerId
          /\ ~channels'[c].isSynced
      <4>1. channels'[c] \in Row
        BY <1>2, <3>1 DEF Row
      <4> QED
        BY <1>2, <3>1, <4>1, RowIsNotNoRow DEF Row
    <3>3. EffectiveOverwrites(c)' = overwrites[c]
      BY <2>1, <3>2 DEF EffectiveOverwrites, Follows
    <3>4. /\ a = overwrites[channels[c].parent]
          /\ overwrites[c] = Upsert(overwrites[channels[c].parent], One(t, req.ow))
      BY <1>2, <1>4, <2>1, <2>3 DEF OverwriteInFlight, ClonedOverwrites, EffectiveOverwrites
    <3>5. \A s \in Target : s # t => a[s] = overwrites[c][s]
      BY <1>1, <3>4, Cells
    <3> QED
      BY <1>1, <1>2, <1>3, <1>4, <3>2, <3>3, <3>5, PermissionStays
  <2>4. CASE channels' = [channels EXCEPT ![c] = req.row] /\ ~Follows(c)
    <3>1. UNCHANGED channels
      BY <1>1, <1>2, <2>4 DEF OverwriteInFlight
    <3> QED
      BY <2>2, <3>1
  <2> QED
    BY <2>1, <2>2, <2>3, <2>4
<1>7. CASE SaveOverwrite(q)
  <2>1. /\ req.stage = "overwrite" /\ UNCHANGED channels
        /\ overwrites' =
             [overwrites EXCEPT ![c] = Upsert(overwrites[c], One(t, Cleaned(req.ow)))]
    BY <1>2, <1>7 DEF SaveOverwrite
  <2>2. ~Follows(c)
    BY <1>2, <2>1 DEF OverwriteInFlight
  <2>3. EffectiveOverwrites(c)' = Upsert(overwrites[c], One(t, Cleaned(req.ow)))
    BY <1>1, <2>1, <2>2 DEF EffectiveOverwrites, Follows
  <2>4. a = overwrites[c]
    BY <1>4, <2>2 DEF EffectiveOverwrites
  <2>5. \A s \in Target : s # t => a[s] = Upsert(overwrites[c], One(t, Cleaned(req.ow)))[s]
    BY <1>1, <2>4, Cells
  <2> QED
    BY <1>1, <1>2, <1>3, <1>4, <2>1, <2>3, <2>5, PermissionStays
<1> QED
  BY <1>5, <1>6, <1>7 DEF RequestStep, FinishCreate, ClearOverwrites, Abandon

\* A request starts in a slot that is free.
LEMMA RequestsStartIdle ==
    ASSUME NEW q, ChannelRequest(q)
    PROVE  requests[q] = Idle
<1>1. \A u \in Users, c \in Channels, parent \in Channels \cup {NoParent}, p \in BOOLEAN :
         CreateChannel(q, u, c, parent, p) => requests[q] = Idle
  BY DEF CreateChannel
<1>2. \A u \in Users, c \in Channels :
         /\ DeleteChannel(q, u, c) => requests[q] = Idle
         /\ \A t \in TargetInputs : DeleteOverwrite(q, u, c, t) => requests[q] = Idle
  BY DEF DeleteChannel, DeleteOverwrite
<1>3. \A u \in Users, c \in Channels :
         /\ Rename(q, u, c) => requests[q] = Idle
         /\ SyncChannel(q, u, c) => requests[q] = Idle
  BY DEF Rename, SyncChannel, Start
<1>4. \A c \in Channels : MessageCreated(q, c) => requests[q] = Idle
  BY DEF MessageCreated, Start
<1>5. \A u \in Users, c \in Channels, t \in TargetInputs, ow \in OverwriteInputs :
         UpdateOverwrite(q, u, c, t, ow) => requests[q] = Idle
  BY DEF UpdateOverwrite, Start
<1> QED
  BY <1>1, <1>2, <1>3, <1>4, <1>5 DEF ChannelRequest

\* When requests come one at a time and none fails half way, no step of an overwrite update
\* changes the permissions on the channel of a member to whom the target does not apply
\* (channels.service.ts:1308-1377).
THEOREM OverwriteUpdatesAreLocal ==
    ASSUME ~Faults PROVE Spec => OverwriteUpdateIsLocal
<1>1. ASSUME NEW q, Requests = {q}
      PROVE  Spec => OverwriteUpdateIsLocal
  <2>1. TypeOK /\ NoDanglingReference /\ Orderly(q) /\ [Next]_vars
        => [OneAtATime => OverwriteStepIsLocal]_vars
    <3> SUFFICES ASSUME TypeOK, NoDanglingReference, Orderly(q), [Next]_vars
                 PROVE  OverwriteStepIsLocal
      OBVIOUS
    <3>1. DOMAIN requests = {q} /\ members \subseteq Users
      BY <1>1 DEF TypeOK
    <3>2. PICK req : req = requests[q]
      OBVIOUS
    <3>3. SUFFICES ASSUME NEW u \in members, req.op = "overwrite", req.ch \in Channels,
                          requests'[q] # req, ~Concerns(req.target, u)
                   PROVE  EffectivePermission(u, req.ch)' = EffectivePermission(u, req.ch)
      BY <3>1, <3>2 DEF OverwriteStepIsLocal
    <3>4. RequestStep(q)
      <4>1. req # Idle
        BY <3>3 DEF Idle
      <4>2. requests' # requests
        BY <3>2, <3>3
      <4>3. ~GuildRequest /\ ~UNCHANGED vars
        BY <4>2 DEF GuildRequest, Join, Leave, CreateRole, UpdateRole, DeleteRole, AssignRole,
                    UpdateMember, vars, channelVars
      <4>4. ~ChannelRequest(q)
        BY <3>2, <4>1, RequestsStartIdle
      <4> QED
        BY <1>1, <4>3, <4>4 DEF Next
    <3> QED
      BY <1>1, <3>1, <3>2, <3>3, <3>4, UpdateStepIsLocal
  <2> QED
    BY <1>1, <2>1, TypeCorrect, ReferencesHold, OrderlyAlways, PTL
       DEF Spec, OverwriteUpdateIsLocal
<1>2. ASSUME ~\E q : Requests = {q}
      PROVE  Spec => OverwriteUpdateIsLocal
  <2>1. TypeOK => [OneAtATime => OverwriteStepIsLocal]_vars
    BY <1>2, OneSlot
  <2> QED
    BY <2>1, TypeCorrect, PTL DEF OverwriteUpdateIsLocal
<1> QED
  BY <1>1, <1>2
=============================================================================
