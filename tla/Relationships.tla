---------------------------- MODULE Relationships ----------------------------
(***************************************************************************)
(* Friend requests, friendships and blocks: the handlers of user-service,  *)
(* the notices the gateway passes on and the lists the clients keep.       *)
(*                                                                         *)
(* A request runs in a slot: it reads the row it is about, and writes what *)
(* it has read, changed, in a later step; save() inserts the row again     *)
(* when it has been deleted meanwhile.  Then it reads a profile, emits its *)
(* notice and replies.                                                     *)
(***************************************************************************)
EXTENDS Sequences, Naturals, FiniteSets

CONSTANTS
    Users,
    Clients,   \* the users with a web client; the others call the API on their own
    Ids,       \* bound: the ids the database can hand to relationships
    NoRow,     \* no relationship, no list entry
    Requests,  \* slots: the requests that can be in flight at once
    Faults,    \* whether a request can fail, or the service stop, half way
    MaxInbox   \* bound: notices under way to one client when a request starts

ASSUME RelationshipsAssumption ==
    /\ IsFiniteSet(Requests) /\ IsFiniteSet(Ids)
    /\ Clients \subseteq Users
    /\ Faults \in BOOLEAN
    /\ NoRow \notin [sender : Users, recipient : Users, type : {"Pending", "Friends", "Blocked"}]

VARIABLES
    rows,      \* rows[i]: the relationship with id i, or NoRow
    issued,    \* ids handed out
    requests,  \* requests[q]: the handler that runs in slot q
    inbox,     \* inbox[u]: the notices under way to u's client, in order
    lists      \* lists[u][i]: the type under which u's client lists i, or NoRow

vars == <<rows, issued, requests, inbox, lists>>

-----------------------------------------------------------------------------
Row == [sender : Users, recipient : Users, type : {"Pending", "Friends", "Blocked"}]

ListedType == {"Pending", "PendingReceived", "Friends", "Blocked"}

Notice == [kind : {"received", "added", "removed"}, id : Ids]

Idle == [stage |-> "idle"]

\* A request reads by id ("update"), writes ("save", "delete"), emits to someone and
\* replies with what its own client then does to its list.
Request ==
    [stage : {"update"}, by : Users, id : Ids, type : {"Friends", "Blocked"},
     effect : {"Friends", "none"}]
    \cup [stage : {"save", "delete"}, by : Users, id : Ids, row : Row,
          kind : {"received", "added", "removed", "none"}, effect : ListedType \cup {"gone", "none"}]
    \cup [stage : {"emit"}, by : Users, id : Ids, to : Users,
          kind : {"received", "added", "removed"}, effect : ListedType \cup {"gone", "none"}]
    \cup [stage : {"reply"}, by : Users, id : Ids, effect : ListedType \cup {"gone", "none"}]
    \cup [stage : {"load"}, by : Users, list : [Ids -> ListedType \cup {NoRow}]]

\* Every variable has its type.
TypeOK ==
    /\ rows \in [Ids -> Row \cup {NoRow}]
    /\ issued \subseteq Ids
    /\ requests \in [Requests -> Request \cup {Idle}]
    /\ inbox \in [Users -> Seq(Notice)]
    /\ lists \in [Users -> [Ids -> ListedType \cup {NoRow}]]

Existing == {i \in DOMAIN rows : rows[i] # NoRow}

Parties(row) == {row.sender, row.recipient}

\* An operator whose name ends in _Mutant is a plausible mistake in the one it is named
\* for, and part of no behaviour.
Between_Mutant(u, v) == {i \in Existing : rows[i].sender = u /\ rows[i].recipient = v}

\* The relationships of two users, whoever sent them.
Between(u, v) == {i \in Existing : Parties(rows[i]) = {u, v}}

OtherParty_Mutant(row, u) == row.recipient

OtherParty(row, u) == IF row.sender # u THEN row.sender ELSE row.recipient

-----------------------------------------------------------------------------
(* The steps of a handler *)

To(q, request) == requests' = [requests EXCEPT ![q] = request]

Reply(q, u, i, effect) == To(q, [stage |-> "reply", by |-> u, id |-> i, effect |-> effect])

CanStart(q) == requests[q] = Idle /\ \A u \in Clients : Len(inbox[u]) < MaxInbox

\* A web client names a relationship it lists; another caller names any.
CanName(u, i) == i \in issued /\ (u \in Clients => lists[u][i] # NoRow)

Insert(q, u, row, kind, effect) ==
    \E i \in Ids \ issued :
        /\ issued' = issued \cup {i}
        /\ To(q, [stage |-> "save", by |-> u, id |-> i, row |-> row, kind |-> kind, effect |-> effect])

\* What the recipient's notice calls PendingReceived is stored as Pending.
RequestRow(u, v) == [sender |-> u, recipient |-> v, type |-> "Pending"]

BlockedRow_Mutant(row, u) == [row EXCEPT !.type = "Blocked", !.sender = u]

\* A block turns the relationship round: its sender is the one who blocks.
BlockedRow(row, u) == [sender |-> u, recipient |-> OtherParty(row, u), type |-> "Blocked"]

BlockUpdate(q, u, i) ==
    To(q, [stage |-> "save", by |-> u, id |-> i, row |-> BlockedRow(rows[i], u),
           kind |-> "none", effect |-> "none"])

\* Only a request or a block can become a friendship.
AcceptRequest(q, u, i, effect) ==
    IF rows[i].type \in {"Pending", "Blocked"}
    THEN To(q, [stage |-> "save", by |-> u, id |-> i, row |-> [rows[i] EXCEPT !.type = "Friends"],
                kind |-> "added", effect |-> effect])
    ELSE Reply(q, u, i, effect)

-----------------------------------------------------------------------------
(* Requests *)

AskUpdate(q, u, i, type, effect) ==
    To(q, [stage |-> "update", by |-> u, id |-> i, type |-> type, effect |-> effect])

\* POST /relationships: v is named by username.  Friends, a request already sent and a
\* block by the other user leave everything as it is.  A request to a user one has blocked
\* ends the block, with an answer that the client's addFriend takes for a failure.
Create(q, u, v) ==
    /\ CanStart(q)
    /\ u # v
    /\ IF Between(u, v) = {}
       THEN Insert(q, u, RequestRow(u, v), "received", "Pending")
       ELSE /\ \E i \in Between(u, v) :
                 \/ /\ rows[i].type = "Pending" /\ rows[i].sender # u
                    /\ AcceptRequest(q, u, i, "none")
                 \/ /\ rows[i].type = "Blocked" /\ rows[i].sender = u
                    /\ AskUpdate(q, u, i, "Friends", "none")
            /\ UNCHANGED issued
    /\ UNCHANGED <<rows, inbox, lists>>

\* PUT /relationships/:id, which the client sends without a body to accept a request.
Put(q, u, i, type) ==
    /\ CanStart(q)
    /\ CanName(u, i)
    /\ AskUpdate(q, u, i, type, IF type = "Friends" THEN "Friends" ELSE "none")
    /\ UNCHANGED <<rows, issued, inbox, lists>>

Update(q) ==
    LET req == requests[q] IN
    /\ req.stage = "update"
    /\ IF req.id \notin Existing \/ req.by \notin Parties(rows[req.id])
       THEN Reply(q, req.by, req.id, req.effect)
       ELSE IF req.type = "Blocked"
       THEN BlockUpdate(q, req.by, req.id)
       ELSE AcceptRequest(q, req.by, req.id, req.effect)
    /\ UNCHANGED <<rows, issued, inbox, lists>>

\* POST /relationships/block/:userId
BlockUser(q, u, v) ==
    /\ CanStart(q)
    /\ IF Between(u, v) = {}
       THEN Insert(q, u, [sender |-> u, recipient |-> v, type |-> "Blocked"], "none", "none")
       ELSE /\ \E i \in Between(u, v) : BlockUpdate(q, u, i)
            /\ UNCHANGED issued
    /\ UNCHANGED <<rows, inbox, lists>>

\* DELETE /relationships/:id.  The client drops the entry even when the call is refused.
Remove(q, u, i) ==
    /\ CanStart(q)
    /\ CanName(u, i)
    /\ IF /\ i \in Existing
          /\ u \in Parties(rows[i])
          /\ rows[i].type = "Blocked" => rows[i].sender = u
       THEN To(q, [stage |-> "delete", by |-> u, id |-> i, row |-> rows[i],
                   kind |-> "removed", effect |-> "gone"])
       ELSE Reply(q, u, i, "gone")
    /\ UNCHANGED <<rows, issued, inbox, lists>>

\* A request goes to its recipient, an acceptance to the sender, a removal to the other.
NoticeTo(req) ==
    CASE req.kind = "received" -> req.row.recipient
      [] req.kind = "added"    -> req.row.sender
      [] req.kind = "removed"  -> OtherParty(req.row, req.by)

Write(q) ==
    LET req == requests[q] IN
    /\ req.stage \in {"save", "delete"}
    /\ rows' = [rows EXCEPT ![req.id] = IF req.stage = "save" THEN req.row ELSE NoRow]
    /\ IF req.kind = "none"
       THEN Reply(q, req.by, req.id, req.effect)
       ELSE To(q, [stage |-> "emit", by |-> req.by, id |-> req.id, kind |-> req.kind,
                   to |-> NoticeTo(req), effect |-> req.effect])
    /\ UNCHANGED <<issued, inbox, lists>>

\* The profile the notice carries has been read.
Emit(q) ==
    LET req == requests[q] IN
    /\ req.stage = "emit"
    /\ inbox' = [u \in Users |->
           IF u = req.to /\ u \in Clients
           THEN Append(inbox[u], [kind |-> req.kind, id |-> req.id])
           ELSE inbox[u]]
    /\ Reply(q, req.by, req.id, req.effect)
    /\ UNCHANGED <<rows, issued, lists>>

\* A request fails, or the service stops: nothing undoes its writes.
Abandon(q) ==
    /\ Faults
    /\ requests[q] # Idle
    /\ To(q, Idle)
    /\ UNCHANGED <<rows, issued, inbox, lists>>

-----------------------------------------------------------------------------
(* The client's list *)

Listed(list, i, effect) ==
    CASE effect = "gone"    -> [list EXCEPT ![i] = NoRow]
      [] effect = "none"    -> list
      [] effect = "Friends" -> [list EXCEPT ![i] = IF @ = NoRow THEN @ ELSE "Friends"]
      [] OTHER              -> [list EXCEPT ![i] = effect]

\* onSuccess of the mutation
Replied(q) ==
    LET req == requests[q] IN
    /\ req.stage = "reply"
    /\ lists' = [lists EXCEPT ![req.by] =
           IF req.by \in Clients THEN Listed(@, req.id, req.effect) ELSE @]
    /\ To(q, Idle)
    /\ UNCHANGED <<rows, issued, inbox>>

EffectOf(notice) ==
    CASE notice.kind = "received" -> "PendingReceived"
      [] notice.kind = "added"    -> "Friends"
      [] notice.kind = "removed"  -> "gone"

\* handleFriendReceived, handleFriendAdded, handleFriendRemoved
Notified(u) ==
    /\ inbox[u] # << >>
    /\ lists' = [lists EXCEPT ![u] = Listed(@, Head(inbox[u]).id, EffectOf(Head(inbox[u])))]
    /\ inbox' = [inbox EXCEPT ![u] = Tail(@)]
    /\ UNCHANGED <<rows, issued, requests>>

\* What findAll makes of a row for u; a block is listed for the one who set it alone.
ListedFor(u, i) ==
    IF \/ i \notin Existing
       \/ u \notin Parties(rows[i])
       \/ rows[i].type = "Blocked" /\ rows[i].sender # u
    THEN NoRow
    ELSE IF rows[i].type = "Pending" /\ rows[i].sender # u
    THEN "PendingReceived"
    ELSE rows[i].type

\* The page is loaded: findAll reads the list, and earlier notices were for another socket.
Load(q, u) ==
    /\ CanStart(q)
    /\ u \in Clients
    /\ To(q, [stage |-> "load", by |-> u, list |-> [i \in Ids |-> ListedFor(u, i)]])
    /\ inbox' = [inbox EXCEPT ![u] = << >>]
    /\ UNCHANGED <<rows, issued, lists>>

\* What was fetched replaces the list, whatever the notices since have made of it.
Loaded(q) ==
    LET req == requests[q] IN
    /\ req.stage = "load"
    /\ lists' = [lists EXCEPT ![req.by] = req.list]
    /\ To(q, Idle)
    /\ UNCHANGED <<rows, issued, inbox>>

-----------------------------------------------------------------------------
Init ==
    /\ rows = [i \in Ids |-> NoRow]
    /\ issued = {}
    /\ requests = [q \in Requests |-> Idle]
    /\ inbox = [u \in Users |-> << >>]
    /\ lists = [u \in Users |-> [i \in Ids |-> NoRow]]

Arrive(q) ==
    \E u \in Users :
        \/ Load(q, u)
        \/ \E v \in Users : Create(q, u, v) \/ BlockUser(q, u, v)
        \/ \E i \in Ids : \/ Remove(q, u, i)
                          \/ \E type \in {"Friends", "Blocked"} : Put(q, u, i, type)

Proceed(q) == Update(q) \/ Write(q) \/ Emit(q) \/ Replied(q) \/ Loaded(q) \/ Abandon(q)

Next ==
    \/ \E q \in Requests : Arrive(q) \/ Proceed(q)
    \/ \E u \in Users : Notified(u)

Spec == Init /\ [][Next]_vars

-----------------------------------------------------------------------------
(* Properties.  They read the slots off the state, so that they can be stated of instances *)
(* that differ in the number of slots.                                                    *)

OneAtATime == Cardinality(DOMAIN requests) = 1

\* Nothing in the schema makes a pair of users unique, and create looks before it inserts
\* (relationships.service.ts:57): two users have at most as many relationships as there
\* are requests in flight at once, and so a single one when requests come one at a time.
BoundedDuplicates ==
    \A u, v \in Users :
        Cardinality({i \in Existing : Parties(rows[i]) = {u, v}}) <= Cardinality(DOMAIN requests)

\* A relationship stays between the same two users, whoever turns it round (246-248) and
\* whatever stale copy of it is written over it.
PartiesAreFixed ==
    [][\A i \in Existing : i \in Existing' => Parties(rows[i])' = Parties(rows[i])]_vars

Settled == (\A q \in DOMAIN requests : requests[q] = Idle) /\ \A u \in Users : inbox[u] = << >>

\* When requests come one at a time and everything has arrived, no client lists a
\* relationship that is gone, or one that is not its user's: it was told of the removal, or
\* made it (socket.context.tsx:73-80).
NoPhantomEntry ==
    OneAtATime /\ Settled => \A u \in Users : \A i \in DOMAIN lists[u] :
        lists[u][i] # NoRow => i \in Existing /\ u \in Parties(rows[i])

BondOf(row) ==
    CASE row.type = "Friends" -> [type |-> "friends"]
      [] row.type = "Pending" -> [type |-> "pending", by |-> row.sender]
      [] row.type = "Blocked" -> [type |-> "blocked", by |-> row.sender]

Stored(p) == {i \in Existing : Parties(rows[i]) = p}

Pairs == {{u, v} : u, v \in Users}

\* The bond the rows store for each pair of users.
StoredBond ==
    [p \in Pairs |->
        IF Stored(p) = {} THEN [type |-> "none"] ELSE BondOf(rows[CHOOSE i \in Stored(p) : TRUE])]

NoBonds == [p \in Pairs |-> [type |-> "none"]]

\* What is promised of requests that come one at a time is promised of no others.
Bonds == IF OneAtATime THEN StoredBond ELSE NoBonds

Graph == INSTANCE FriendGraph WITH bond <- Bonds

\* When requests come one at a time, the handlers keep the promise of the friend graph: a
\* pair has one bond, moved by whole calls along the graph's edges, and a block is the
\* blocker's alone to delete (relationships.service.ts:36-138, 171-294).
KeepsFriendGraph == Graph!Spec
=============================================================================
