------------------------- MODULE RelationshipsProofs -------------------------
(***************************************************************************)
(* Theorems about relationships, for every set of users, clients and ids,  *)
(* every number of requests in flight, with and without faults.            *)
(***************************************************************************)
EXTENDS Relationships, FiniteSetTheorems, SequenceTheorems, TLAPS

-----------------------------------------------------------------------------
(* Types *)

\* A row is not the absence of a row.
LEMMA RowIsNotNoRow == \A row \in Row : row # NoRow
BY RelationshipsAssumption DEF Row

\* Every slot holds a request of one of the five kinds, told apart by its stage.
LEMMA RequestFields ==
    ASSUME NEW req \in Request \cup {Idle}
    PROVE  /\ req.stage # "idle" => req.by \in Users
           /\ req.stage \in {"update", "save", "delete", "emit", "reply"} => req.id \in Ids
           /\ req.stage = "update" =>
                 req.type \in {"Friends", "Blocked"} /\ req.effect \in {"Friends", "none"}
           /\ req.stage \in {"save", "delete"} =>
                 /\ req.row \in Row
                 /\ req.kind \in {"received", "added", "removed", "none"}
           /\ req.stage = "emit" =>
                 /\ req.to \in Users
                 /\ req.kind \in {"received", "added", "removed"}
           /\ req.stage \in {"save", "delete", "emit", "reply"} =>
                 req.effect \in ListedType \cup {"gone", "none"}
           /\ req.stage = "load" => req.list \in [Ids -> ListedType \cup {NoRow}]
BY DEF Request, Idle, ListedType

\* What the handlers make of a relationship is one again, between the same users.
LEMMA RowsMade ==
    ASSUME NEW u \in Users
    PROVE  /\ \A v \in Users : RequestRow(u, v) \in Row
           /\ \A row \in Row :
                 /\ OtherParty(row, u) \in Users
                 /\ [row EXCEPT !.type = "Friends"] \in Row
                 /\ Parties([row EXCEPT !.type = "Friends"]) = Parties(row)
                 /\ BlockedRow(row, u) \in Row
                 /\ u \in Parties(row) => Parties(BlockedRow(row, u)) = Parties(row)
BY DEF Row, RequestRow, OtherParty, BlockedRow, Parties

\* Existing relationships are rows, and those of two users are between the two.
LEMMA ExistingRows ==
    ASSUME TypeOK
    PROVE  /\ Existing \subseteq Ids
           /\ \A i \in Existing : rows[i] \in Row
           /\ \A u, v \in Users : \A i \in Between(u, v) :
                 i \in Existing /\ Parties(rows[i]) = {u, v}
BY RowIsNotNoRow DEF TypeOK, Existing, Between

\* A request that is put into a slot leaves the slots well typed.
LEMMA SlotType ==
    ASSUME TypeOK, NEW q \in Requests, NEW req \in Request \cup {Idle}, To(q, req)
    PROVE  requests' \in [Requests -> Request \cup {Idle}]
BY DEF To, TypeOK

\* The records the handlers put into a slot are requests.
LEMMA RequestsMade ==
    /\ \A u \in Users, i \in Ids, type \in {"Friends", "Blocked"},
          effect \in {"Friends", "none"} :
          [stage |-> "update", by |-> u, id |-> i, type |-> type, effect |-> effect] \in Request
    /\ \A stage \in {"save", "delete"}, u \in Users, i \in Ids, row \in Row,
          kind \in {"received", "added", "removed", "none"},
          effect \in ListedType \cup {"gone", "none"} :
          [stage |-> stage, by |-> u, id |-> i, row |-> row, kind |-> kind,
           effect |-> effect] \in Request
    /\ \A u \in Users, i \in Ids, to \in Users, kind \in {"received", "added", "removed"},
          effect \in ListedType \cup {"gone", "none"} :
          [stage |-> "emit", by |-> u, id |-> i, kind |-> kind, to |-> to,
           effect |-> effect] \in Request
    /\ \A u \in Users, i \in Ids, effect \in ListedType \cup {"gone", "none"} :
          [stage |-> "reply", by |-> u, id |-> i, effect |-> effect] \in Request
    /\ \A u \in Users, list \in [Ids -> ListedType \cup {NoRow}] :
          [stage |-> "load", by |-> u, list |-> list] \in Request
BY DEF Request

-----------------------------------------------------------------------------
(* What a step does to rows, ids and slots *)

\* A request that writes an existing row back leaves it between the users it is between, as
\* a block, or as a friendship that was asked for or blocked.
Saves(req) ==
    /\ req.id \in Existing
    /\ Parties(req.row) = Parties(rows[req.id])
    /\ \/ req.row.type = "Blocked"
       \/ req.row.type = "Friends" /\ rows[req.id].type \in {"Pending", "Blocked"}

\* A request that deletes a row comes from one of its users, of a block from who set it.
Deletes(req) ==
    /\ req.id \in Existing
    /\ req.row = rows[req.id]
    /\ req.by \in Parties(req.row)
    /\ req.row.type = "Blocked" => req.row.sender = req.by

\* A slot takes a request that is about to change, if anything, a row that exists.
Rewrites(q) ==
    /\ \E req \in Request \cup {Idle} :
          /\ To(q, req)
          /\ req.stage = "save" => Saves(req)
          /\ req.stage = "delete" => Deletes(req)
    /\ UNCHANGED <<rows, issued>>

\* A slot takes a request that writes a new row for a pair that has none.
Inserts(q, u, v) ==
    /\ Between(u, v) = {}
    /\ \E req \in Request :
          /\ To(q, req)
          /\ req.stage = "save" /\ req.id \notin issued /\ Parties(req.row) = {u, v}
          /\ (req.row.type = "Pending" /\ u # v) \/ req.row.type = "Blocked"
          /\ issued' = issued \cup {req.id}
    /\ UNCHANGED rows

\* The request in a slot writes its row, or deletes it, and goes on.
Writes(q) ==
    /\ requests[q].stage \in {"save", "delete"}
    /\ rows' = [rows EXCEPT ![requests[q].id] = IF requests[q].stage = "save"
                                                THEN requests[q].row ELSE NoRow]
    /\ \E req \in Request : To(q, req) /\ req.stage \notin {"save", "delete"}
    /\ UNCHANGED issued

\* Accepting and blocking rewrite the row they are about.
LEMMA UpdatesRewrite ==
    ASSUME TypeOK, NEW q \in Requests, NEW u \in Users, NEW i \in Existing,
           UNCHANGED <<rows, issued>>
    PROVE  /\ \A effect \in ListedType \cup {"none"} :
                 AcceptRequest(q, u, i, effect) => Rewrites(q)
           /\ u \in Parties(rows[i]) /\ BlockUpdate(q, u, i) => Rewrites(q)
<1>1. i \in Ids /\ rows[i] \in Row
  BY ExistingRows
<1>2. ASSUME NEW effect \in ListedType \cup {"none"}, AcceptRequest(q, u, i, effect)
      PROVE  Rewrites(q)
  <2>1. CASE rows[i].type \in {"Pending", "Blocked"}
    <3> DEFINE row == [rows[i] EXCEPT !.type = "Friends"]
               req == [stage |-> "save", by |-> u, id |-> i, row |-> row,
                       kind |-> "added", effect |-> effect]
    <3>1. row \in Row /\ Parties(row) = Parties(rows[i]) /\ row.type = "Friends"
      BY <1>1, RowsMade DEF Row
    <3>2. req \in Request
      BY <1>1, <3>1, RequestsMade
    <3>3. To(q, req)
      BY <1>2, <2>1 DEF AcceptRequest
    <3>4. Saves(req)
      BY <2>1, <3>1 DEF Saves
    <3> QED
      BY <3>2, <3>3, <3>4 DEF Rewrites
  <2>2. CASE rows[i].type \notin {"Pending", "Blocked"}
    <3> DEFINE req == [stage |-> "reply", by |-> u, id |-> i, effect |-> effect]
    <3>1. req \in Request
      BY <1>1, RequestsMade
    <3>2. To(q, req)
      BY <1>2, <2>2 DEF AcceptRequest, Reply
    <3> QED
      BY <3>1, <3>2 DEF Rewrites
  <2> QED
    BY <2>1, <2>2
<1>3. ASSUME u \in Parties(rows[i]), BlockUpdate(q, u, i)
      PROVE  Rewrites(q)
  <2> DEFINE row == BlockedRow(rows[i], u)
             req == [stage |-> "save", by |-> u, id |-> i, row |-> row,
                     kind |-> "none", effect |-> "none"]
  <2>1. row \in Row /\ Parties(row) = Parties(rows[i]) /\ row.type = "Blocked"
    BY <1>1, <1>3, RowsMade DEF BlockedRow
  <2>2. req \in Request
    BY <1>1, <2>1, RequestsMade
  <2>3. To(q, req)
    BY <1>3 DEF BlockUpdate
  <2>4. Saves(req)
    BY <2>1 DEF Saves
  <2> QED
    BY <2>2, <2>3, <2>4 DEF Rewrites
<1> QED
  BY <1>2, <1>3

\* Inserting a row for a pair that has none is just that.
LEMMA InsertInserts ==
    ASSUME TypeOK, NEW q \in Requests, NEW u \in Users, NEW v \in Users,
           Between(u, v) = {}, UNCHANGED rows,
           NEW row \in Row, Parties(row) = {u, v},
           (row.type = "Pending" /\ u # v) \/ row.type = "Blocked",
           NEW kind \in {"received", "added", "removed", "none"},
           NEW effect \in ListedType \cup {"gone", "none"},
           Insert(q, u, row, kind, effect)
    PROVE  Inserts(q, u, v)
<1>1. PICK i \in Ids \ issued :
         /\ issued' = issued \cup {i}
         /\ To(q, [stage |-> "save", by |-> u, id |-> i, row |-> row, kind |-> kind,
                   effect |-> effect])
  BY DEF Insert
<1> DEFINE req == [stage |-> "save", by |-> u, id |-> i, row |-> row, kind |-> kind,
                   effect |-> effect]
<1>2. req \in Request
  BY RequestsMade
<1> QED
  BY <1>1, <1>2 DEF Inserts

\* A request that arrives rewrites a row or inserts one.
LEMMA ArriveShape ==
    ASSUME TypeOK, NEW q \in Requests, Arrive(q)
    PROVE  Rewrites(q) \/ \E u, v \in Users : Inserts(q, u, v)
<1>1. ASSUME NEW u \in Users, Load(q, u)
      PROVE  Rewrites(q)
  <2> DEFINE list == [i \in Ids |-> ListedFor(u, i)]
             req  == [stage |-> "load", by |-> u, list |-> list]
  <2>1. list \in [Ids -> ListedType \cup {NoRow}]
    BY ExistingRows DEF ListedFor, ListedType, Row
  <2> HIDE DEF list
  <2>2. req \in Request
    BY <2>1, RequestsMade
  <2>3. To(q, req) /\ UNCHANGED <<rows, issued>>
    BY <1>1 DEF Load, list
  <2> QED
    BY <2>2, <2>3 DEF Rewrites
<1>2. ASSUME NEW u \in Users, NEW v \in Users, Create(q, u, v)
      PROVE  Rewrites(q) \/ Inserts(q, u, v)
  <2>1. CASE Between(u, v) = {}
    <3>1. /\ RequestRow(u, v) \in Row /\ Parties(RequestRow(u, v)) = {u, v}
          /\ RequestRow(u, v).type = "Pending" /\ u # v
      BY <1>2 DEF Create, RequestRow, Row, Parties
    <3>2. Insert(q, u, RequestRow(u, v), "received", "Pending") /\ UNCHANGED rows
      BY <1>2, <2>1 DEF Create
    <3>3. "Pending" \in ListedType \cup {"gone", "none"}
      BY DEF ListedType
    <3> HIDE DEF RequestRow
    <3> QED
      BY <2>1, <3>1, <3>2, <3>3, InsertInserts
  <2>2. CASE Between(u, v) # {}
    <3>1. PICK i \in Between(u, v) :
             \/ AcceptRequest(q, u, i, "none")
             \/ AskUpdate(q, u, i, "Friends", "none")
      BY <1>2, <2>2 DEF Create
    <3>2. UNCHANGED <<rows, issued>>
      BY <1>2, <2>2 DEF Create
    <3>3. i \in Existing /\ i \in Ids
      BY ExistingRows
    <3>4. CASE AcceptRequest(q, u, i, "none")
      BY <3>2, <3>3, <3>4, UpdatesRewrite
    <3>5. CASE AskUpdate(q, u, i, "Friends", "none")
      <4>1. [stage |-> "update", by |-> u, id |-> i, type |-> "Friends",
             effect |-> "none"] \in Request
        BY <3>3, RequestsMade
      <4> QED
        BY <3>2, <3>5, <4>1 DEF Rewrites, AskUpdate
    <3> QED
      BY <3>1, <3>4, <3>5
  <2> QED
    BY <2>1, <2>2
<1>3. ASSUME NEW u \in Users, NEW v \in Users, BlockUser(q, u, v)
      PROVE  Rewrites(q) \/ Inserts(q, u, v)
  <2>1. CASE Between(u, v) = {}
    <3> DEFINE row == [sender |-> u, recipient |-> v, type |-> "Blocked"]
    <3>1. row \in Row /\ Parties(row) = {u, v} /\ row.type = "Blocked"
      BY DEF Row, Parties
    <3>2. Insert(q, u, row, "none", "none") /\ UNCHANGED rows
      BY <1>3, <2>1 DEF BlockUser
    <3> HIDE DEF row
    <3> QED
      BY <2>1, <3>1, <3>2, InsertInserts
  <2>2. CASE Between(u, v) # {}
    <3>1. PICK i \in Between(u, v) : BlockUpdate(q, u, i)
      BY <1>3, <2>2 DEF BlockUser
    <3>2. UNCHANGED <<rows, issued>>
      BY <1>3, <2>2 DEF BlockUser
    <3>3. i \in Existing /\ u \in Parties(rows[i])
      BY ExistingRows
    <3> QED
      BY <3>1, <3>2, <3>3, UpdatesRewrite
  <2> QED
    BY <2>1, <2>2
<1>4. ASSUME NEW u \in Users, NEW i \in Ids, Remove(q, u, i)
      PROVE  Rewrites(q)
  <2>1. UNCHANGED <<rows, issued>>
    BY <1>4 DEF Remove
  <2>2. \/ /\ i \in Existing /\ u \in Parties(rows[i])
           /\ rows[i].type = "Blocked" => rows[i].sender = u
           /\ To(q, [stage |-> "delete", by |-> u, id |-> i, row |-> rows[i],
                     kind |-> "removed", effect |-> "gone"])
        \/ To(q, [stage |-> "reply", by |-> u, id |-> i, effect |-> "gone"])
    BY <1>4 DEF Remove, Reply
  <2>3. CASE /\ i \in Existing /\ u \in Parties(rows[i])
             /\ rows[i].type = "Blocked" => rows[i].sender = u
             /\ To(q, [stage |-> "delete", by |-> u, id |-> i, row |-> rows[i],
                       kind |-> "removed", effect |-> "gone"])
    <3>1. rows[i] \in Row
      BY <2>3, ExistingRows
    <3>2. [stage |-> "delete", by |-> u, id |-> i, row |-> rows[i],
           kind |-> "removed", effect |-> "gone"] \in Request
      BY <3>1, RequestsMade
    <3> QED
      BY <2>1, <2>3, <3>2 DEF Rewrites, Deletes
  <2>4. CASE To(q, [stage |-> "reply", by |-> u, id |-> i, effect |-> "gone"])
    <3>1. [stage |-> "reply", by |-> u, id |-> i, effect |-> "gone"] \in Request
      BY RequestsMade
    <3> QED
      BY <2>1, <2>4, <3>1 DEF Rewrites
  <2> QED
    BY <2>2, <2>3, <2>4
<1>5. ASSUME NEW u \in Users, NEW i \in Ids, NEW type \in {"Friends", "Blocked"},
             Put(q, u, i, type)
      PROVE  Rewrites(q)
  <2>1. PICK effect \in {"Friends", "none"} :
             AskUpdate(q, u, i, type, effect) /\ UNCHANGED <<rows, issued>>
    BY <1>5 DEF Put
  <2>2. [stage |-> "update", by |-> u, id |-> i, type |-> type, effect |-> effect] \in Request
    BY RequestsMade
  <2> QED
    BY <2>1, <2>2 DEF Rewrites, AskUpdate
<1> QED
  BY <1>1, <1>2, <1>3, <1>4, <1>5 DEF Arrive

\* A request that goes on rewrites a row or carries its write out.
LEMMA ProceedShape ==
    ASSUME TypeOK, NEW q \in Requests, Proceed(q)
    PROVE  Rewrites(q) \/ Writes(q)
<1> DEFINE req == requests[q]
<1>1. req \in Request \cup {Idle}
  BY DEF TypeOK
<1>2. CASE Update(q)
  <2>1. /\ req.stage = "update" /\ req.by \in Users /\ req.id \in Ids
        /\ req.effect \in {"Friends", "none"} /\ UNCHANGED <<rows, issued>>
    BY <1>1, <1>2, RequestFields DEF Update
  <2>2. "Friends" \in ListedType
    BY DEF ListedType
  <2>3. \/ Reply(q, req.by, req.id, req.effect)
        \/ /\ req.id \in Existing /\ req.by \in Parties(rows[req.id])
           /\ BlockUpdate(q, req.by, req.id) \/ AcceptRequest(q, req.by, req.id, req.effect)
    BY <1>2 DEF Update
  <2>4. CASE Reply(q, req.by, req.id, req.effect)
    <3> DEFINE reply == [stage |-> "reply", by |-> req.by, id |-> req.id, effect |-> req.effect]
    <3>1. reply \in Request
      BY <2>1, <2>2, RequestsMade
    <3> QED
      BY <2>1, <2>4, <3>1 DEF Rewrites, Reply
  <2>5. CASE /\ req.id \in Existing /\ req.by \in Parties(rows[req.id])
             /\ BlockUpdate(q, req.by, req.id) \/ AcceptRequest(q, req.by, req.id, req.effect)
    BY <2>1, <2>2, <2>5, UpdatesRewrite
  <2> QED
    BY <2>3, <2>4, <2>5
<1>3. CASE Write(q)
  <2>1. /\ req.stage \in {"save", "delete"}
        /\ req.by \in Users /\ req.id \in Ids /\ req.row \in Row
        /\ req.kind \in {"received", "added", "removed", "none"}
        /\ req.effect \in ListedType \cup {"gone", "none"}
    BY <1>1, <1>3, RequestFields DEF Write
  <2>2. CASE req.kind = "none"
    <3> DEFINE reply == [stage |-> "reply", by |-> req.by, id |-> req.id,
                         effect |-> req.effect]
    <3>1. reply \in Request
      BY <2>1, RequestsMade
    <3>2. To(q, reply)
      BY <1>3, <2>2 DEF Write, Reply
    <3> QED
      BY <1>3, <2>1, <3>1, <3>2 DEF Write, Writes
  <2>3. CASE req.kind # "none"
    <3> DEFINE emit == [stage |-> "emit", by |-> req.by, id |-> req.id, kind |-> req.kind,
                        to |-> NoticeTo(req), effect |-> req.effect]
    <3>1. NoticeTo(req) \in Users
      BY <2>1, <2>3, RowsMade DEF NoticeTo, Row
    <3>2. emit \in Request
      BY <2>1, <2>3, <3>1, RequestsMade
    <3>3. To(q, emit)
      BY <1>3, <2>3 DEF Write
    <3> QED
      BY <1>3, <2>1, <3>2, <3>3 DEF Write, Writes
  <2> QED
    BY <2>2, <2>3
<1>4. CASE Emit(q)
  <2> DEFINE reply == [stage |-> "reply", by |-> req.by, id |-> req.id,
                       effect |-> req.effect]
  <2>1. reply \in Request
    BY <1>1, <1>4, RequestFields, RequestsMade DEF Emit
  <2>2. To(q, reply) /\ UNCHANGED <<rows, issued>>
    BY <1>4 DEF Emit, Reply
  <2> QED
    BY <2>1, <2>2 DEF Rewrites
<1>5. CASE Replied(q) \/ Loaded(q) \/ Abandon(q)
  <2>1. To(q, Idle) /\ UNCHANGED <<rows, issued>>
    BY <1>5 DEF Replied, Loaded, Abandon
  <2>2. Idle.stage \notin {"save", "delete"}
    BY DEF Idle
  <2> QED
    BY <2>1, <2>2 DEF Rewrites
<1> QED
  BY <1>2, <1>3, <1>4, <1>5 DEF Proceed

\* A step rewrites a row, inserts one, carries a write out, or is none of the database's.
LEMMA StepShape ==
    ASSUME TypeOK, [Next]_vars
    PROVE  \/ UNCHANGED <<rows, issued, requests>>
           \/ \E q \in Requests : \/ Rewrites(q) \/ Writes(q)
                                  \/ \E u, v \in Users : Inserts(q, u, v)
<1>1. ASSUME NEW u \in Users, Notified(u)
      PROVE  UNCHANGED <<rows, issued, requests>>
  BY <1>1 DEF Notified
<1> QED
  BY <1>1, ArriveShape, ProceedShape DEF Next, vars

-----------------------------------------------------------------------------
\* What a notice or a reply makes of a list is a list.
LEMMA ListedLists ==
    ASSUME NEW list \in [Ids -> ListedType \cup {NoRow}], NEW i \in Ids,
           NEW effect \in ListedType \cup {"gone", "none"}
    PROVE  Listed(list, i, effect) \in [Ids -> ListedType \cup {NoRow}]
BY DEF Listed, ListedType

\* A step of a request keeps the inboxes and the lists of the clients well typed.
LEMMA ClientType ==
    ASSUME TypeOK, [Next]_vars
    PROVE  /\ inbox' \in [Users -> Seq(Notice)]
           /\ lists' \in [Users -> [Ids -> ListedType \cup {NoRow}]]
<1>1. ASSUME NEW q \in Requests, Arrive(q)
      PROVE  /\ inbox' \in [Users -> Seq(Notice)]
             /\ lists' \in [Users -> [Ids -> ListedType \cup {NoRow}]]
  <2>1. /\ UNCHANGED lists
        /\ UNCHANGED inbox \/ \E u \in Users : inbox' = [inbox EXCEPT ![u] = << >>]
    BY <1>1 DEF Arrive, Load, Create, BlockUser, Remove, Put
  <2>2. << >> \in Seq(Notice)
    OBVIOUS
  <2> QED
    BY <2>1, <2>2 DEF TypeOK
<1>2. ASSUME NEW q \in Requests, Proceed(q)
      PROVE  /\ inbox' \in [Users -> Seq(Notice)]
             /\ lists' \in [Users -> [Ids -> ListedType \cup {NoRow}]]
  <2> DEFINE req == requests[q]
  <2>1. req \in Request \cup {Idle}
    BY DEF TypeOK
  <2>2. CASE Update(q) \/ Write(q) \/ Abandon(q)
    BY <2>2 DEF Update, Write, Abandon, TypeOK
  <2>3. CASE Emit(q)
    <3> DEFINE notice == [kind |-> req.kind, id |-> req.id]
    <3>1. notice \in Notice
      BY <2>1, <2>3, RequestFields DEF Emit, Notice
    <3> HIDE DEF notice
    <3>2. \A u \in Users : Append(inbox[u], notice) \in Seq(Notice)
      BY <3>1 DEF TypeOK
    <3>3. inbox' = [u \in Users |-> IF u = req.to /\ u \in Clients
                                    THEN Append(inbox[u], notice) ELSE inbox[u]]
      BY <2>3 DEF Emit, notice
    <3>4. UNCHANGED lists
      BY <2>3 DEF Emit
    <3> QED
      BY <3>2, <3>3, <3>4 DEF TypeOK
  <2>4. CASE Replied(q)
    <3>1. /\ req.by \in Users /\ req.id \in Ids
          /\ req.effect \in ListedType \cup {"gone", "none"}
      BY <2>1, <2>4, RequestFields DEF Replied
    <3>2. Listed(lists[req.by], req.id, req.effect) \in [Ids -> ListedType \cup {NoRow}]
      BY <3>1, ListedLists DEF TypeOK
    <3> QED
      BY <2>4, <3>1, <3>2 DEF Replied, TypeOK
  <2>5. CASE Loaded(q)
    BY <2>1, <2>5, RequestFields DEF Loaded, TypeOK
  <2> QED
    BY <1>2, <2>2, <2>3, <2>4, <2>5 DEF Proceed
<1>3. ASSUME NEW u \in Users, Notified(u)
      PROVE  /\ inbox' \in [Users -> Seq(Notice)]
             /\ lists' \in [Users -> [Ids -> ListedType \cup {NoRow}]]
  <2>1. /\ inbox[u] \in Seq(Notice) /\ inbox[u] # << >>
        /\ lists[u] \in [Ids -> ListedType \cup {NoRow}]
    BY <1>3 DEF Notified, TypeOK
  <2>2. Head(inbox[u]) \in Notice /\ Tail(inbox[u]) \in Seq(Notice)
    BY <2>1
  <2>3. /\ Head(inbox[u]).id \in Ids
        /\ EffectOf(Head(inbox[u])) \in ListedType \cup {"gone", "none"}
    BY <2>2 DEF Notice, EffectOf, ListedType
  <2>4. Listed(lists[u], Head(inbox[u]).id, EffectOf(Head(inbox[u])))
            \in [Ids -> ListedType \cup {NoRow}]
    BY <2>1, <2>3, ListedLists
  <2> QED
    BY <1>3, <2>2, <2>4 DEF Notified, TypeOK
<1>4. CASE UNCHANGED vars
  BY <1>4 DEF vars, TypeOK
<1> QED
  BY <1>1, <1>2, <1>3, <1>4 DEF Next

\* Every variable keeps its type, however many requests are in flight, fail and are
\* answered (relationships.service.ts:36-335, socket.context.tsx:59-80).
THEOREM TypeCorrect == Spec => []TypeOK
<1>1. Init => TypeOK
  BY DEF Init, TypeOK
<1>2. TypeOK /\ [Next]_vars => TypeOK'
  <2> SUFFICES ASSUME TypeOK, [Next]_vars PROVE TypeOK'
    OBVIOUS
  <2>1. CASE UNCHANGED <<rows, issued, requests>>
    BY <2>1, ClientType DEF TypeOK
  <2>2. ASSUME NEW q \in Requests, Rewrites(q)
        PROVE  TypeOK'
    <3>1. UNCHANGED <<rows, issued>> /\ requests' \in [Requests -> Request \cup {Idle}]
      BY <2>2, SlotType DEF Rewrites
    <3> QED
      BY <3>1, ClientType DEF TypeOK
  <2>3. ASSUME NEW q \in Requests, NEW u \in Users, NEW v \in Users, Inserts(q, u, v)
        PROVE  TypeOK'
    <3>1. PICK req \in Request : /\ To(q, req) /\ req.stage = "save"
                                 /\ issued' = issued \cup {req.id} /\ UNCHANGED rows
      BY <2>3 DEF Inserts
    <3>2. req.id \in Ids
      BY <3>1, RequestFields
    <3>3. requests' \in [Requests -> Request \cup {Idle}]
      BY <3>1, SlotType
    <3> QED
      BY <3>1, <3>2, <3>3, ClientType DEF TypeOK
  <2>4. ASSUME NEW q \in Requests, Writes(q)
        PROVE  TypeOK'
    <3>1. requests[q].row \in Row
      BY <2>4, RequestFields DEF Writes, TypeOK
    <3>2. requests' \in [Requests -> Request \cup {Idle}]
      BY <2>4, SlotType DEF Writes
    <3>3. rows' \in [Ids -> Row \cup {NoRow}] /\ UNCHANGED issued
      BY <2>4, <3>1 DEF Writes, TypeOK
    <3> QED
      BY <3>2, <3>3, ClientType DEF TypeOK
  <2> QED
    BY <2>1, <2>2, <2>3, <2>4, StepShape
<1> QED
  BY <1>1, <1>2, PTL DEF Spec

-----------------------------------------------------------------------------
(* Whose a relationship is *)

Saving(q) == requests[q].stage = "save"

\* Every copy of a row that is to be written has the parties of the row it is a copy of, and
\* of the other copies; no id is in use that was not handed out.
CopiesAgree ==
    /\ Existing \subseteq issued
    /\ \A q \in Requests : Saving(q) => requests[q].id \in issued
    /\ \A q \in Requests : Saving(q) /\ requests[q].id \in Existing =>
          Parties(requests[q].row) = Parties(rows[requests[q].id])
    /\ \A q, p \in Requests : Saving(q) /\ Saving(p) /\ requests[q].id = requests[p].id =>
          Parties(requests[q].row) = Parties(requests[p].row)

\* A step keeps the copies in agreement.
LEMMA CopiesStep ==
    ASSUME TypeOK, CopiesAgree, [Next]_vars
    PROVE  CopiesAgree'
<1>1. CASE UNCHANGED <<rows, issued, requests>>
  BY <1>1 DEF CopiesAgree, Existing, Saving
<1>2. ASSUME NEW q \in Requests, Rewrites(q)
      PROVE  CopiesAgree'
  <2>1. PICK req \in Request \cup {Idle} :
           /\ requests' = [requests EXCEPT ![q] = req]
           /\ req.stage = "save" => /\ req.id \in Existing
                                    /\ Parties(req.row) = Parties(rows[req.id])
    BY <1>2 DEF Rewrites, Saves, To
  <2>2. UNCHANGED <<rows, issued>> /\ Existing' = Existing
    BY <1>2 DEF Rewrites, Existing
  <2>3. requests'[q] = req /\ \A p \in Requests \ {q} : requests'[p] = requests[p]
    BY <2>1 DEF TypeOK
  <2>4. \A p \in Requests \ {q} : Saving(p)' = Saving(p)
    BY <2>3 DEF Saving
  <2>5. ASSUME Saving(q)'
        PROVE  /\ req.id \in Existing
               /\ Parties(req.row) = Parties(rows[req.id])
    BY <2>1, <2>3, <2>5 DEF Saving
  <2>6. \A p \in Requests : Saving(p)' => requests'[p].id \in issued'
    BY <2>2, <2>3, <2>4, <2>5 DEF CopiesAgree
  <2>7. \A p \in Requests : Saving(p)' /\ requests'[p].id \in Existing' =>
           Parties(requests'[p].row) = Parties(rows'[requests'[p].id])
    BY <2>2, <2>3, <2>4, <2>5 DEF CopiesAgree
  <2>8. \A p, r \in Requests :
           Saving(p)' /\ Saving(r)' /\ requests'[p].id = requests'[r].id =>
              Parties(requests'[p].row) = Parties(requests'[r].row)
    BY <2>3, <2>4, <2>5 DEF CopiesAgree
  <2> QED
    BY <2>2, <2>6, <2>7, <2>8 DEF CopiesAgree, Parties
<1>3. ASSUME NEW q \in Requests, NEW u \in Users, NEW v \in Users, Inserts(q, u, v)
      PROVE  CopiesAgree'
  <2>1. PICK req \in Request :
           /\ requests' = [requests EXCEPT ![q] = req]
           /\ req.stage = "save" /\ req.id \notin issued
           /\ issued' = issued \cup {req.id}
    BY <1>3 DEF Inserts, To
  <2>2. UNCHANGED rows /\ Existing' = Existing
    BY <1>3 DEF Inserts, Existing
  <2>3. requests'[q] = req /\ \A p \in Requests \ {q} : requests'[p] = requests[p]
    BY <2>1 DEF TypeOK
  <2>4. \A p \in Requests \ {q} : Saving(p)' = Saving(p)
    BY <2>3 DEF Saving
  <2>5. \A p \in Requests \ {q} : Saving(p) => requests'[p].id # req.id
    BY <2>1, <2>3 DEF CopiesAgree
  <2>6. \A p \in Requests : Saving(p)' => requests'[p].id \in issued'
    BY <2>1, <2>3, <2>4 DEF CopiesAgree
  <2>7. \A p \in Requests : Saving(p)' /\ requests'[p].id \in Existing' =>
           Parties(requests'[p].row) = Parties(rows'[requests'[p].id])
    BY <2>1, <2>2, <2>3, <2>4 DEF CopiesAgree
  <2>8. \A p, r \in Requests :
           Saving(p)' /\ Saving(r)' /\ requests'[p].id = requests'[r].id =>
              Parties(requests'[p].row) = Parties(requests'[r].row)
    BY <2>3, <2>4, <2>5 DEF CopiesAgree
  <2> QED
    BY <2>1, <2>2, <2>6, <2>7, <2>8 DEF CopiesAgree, Parties
<1>4. ASSUME NEW q \in Requests, Writes(q)
      PROVE  CopiesAgree'
  <2> DEFINE req == requests[q]
  <2>1. /\ req.stage \in {"save", "delete"} /\ req.id \in Ids /\ req.row \in Row
        /\ UNCHANGED issued
    BY <1>4, RequestFields DEF Writes, TypeOK
  <2>2. PICK next \in Request : /\ requests' = [requests EXCEPT ![q] = next]
                                /\ next.stage # "save"
    BY <1>4 DEF Writes, To
  <2>3. requests'[q] = next /\ \A p \in Requests \ {q} : requests'[p] = requests[p]
    BY <2>2 DEF TypeOK
  <2>4. \A p \in Requests : Saving(p)' => p # q /\ Saving(p) /\ requests'[p] = requests[p]
    BY <2>2, <2>3 DEF Saving
  <2>5. /\ DOMAIN rows' = Ids /\ DOMAIN rows = Ids
        /\ \A i \in Ids \ {req.id} : rows'[i] = rows[i]
        /\ rows'[req.id] = IF req.stage = "save" THEN req.row ELSE NoRow
    BY <1>4, <2>1 DEF Writes, TypeOK
  <2>6. \A i \in Existing' :
           \/ i \in Existing /\ i # req.id /\ rows'[i] = rows[i]
           \/ i = req.id /\ Saving(q) /\ rows'[i] = req.row
    BY <2>1, <2>5 DEF Existing, Saving
  <2>7. \A p \in Requests : Saving(p)' /\ requests'[p].id \in Existing' =>
           Parties(requests'[p].row) = Parties(rows'[requests'[p].id])
    BY <2>4, <2>6 DEF CopiesAgree
  <2>8. Existing' \subseteq issued'
    BY <2>1, <2>6 DEF CopiesAgree
  <2>9. \A p, r \in Requests :
           Saving(p)' /\ Saving(r)' /\ requests'[p].id = requests'[r].id =>
              Parties(requests'[p].row) = Parties(requests'[r].row)
    BY <2>4 DEF CopiesAgree
  <2> QED
    BY <2>1, <2>4, <2>7, <2>8, <2>9 DEF CopiesAgree, Parties
<1> QED
  BY <1>1, <1>2, <1>3, <1>4, StepShape

\* The copies agree.
THEOREM CopiesStayAligned == Spec => []CopiesAgree
<1>1. Init => CopiesAgree
  BY DEF Init, CopiesAgree, Existing, Saving, Idle
<1>2. TypeOK /\ CopiesAgree /\ [Next]_vars => CopiesAgree'
  BY CopiesStep
<1> QED
  BY <1>1, <1>2, TypeCorrect, PTL DEF Spec

\* No handler, and no stale copy that is saved after the row was changed or deleted by
\* another request, hands a relationship to other users (relationships.service.ts:231-294).
THEOREM RelationshipsStay == Spec => PartiesAreFixed
<1>1. TypeOK /\ CopiesAgree /\ [Next]_vars =>
         [\A i \in Existing : i \in Existing' => Parties(rows[i])' = Parties(rows[i])]_vars
  <2> SUFFICES ASSUME TypeOK, CopiesAgree, [Next]_vars,
                      NEW i \in Existing, i \in Existing'
               PROVE  Parties(rows'[i]) = Parties(rows[i])
    BY DEF Parties
  <2>2. CASE UNCHANGED rows
    BY <2>2
  <2>3. ASSUME NEW q \in Requests, Writes(q)
        PROVE  Parties(rows'[i]) = Parties(rows[i])
    <3>1. requests[q].id \in Ids /\ requests[q].stage \in {"save", "delete"}
      BY <2>3, RequestFields DEF Writes, TypeOK
    <3>2. CASE i # requests[q].id
      BY <2>3, <3>1, <3>2, ExistingRows DEF Writes, TypeOK
    <3>3. CASE i = requests[q].id
      <4>1. rows'[i] = IF requests[q].stage = "save" THEN requests[q].row ELSE NoRow
        BY <2>3, <3>1, <3>3 DEF Writes, TypeOK
      <4>2. rows'[i] # NoRow
        BY DEF Existing
      <4> QED
        BY <3>3, <4>1, <4>2 DEF CopiesAgree, Saving
    <3> QED
      BY <3>2, <3>3
  <2> QED
    BY <2>2, <2>3, StepShape DEF Rewrites, Inserts
<1> QED
  BY <1>1, TypeCorrect, CopiesStayAligned, PTL DEF Spec, PartiesAreFixed

-----------------------------------------------------------------------------
(* How many there are between two users *)

\* The slots that are about to write a relationship of the users in P.
SavingFor(P) == {q \in Requests : Saving(q) /\ Parties(requests[q].row) = P}

\* The ids of the relationships of the users in P that exist or are about to be written.
Live(P) ==
    {i \in Existing : Parties(rows[i]) = P} \cup {requests[q].id : q \in SavingFor(P)}

\* Of two users, as many relationships as there are slots exist or are about to be written:
\* a new one is asked for only while none exists.
LiveBounded ==
    \A P \in SUBSET Users : Cardinality(Live(P)) <= Cardinality(Requests)

\* The relationships that exist or are about to be written are finitely many.
LEMMA LiveFinite ==
    ASSUME TypeOK, NEW P \in SUBSET Users
    PROVE  IsFiniteSet(Live(P)) /\ Cardinality(Live(P)) \in Nat
<1>1. \A q \in Requests : Saving(q) => requests[q].id \in Ids
  BY RequestFields DEF TypeOK, Saving
<1>2. Live(P) \subseteq Ids
  BY <1>1, ExistingRows DEF Live, SavingFor
<1>3. IsFiniteSet(Live(P))
  BY <1>2, FS_Subset, RelationshipsAssumption
<1> QED
  BY <1>3, FS_CardinalityType

\* There are at most as many ids about to be written as there are slots.
LEMMA SlotsBound ==
    ASSUME NEW f, NEW S \in SUBSET Requests
    PROVE  /\ IsFiniteSet({f[q] : q \in S})
           /\ Cardinality({f[q] : q \in S}) \in Nat
           /\ Cardinality({f[q] : q \in S}) <= Cardinality(Requests)
<1> DEFINE T == {f[q] : q \in S}
           g == [q \in S |-> f[q]]
<1>1. /\ IsFiniteSet(S) /\ IsFiniteSet(Requests)
      /\ Cardinality(S) <= Cardinality(Requests)
  BY FS_Subset, RelationshipsAssumption
<1>2. g \in Surjection(S, T)
  BY DEF Surjection
<1> HIDE DEF T, g
<1>3. IsFiniteSet(T) /\ Cardinality(T) <= Cardinality(S)
  BY <1>1, <1>2, FS_Surjection
<1>4. Cardinality(S) \in Nat /\ Cardinality(T) \in Nat /\ Cardinality(Requests) \in Nat
  BY <1>1, <1>3, FS_CardinalityType
<1>5. Cardinality(T) <= Cardinality(Requests)
  BY <1>1, <1>3, <1>4
<1> QED
  BY <1>3, <1>4, <1>5 DEF T

\* A step that adds nothing to the live ids keeps the bound.
LEMMA FewerLive ==
    ASSUME TypeOK, LiveBounded, NEW P \in SUBSET Users, Live(P)' \subseteq Live(P)
    PROVE  Cardinality(Live(P)') <= Cardinality(Requests)
<1> DEFINE new == Live(P)'
<1>1. /\ IsFiniteSet(Live(P)) /\ Cardinality(Live(P)) \in Nat
      /\ Cardinality(Live(P)) <= Cardinality(Requests)
  BY LiveFinite DEF LiveBounded
<1>2. new \subseteq Live(P)
  OBVIOUS
<1> HIDE DEF new
<1>3. IsFiniteSet(new) /\ Cardinality(new) <= Cardinality(Live(P))
  BY <1>1, <1>2, FS_Subset
<1>4. Cardinality(new) \in Nat /\ Cardinality(Requests) \in Nat
  BY <1>3, FS_CardinalityType, RelationshipsAssumption
<1>5. Cardinality(new) <= Cardinality(Requests)
  BY <1>1, <1>3, <1>4
<1> QED
  BY <1>5 DEF new

\* A step keeps the bound on the live ids of two users.
LEMMA LiveStep ==
    ASSUME TypeOK, LiveBounded, [Next]_vars
    PROVE  LiveBounded'
<1> SUFFICES ASSUME NEW P \in SUBSET Users
             PROVE  Cardinality(Live(P)') <= Cardinality(Requests)
  BY DEF LiveBounded
<1>1. CASE UNCHANGED <<rows, issued, requests>>
  <2>1. Live(P)' = Live(P)
    BY <1>1 DEF Live, SavingFor, Saving, Existing
  <2> QED
    BY <2>1, FewerLive
<1>2. ASSUME NEW q \in Requests, Rewrites(q)
      PROVE  Cardinality(Live(P)') <= Cardinality(Requests)
  <2>1. PICK req \in Request \cup {Idle} :
           /\ requests' = [requests EXCEPT ![q] = req]
           /\ req.stage = "save" => /\ req.id \in Existing
                                    /\ Parties(req.row) = Parties(rows[req.id])
    BY <1>2 DEF Rewrites, Saves, To
  <2>2. UNCHANGED rows /\ Existing' = Existing
    BY <1>2 DEF Rewrites, Existing
  <2>3. requests'[q] = req /\ \A p \in Requests \ {q} : requests'[p] = requests[p]
    BY <2>1 DEF TypeOK
  <2>4. \A p \in SavingFor(P)' : \/ p \in SavingFor(P) /\ requests'[p].id = requests[p].id
                                 \/ /\ requests'[p].id \in Existing
                                    /\ Parties(rows[requests'[p].id]) = P
    BY <2>1, <2>3 DEF SavingFor, Saving, Parties
  <2>5. Live(P)' \subseteq Live(P)
    BY <2>2, <2>4 DEF Live
  <2> QED
    BY <2>5, FewerLive
<1>3. ASSUME NEW q \in Requests, NEW u \in Users, NEW v \in Users, Inserts(q, u, v)
      PROVE  Cardinality(Live(P)') <= Cardinality(Requests)
  <2>1. PICK req \in Request :
           /\ requests' = [requests EXCEPT ![q] = req]
           /\ req.stage = "save" /\ Parties(req.row) = {u, v}
    BY <1>3 DEF Inserts, To
  <2>2. UNCHANGED rows /\ Existing' = Existing /\ Between(u, v) = {}
    BY <1>3 DEF Inserts, Existing
  <2>3. requests'[q] = req /\ \A p \in Requests \ {q} : requests'[p] = requests[p]
    BY <2>1 DEF TypeOK
  <2>4. CASE P = {u, v}
    <3> DEFINE f == [p \in Requests |-> requests'[p].id]
               S == SavingFor(P)'
    <3>1. {i \in Existing : Parties(rows[i]) = P} = {}
      BY <2>2, <2>4 DEF Between
    <3>2. S \in SUBSET Requests
      BY DEF SavingFor
    <3>3. Live(P)' = {f[p] : p \in S}
      BY <2>2, <3>1, <3>2 DEF Live
    <3> HIDE DEF f, S
    <3> QED
      BY <3>2, <3>3, SlotsBound
  <2>5. CASE P # {u, v}
    <3>1. \A p \in SavingFor(P)' : p \in SavingFor(P) /\ requests'[p].id = requests[p].id
      BY <2>1, <2>3, <2>5 DEF SavingFor, Saving, Parties
    <3>2. Live(P)' \subseteq Live(P)
      BY <2>2, <3>1 DEF Live
    <3> QED
      BY <3>2, FewerLive
  <2> QED
    BY <2>4, <2>5
<1>4. ASSUME NEW q \in Requests, Writes(q)
      PROVE  Cardinality(Live(P)') <= Cardinality(Requests)
  <2> DEFINE req == requests[q]
  <2>1. /\ req.stage \in {"save", "delete"} /\ req.id \in Ids /\ req.row \in Row
    BY <1>4, RequestFields DEF Writes, TypeOK
  <2>2. PICK next \in Request : /\ requests' = [requests EXCEPT ![q] = next]
                                /\ next.stage # "save"
    BY <1>4 DEF Writes, To
  <2>3. requests'[q] = next /\ \A p \in Requests \ {q} : requests'[p] = requests[p]
    BY <2>2 DEF TypeOK
  <2>4. \A p \in SavingFor(P)' : p \in SavingFor(P) /\ requests'[p].id = requests[p].id
    BY <2>2, <2>3 DEF SavingFor, Saving, Parties
  <2>5. /\ DOMAIN rows' = Ids /\ DOMAIN rows = Ids
        /\ \A i \in Ids \ {req.id} : rows'[i] = rows[i]
        /\ rows'[req.id] = IF req.stage = "save" THEN req.row ELSE NoRow
    BY <1>4, <2>1 DEF Writes, TypeOK
  <2>6. \A i \in Existing' :
           \/ i \in Existing /\ rows'[i] = rows[i]
           \/ i = req.id /\ Saving(q) /\ rows'[i] = req.row
    BY <2>1, <2>5 DEF Existing, Saving
  <2>7. \A i \in Existing' : Parties(rows'[i]) = P => i \in Live(P)
    BY <2>6 DEF Live, SavingFor
  <2>8. Live(P)' \subseteq Live(P)
    BY <2>4, <2>7 DEF Live, Parties
  <2> QED
    BY <2>8, FewerLive
<1> QED
  BY <1>1, <1>2, <1>3, <1>4, StepShape

\* Two users never have more relationships than there are requests in flight at once: with
\* requests one at a time they have one (relationships.service.ts:57-80, 177-207).
THEOREM DuplicatesAreBounded == Spec => []BoundedDuplicates
<1>1. Init => LiveBounded
  <2> SUFFICES ASSUME Init, NEW P \in SUBSET Users
               PROVE  Cardinality(Live(P)) <= Cardinality(Requests)
    BY DEF LiveBounded
  <2>1. Existing = {} /\ SavingFor(P) = {}
    BY DEF Init, Existing, SavingFor, Saving, Idle
  <2>2. Live(P) = {}
    BY <2>1 DEF Live
  <2>3. Cardinality(Live(P)) = 0 /\ Cardinality(Requests) \in Nat
    BY <2>2, FS_EmptySet, FS_CardinalityType, RelationshipsAssumption
  <2> QED
    BY <2>3
<1>2. TypeOK /\ LiveBounded /\ [Next]_vars => LiveBounded'
  BY LiveStep
<1>3. TypeOK /\ LiveBounded => BoundedDuplicates
  <2> SUFFICES ASSUME TypeOK, LiveBounded, NEW u \in Users, NEW v \in Users
               PROVE  Cardinality({i \in Existing : Parties(rows[i]) = {u, v}})
                         <= Cardinality(Requests)
    BY DEF BoundedDuplicates, TypeOK
  <2> DEFINE stored == {i \in Existing : Parties(rows[i]) = {u, v}}
             live == Live({u, v})
  <2>1. /\ IsFiniteSet(live) /\ Cardinality(live) \in Nat
        /\ Cardinality(live) <= Cardinality(Requests)
    BY LiveFinite DEF LiveBounded
  <2>2. stored \subseteq live
    BY DEF Live
  <2> HIDE DEF stored, live
  <2>3. IsFiniteSet(stored) /\ Cardinality(stored) <= Cardinality(live)
    BY <2>1, <2>2, FS_Subset
  <2>4. Cardinality(stored) \in Nat /\ Cardinality(Requests) \in Nat
    BY <2>3, FS_CardinalityType, RelationshipsAssumption
  <2>5. Cardinality(stored) <= Cardinality(Requests)
    BY <2>1, <2>3, <2>4
  <2> QED
    BY <2>5 DEF stored
<1> QED
  BY <1>1, <1>2, <1>3, TypeCorrect, PTL DEF Spec

-----------------------------------------------------------------------------
(* One request at a time: the friend graph *)

\* A request that inserts a row does so for two users who have none.
Opens(req) ==
    /\ req.id \notin Existing
    /\ Stored(Parties(req.row)) = {}
    /\ \/ req.row.type = "Pending" /\ req.row.sender # req.row.recipient
       \/ req.row.type = "Blocked"

\* Two users have one relationship, and what a request is about to write is based on it.
OneBond ==
    /\ \A i, j \in Existing : Parties(rows[i]) = Parties(rows[j]) => i = j
    /\ \A q \in Requests :
          /\ requests[q].stage = "save" => Saves(requests[q]) \/ Opens(requests[q])
          /\ requests[q].stage = "delete" => Deletes(requests[q])

\* With a single slot, a step keeps it so.
LEMMA OneBondStep ==
    ASSUME TypeOK, CopiesAgree, OneBond, NEW q, Requests = {q}, [Next]_vars
    PROVE  OneBond'
<1> DEFINE req == requests[q]
           new == requests'[q]
<1>1. CASE UNCHANGED <<rows, issued, requests>>
  BY <1>1 DEF OneBond, Existing, Saves, Opens, Deletes, Stored
<1>2. CASE Rewrites(q)
  <2>1. UNCHANGED rows /\ Existing' = Existing
    BY <1>2 DEF Rewrites, Existing
  <2>2. /\ new.stage = "save" => Saves(new)
        /\ new.stage = "delete" => Deletes(new)
    BY <1>2 DEF Rewrites, To, TypeOK
  <2>3. /\ new.stage = "save" => Saves(req)'
        /\ new.stage = "delete" => Deletes(req)'
    BY <2>1, <2>2 DEF Saves, Deletes, Parties
  <2> QED
    BY <2>1, <2>3 DEF OneBond, Parties
<1>3. ASSUME NEW u \in Users, NEW v \in Users, Inserts(q, u, v)
      PROVE  OneBond'
  <2>1. UNCHANGED rows /\ Existing' = Existing
    BY <1>3 DEF Inserts, Existing
  <2>2. /\ new.stage = "save" /\ new.id \notin Existing /\ new.row \in Row
        /\ Parties(new.row) = {u, v}
        /\ (new.row.type = "Pending" /\ u # v) \/ new.row.type = "Blocked"
    BY <1>3, RequestFields DEF Inserts, To, TypeOK, CopiesAgree
  <2>3. Stored({u, v}) = {}
    BY <1>3 DEF Inserts, Stored, Between
  <2>4. Opens(req)'
    BY <2>1, <2>2, <2>3 DEF Opens, Stored, Parties, Row
  <2> QED
    BY <2>1, <2>2, <2>4 DEF OneBond, Parties
<1>4. CASE Writes(q)
  <2>1. /\ req.stage \in {"save", "delete"} /\ req.id \in Ids /\ req.row \in Row
        /\ new.stage \notin {"save", "delete"}
    BY <1>4, RequestFields DEF Writes, To, TypeOK
  <2>2. /\ DOMAIN rows' = Ids /\ DOMAIN rows = Ids
        /\ \A i \in Ids \ {req.id} : rows'[i] = rows[i]
        /\ rows'[req.id] = IF req.stage = "save" THEN req.row ELSE NoRow
    BY <1>4, <2>1 DEF Writes, TypeOK
  <2>3. \A i \in Existing' \ {req.id} : i \in Existing /\ rows'[i] = rows[i]
    BY <2>2 DEF Existing
  <2>4. req.stage = "save" => \A i \in Existing \ {req.id} : Parties(rows[i]) # Parties(req.row)
    BY <2>1 DEF OneBond, Saves, Opens, Stored
  <2>5. req.id \in Existing' => req.stage = "save" /\ rows'[req.id] = req.row
    BY <2>1, <2>2 DEF Existing
  <2>6. ASSUME NEW i \in Existing', NEW j \in Existing', Parties(rows'[i]) = Parties(rows'[j])
        PROVE  i = j
    BY <2>3, <2>4, <2>5, <2>6 DEF OneBond
  <2> QED
    BY <2>1, <2>6 DEF OneBond, Parties
<1> QED
  BY <1>1, <1>2, <1>3, <1>4, StepShape

\* The bond of a pair is the one of its only row.
BondsRead ==
    /\ \A i \in Existing :
          Parties(rows[i]) \in Pairs /\ StoredBond[Parties(rows[i])] = BondOf(rows[i])
    /\ \A p \in Pairs : Stored(p) = {} => StoredBond[p] = [type |-> "none"]

\* While a pair has one row, its bond reads that row.
LEMMA BondsAreRead == TypeOK /\ OneBond => BondsRead
<1> SUFFICES ASSUME TypeOK, OneBond PROVE BondsRead
  OBVIOUS
<1>1. ASSUME NEW i \in Existing
      PROVE  Parties(rows[i]) \in Pairs /\ StoredBond[Parties(rows[i])] = BondOf(rows[i])
  <2> DEFINE p == Parties(rows[i])
  <2>1. p \in Pairs
    BY ExistingRows DEF Pairs, Parties, Row
  <2>2. i \in Stored(p) /\ \A j \in Stored(p) : j = i
    BY DEF Stored, OneBond
  <2> HIDE DEF p
  <2>3. (CHOOSE j \in Stored(p) : TRUE) = i /\ Stored(p) # {}
    BY <2>2
  <2>4. StoredBond[p] = BondOf(rows[i])
    BY <2>1, <2>3 DEF StoredBond
  <2> QED
    BY <2>1, <2>4 DEF p
<1> QED
  BY <1>1 DEF BondsRead, StoredBond

\* A write changes the bond of the pair it is about and of no other.
LEMMA WriteMovesOnePair ==
    ASSUME TypeOK, OneBond, BondsRead, BondsRead', NEW q, Requests = {q}, Writes(q),
           NEW p, p = Parties(requests[q].row)
    PROVE  LET req == requests[q] IN
              /\ req.id \in Ids /\ req.row \in Row /\ p \in Pairs
              /\ StoredBond' = [StoredBond EXCEPT ![p] = StoredBond'[p]]
              /\ req.stage = "save" => StoredBond'[p] = BondOf(req.row)
              /\ req.stage = "delete" => StoredBond'[p] = [type |-> "none"]
<1> DEFINE req == requests[q]
<1>1. /\ req.stage \in {"save", "delete"} /\ req.id \in Ids /\ req.row \in Row
  BY RequestFields DEF Writes, TypeOK
<1>2. p \in Pairs
  BY <1>1 DEF Pairs, Parties, Row
<1>3. /\ DOMAIN rows' = Ids /\ DOMAIN rows = Ids
      /\ \A i \in Ids \ {req.id} : rows'[i] = rows[i]
      /\ rows'[req.id] = IF req.stage = "save" THEN req.row ELSE NoRow
  BY <1>1 DEF Writes, TypeOK
<1>4. req.id \in Existing => Parties(rows[req.id]) = p
  BY <1>1 DEF OneBond, Saves, Opens, Deletes
<1>5. ASSUME NEW other \in Pairs \ {p}
      PROVE  StoredBond'[other] = StoredBond[other]
  <2>1. \A i \in Ids : i \in Stored(other) <=> i \in Stored(other)'
    BY <1>1, <1>3, <1>4, RowIsNotNoRow DEF Stored, Existing, Parties
  <2>2. Stored(other)' = Stored(other)
    BY <1>3, <2>1 DEF Stored, Existing
  <2>3. CASE Stored(other) = {}
    BY <2>2, <2>3 DEF BondsRead
  <2>4. ASSUME NEW i \in Stored(other)
        PROVE  StoredBond'[other] = StoredBond[other]
    <3>1. /\ i \in Existing /\ i \in Existing' /\ rows'[i] = rows[i]
          /\ Parties(rows[i]) = other
      BY <1>3, <1>4, <2>2 DEF Stored, Existing, Parties
    <3> QED
      BY <3>1 DEF BondsRead, BondOf, Parties
  <2> QED
    BY <2>3, <2>4
<1>6. StoredBond' = [StoredBond EXCEPT ![p] = StoredBond'[p]]
  <2>1. /\ StoredBond = [other \in Pairs |-> StoredBond[other]]
        /\ StoredBond' = [other \in Pairs |-> StoredBond'[other]]
    BY DEF StoredBond, Pairs
  <2> QED
    BY <1>2, <1>5, <2>1
<1>7. ASSUME req.stage = "save"
      PROVE  StoredBond'[p] = BondOf(req.row)
  <2>1. req.id \in Existing' /\ rows'[req.id] = req.row
    BY <1>1, <1>3, <1>7, RowIsNotNoRow DEF Existing
  <2> QED
    BY <2>1 DEF BondsRead, BondOf, Parties
<1>8. ASSUME req.stage = "delete"
      PROVE  StoredBond'[p] = [type |-> "none"]
  <2>1. req.id \in Existing /\ req.row = rows[req.id]
    BY <1>8 DEF OneBond, Deletes
  <2>2. \A i \in Existing : Parties(rows[i]) = p => i = req.id
    BY <2>1 DEF OneBond
  <2>3. Stored(p)' = {}
    BY <1>3, <1>8, <2>2 DEF Stored, Existing, Parties
  <2> QED
    BY <1>2, <2>3 DEF BondsRead
<1> QED
  BY <1>1, <1>2, <1>6, <1>7, <1>8

\* Every step of the handlers is a step of the friend graph or none.
LEMMA BondStep ==
    ASSUME TypeOK, OneBond, BondsRead, BondsRead', NEW q, Requests = {q}, [Next]_vars,
           Bonds = StoredBond, Bonds' = StoredBond'
    PROVE  [Graph!Next]_Bonds
<1> DEFINE req == requests[q]
           p   == Parties(req.row)
<1>1. CASE UNCHANGED rows
  <2>1. StoredBond' = StoredBond
    BY <1>1 DEF StoredBond, Stored, Existing, Parties, BondOf
  <2> QED
    BY <2>1
<1>2. CASE Writes(q)
  <2>1. /\ req.stage \in {"save", "delete"}
        /\ req.id \in Ids /\ req.row \in Row /\ p \in Pairs
        /\ Bonds' = [Bonds EXCEPT ![p] = StoredBond'[p]]
        /\ req.stage = "save" => StoredBond'[p] = BondOf(req.row)
        /\ req.stage = "delete" => StoredBond'[p] = [type |-> "none"]
    <3>1. PICK pair : pair = p
      OBVIOUS
    <3> QED
      BY <1>2, <3>1, WriteMovesOnePair DEF Writes
  <2>2. /\ req.row.sender \in Users /\ req.row.recipient \in Users
        /\ p = {req.row.sender, req.row.recipient}
    BY <2>1 DEF Row, Parties
  <2>3. req.id \in Existing /\ Parties(rows[req.id]) = p =>
          /\ Bonds[p] = BondOf(rows[req.id])
          /\ rows[req.id] \in Row /\ rows[req.id].sender \in p
    BY ExistingRows DEF BondsRead, Parties
  <2>4. CASE req.stage = "save" /\ req.row.type = "Blocked"
    <3>1. Bonds' = [Bonds EXCEPT ![p] = [type |-> "blocked", by |-> req.row.sender]]
      BY <2>1, <2>4 DEF BondOf
    <3>2. Graph!Block(req.row.sender, req.row.recipient)
      BY <2>2, <3>1 DEF Graph!Block, Graph!Blocked
    <3> QED
      BY <2>2, <3>2 DEF Graph!Next
  <2>5. CASE req.stage = "save" /\ Saves(req) /\ req.row.type = "Friends"
    <3>1. Bonds' = [Bonds EXCEPT ![p] = [type |-> "friends"]]
      BY <2>1, <2>5 DEF BondOf
    <3>2. \E u \in p : Bonds[p] \in {[type |-> "pending", by |-> u], [type |-> "blocked", by |-> u]}
      BY <2>3, <2>5 DEF Saves, BondOf
    <3>3. Graph!Befriend(p)
      BY <3>1, <3>2 DEF Graph!Befriend, Graph!Move, Graph!Friends, Graph!Pending, Graph!Blocked
    <3> QED
      BY <2>1, <3>3 DEF Graph!Next, Graph!Pairs, Pairs
  <2>6. CASE req.stage = "save" /\ Opens(req) /\ req.row.type = "Pending"
    <3>1. Bonds' = [Bonds EXCEPT ![p] = [type |-> "pending", by |-> req.row.sender]]
      BY <2>1, <2>6 DEF BondOf
    <3>2. Bonds[p] = [type |-> "none"]
      BY <2>1, <2>6 DEF Opens, BondsRead
    <3>3. Graph!Ask(req.row.sender, req.row.recipient)
      BY <2>2, <2>6, <3>1, <3>2 DEF Opens, Graph!Ask, Graph!Move, Graph!NoBond, Graph!Pending
    <3> QED
      BY <2>2, <3>3 DEF Graph!Next
  <2>7. CASE req.stage = "delete"
    <3>1. /\ req.id \in Existing /\ req.row = rows[req.id] /\ req.by \in p
          /\ req.row.type = "Blocked" => req.row.sender = req.by
      BY <2>7 DEF OneBond, Deletes
    <3>2. PICK v \in Users : p = {req.by, v}
      BY <2>2, <3>1
    <3>3. Bonds' = [Bonds EXCEPT ![p] = [type |-> "none"]]
      BY <2>1, <2>7
    <3>4. Bonds[p] = BondOf(req.row) /\ req.row.sender \in {req.by, v}
      BY <2>3, <3>1, <3>2
    <3>5. req.row.type \in {"Pending", "Friends", "Blocked"}
      BY <2>1 DEF Row
    <3>6. Bonds[p] \in {[type |-> "friends"], [type |-> "pending", by |-> req.by],
                        [type |-> "pending", by |-> v], [type |-> "blocked", by |-> req.by]}
      BY <3>1, <3>4, <3>5 DEF BondOf
    <3>7. Graph!Part(req.by, v)
      BY <3>2, <3>3, <3>6
         DEF Graph!Part, Graph!Move, Graph!Friends, Graph!Pending, Graph!Blocked, Graph!NoBond
    <3> QED
      BY <2>2, <3>1, <3>2, <3>7 DEF Graph!Next
  <2> QED
    BY <2>1, <2>4, <2>5, <2>6, <2>7 DEF OneBond, Saves, Opens
<1> QED
  BY <1>1, <1>2, StepShape DEF Rewrites, Inserts

\* What the friend graph is shown of: the stored bonds of a single slot, or none.
ShowsStored == Bonds = StoredBond
ShowsNothing == Bonds = NoBonds

\* When requests come one at a time, the handlers implement the friend graph: a pair of
\* users has one bond, which each call moves by one of the graph's edges in the step that
\* writes the row (relationships.service.ts:36-138, 171-294).
THEOREM FriendGraphIsKept == Spec => KeepsFriendGraph
<1>1. Init => Graph!Init
  <2> SUFFICES ASSUME Init PROVE Graph!Init
    OBVIOUS
  <2>1. \A p \in Pairs : Stored(p) = {}
    BY DEF Init, Stored, Existing
  <2>2. StoredBond = NoBonds
    BY <2>1 DEF StoredBond, NoBonds
  <2> QED
    BY <2>2 DEF Graph!Init, Graph!Pairs, Graph!NoBond, Bonds, NoBonds, Pairs
<1>2. Init => OneBond
  BY DEF Init, OneBond, Existing, Idle
<1>3. ASSUME NEW q, Requests = {q}
      PROVE  Spec => KeepsFriendGraph
  <2>1. TypeOK => OneAtATime
    BY <1>3, FS_Singleton DEF TypeOK, OneAtATime
  <2>2. TypeOK /\ CopiesAgree /\ OneBond /\ [Next]_vars => OneBond'
    BY <1>3, OneBondStep
  <2>3. OneAtATime => ShowsStored
    BY DEF Bonds, ShowsStored
  <2>4. /\ TypeOK /\ OneBond /\ BondsRead /\ BondsRead' /\ [Next]_vars
        /\ ShowsStored /\ ShowsStored'
        => [Graph!Next]_Bonds
    BY <1>3, BondStep DEF ShowsStored
  <2>5. Spec => []TypeOK
    BY TypeCorrect
  <2>6. Spec => []OneBond
    BY <1>2, <2>2, <2>5, CopiesStayAligned, PTL DEF Spec
  <2>7. Spec => []BondsRead
    BY <2>5, <2>6, BondsAreRead, PTL
  <2>8. Spec => []ShowsStored
    BY <2>1, <2>3, <2>5, PTL
  <2> QED
    BY <1>1, <2>4, <2>5, <2>6, <2>7, <2>8, PTL DEF Spec, KeepsFriendGraph, Graph!Spec
<1>4. ASSUME ~\E q : Requests = {q}
      PROVE  Spec => KeepsFriendGraph
  <2>1. TypeOK => ~OneAtATime
    BY <1>4, FS_Singleton, RelationshipsAssumption DEF TypeOK, OneAtATime
  <2>2. ~OneAtATime => ShowsNothing
    BY DEF Bonds, ShowsNothing
  <2>3. NoBonds' = NoBonds
    BY DEF NoBonds, Pairs
  <2>4. ShowsNothing /\ ShowsNothing' => [Graph!Next]_Bonds
    BY <2>3 DEF ShowsNothing
  <2>5. Spec => []ShowsNothing
    BY <2>1, <2>2, TypeCorrect, PTL
  <2> QED
    BY <1>1, <2>4, <2>5, PTL DEF Spec, KeepsFriendGraph, Graph!Spec
<1> QED
  BY <1>3, <1>4

-----------------------------------------------------------------------------
(* One request at a time and none that stops half way: what clients are told stays true *)

\* Something about relationship i is on its way to u's client.
Mailed(u, i) == \E k \in DOMAIN inbox[u] : inbox[u][k].id = i

\* A notice is on its way that makes u's client list i.
Promised(u, i) == \E k \in DOMAIN inbox[u] : inbox[u][k].id = i /\ inbox[u][k].kind = "received"

Untold(i) == \A u \in Users : lists[u][i] = NoRow /\ ~Mailed(u, i)

Vouched(u, i) == i \in Existing /\ u \in Parties(rows[i])

\* The request has still to do what takes i off u's list.
Retracts(req, u, i) ==
    \/ req.stage = "emit" /\ req.kind = "removed" /\ req.to = u /\ req.id = i
    \/ req.stage \in {"emit", "reply"} /\ req.effect = "gone" /\ req.by = u /\ req.id = i
    \/ req.stage = "load" /\ req.by = u

\* u's client will take i off its list.
Doomed(u, i) ==
    \/ \E k \in DOMAIN inbox[u] : inbox[u][k].id = i /\ inbox[u][k].kind = "removed"
    \/ \E q \in Requests : Retracts(requests[q], u, i)

\* Only a new request makes anyone list something, and nobody has heard of it before.
Announces(req) ==
    /\ req.effect \in {"Pending", "Friends", "gone", "none"}
    /\ req.stage \in {"save", "emit"} => (req.kind = "received" <=> req.effect = "Pending")
    /\ req.stage = "save" => req.effect # "gone"
    /\ req.stage = "save" /\ req.kind = "received" =>
          Untold(req.id) /\ req.row.sender = req.by /\ req.row.recipient # req.by
    /\ req.stage = "emit" /\ req.kind = "received" =>
          /\ Untold(req.id) /\ Vouched(req.by, req.id)
          /\ Vouched(req.to, req.id) /\ req.to # req.by
    /\ req.stage = "reply" /\ req.effect = "Pending" =>
          Vouched(req.by, req.id) /\ ~Promised(req.by, req.id)
    /\ req.effect = "gone" => ~Promised(req.by, req.id)
    /\ req.stage = "delete" => req.kind = "removed" /\ req.effect = "gone"

\* What a request is about has been handed out, and what it will tell is true.
Truthful(req) ==
    /\ req.stage \in {"update", "save", "delete", "emit", "reply"} => req.id \in issued
    /\ req.stage \in {"save", "delete", "emit", "reply"} => Announces(req)
    /\ req.stage = "load" =>
          /\ req.by \in Clients /\ inbox[req.by] = << >>
          /\ \A i \in Ids : req.list[i] # NoRow => Vouched(req.by, i)

\* The first thing a client hears of a relationship, if it is told of a request, is that.
ReceivedIsFirst ==
    \A u \in Users : \A k \in DOMAIN inbox[u] : inbox[u][k].kind = "received" =>
        /\ lists[u][inbox[u][k].id] = NoRow
        /\ \A j \in 1..(k - 1) : inbox[u][j].id # inbox[u][k].id

\* What a client lists, or will, is a relationship of its user, or will be taken off the list.
EntriesAreVouched ==
    \A u \in Users, i \in Ids :
        lists[u][i] # NoRow \/ Promised(u, i) => Vouched(u, i) \/ Doomed(u, i)

\* What the clients have heard: nothing without a client, nothing of an id not handed out.
ClientsAreTold ==
    /\ \A i \in Ids \ issued : Untold(i)
    /\ \A u \in Users \ Clients, i \in Ids : lists[u][i] = NoRow /\ ~Mailed(u, i)
    /\ \A q \in Requests : Truthful(requests[q])
    /\ ReceivedIsFirst
    /\ EntriesAreVouched

-----------------------------------------------------------------------------
\* What is left when the first of a sequence is taken, and what there is with one more.
LEMMA QueueTail ==
    ASSUME NEW S, NEW s \in Seq(S), s # << >>
    PROVE  /\ 1 \in DOMAIN s /\ Head(s) = s[1]
           /\ \A k \in DOMAIN Tail(s) : k \in Nat /\ k + 1 \in DOMAIN s /\ Tail(s)[k] = s[k + 1]
           /\ \A k \in DOMAIN s : k # 1 => \E j \in DOMAIN Tail(s) : k = j + 1
<1>1. /\ Len(s) \in Nat \ {0} /\ DOMAIN s = 1..Len(s) /\ DOMAIN Tail(s) = 1..(Len(s) - 1)
      /\ Head(s) = s[1] /\ \A k \in 1..(Len(s) - 1) : Tail(s)[k] = s[k + 1]
  BY HeadTailProperties, EmptySeq, LenProperties
<1>2. \A k \in DOMAIN s : k # 1 => k - 1 \in DOMAIN Tail(s) /\ k = (k - 1) + 1
  BY <1>1
<1> QED
  BY <1>1, <1>2

LEMMA QueueAppend ==
    ASSUME NEW S, NEW s \in Seq(S), NEW e \in S
    PROVE  /\ \A k \in DOMAIN Append(s, e) : \/ k \in DOMAIN s /\ Append(s, e)[k] = s[k]
                                             \/ k = Len(s) + 1 /\ Append(s, e)[k] = e
           /\ \A k \in DOMAIN s : k \in DOMAIN Append(s, e) /\ Append(s, e)[k] = s[k]
           /\ Len(s) + 1 \in DOMAIN Append(s, e) /\ Append(s, e)[Len(s) + 1] = e
           /\ DOMAIN s = 1..Len(s) /\ Len(s) \in Nat
BY AppendProperties, LenProperties

\* What a request may tell depends on rows, inboxes and lists only.
LEMMA ToldTheSame ==
    ASSUME UNCHANGED <<rows, inbox, lists>>
    PROVE  /\ \A u, i : /\ Mailed(u, i)' <=> Mailed(u, i)
                        /\ Promised(u, i)' <=> Promised(u, i)
                        /\ Vouched(u, i)' <=> Vouched(u, i)
           /\ \A i : Untold(i)' <=> Untold(i)
           /\ \A req : Announces(req)' <=> Announces(req)
           /\ ReceivedIsFirst' <=> ReceivedIsFirst
BY DEF Mailed, Promised, Vouched, Untold, Announces, ReceivedIsFirst, Existing, Parties

\* A request that tells nobody of anything new.
LEMMA SaysNothingNew ==
    ASSUME NEW req, req.id \in issued, req.effect \in {"Friends", "none"},
           \/ req.stage = "reply"
           \/ req.stage = "save" /\ req.kind \in {"added", "none"}
    PROVE  Truthful(req)
BY DEF Truthful, Announces

\* A request about to accept or to block says nothing new.
LEMMA RewritesTruthfully ==
    ASSUME TypeOK, CopiesAgree, NEW q \in Requests, NEW u \in Users, NEW i \in Existing,
           NEW effect \in {"Friends", "none"},
           AcceptRequest(q, u, i, effect) \/ BlockUpdate(q, u, i)
    PROVE  \E req : To(q, req) /\ Truthful(req)
<1>1. i \in issued
  BY DEF CopiesAgree
<1>2. \/ To(q, [stage |-> "save", by |-> u, id |-> i, row |-> [rows[i] EXCEPT !.type = "Friends"],
                kind |-> "added", effect |-> effect])
      \/ To(q, [stage |-> "reply", by |-> u, id |-> i, effect |-> effect])
      \/ To(q, [stage |-> "save", by |-> u, id |-> i, row |-> BlockedRow(rows[i], u),
                kind |-> "none", effect |-> "none"])
  BY DEF AcceptRequest, BlockUpdate, Reply
<1>3. /\ Truthful([stage |-> "save", by |-> u, id |-> i, row |-> [rows[i] EXCEPT !.type = "Friends"],
                   kind |-> "added", effect |-> effect])
      /\ Truthful([stage |-> "reply", by |-> u, id |-> i, effect |-> effect])
      /\ Truthful([stage |-> "save", by |-> u, id |-> i, row |-> BlockedRow(rows[i], u),
                   kind |-> "none", effect |-> "none"])
  BY <1>1, SaysNothingNew
<1> QED
  BY <1>2, <1>3

\* What an unanswered request promises stays true while nothing but ids and slots change.
LEMMA StaysTruthful ==
    ASSUME UNCHANGED <<rows, inbox, lists>>, issued \subseteq issued', NEW req, Truthful(req)
    PROVE  Truthful(req)'
<1>1. /\ req.stage \in {"save", "delete", "emit", "reply"} => Announces(req)'
      /\ \A i : Vouched(req.by, i)' <=> Vouched(req.by, i)
  BY ToldTheSame DEF Truthful
<1> QED
  BY <1>1 DEF Truthful

\* A request that arrives, but for one that loads, says what is true.
LEMMA ArrivesTruthfully ==
    ASSUME TypeOK, CopiesAgree, ClientsAreTold, NEW q \in Requests, Arrive(q),
           \A u \in Users : ~Load(q, u)
    PROVE  /\ requests[q].stage = "idle"
           /\ UNCHANGED <<rows, inbox, lists>> /\ issued \subseteq issued'
           /\ \E req : To(q, req) /\ Truthful(req)'
<1> DEFINE Fine == /\ requests[q].stage = "idle"
                   /\ UNCHANGED <<rows, inbox, lists>> /\ issued \subseteq issued'
                   /\ \E req : To(q, req) /\ Truthful(req)'
<1>1. ASSUME NEW u \in Users, NEW v \in Users, Create(q, u, v)
      PROVE  Fine
  <2>1. requests[q].stage = "idle" /\ UNCHANGED <<rows, inbox, lists>>
    BY <1>1 DEF Create, CanStart, Idle
  <2>2. CASE Between(u, v) = {}
    <3>1. PICK i \in Ids \ issued :
             /\ issued' = issued \cup {i}
             /\ To(q, [stage |-> "save", by |-> u, id |-> i, row |-> RequestRow(u, v),
                       kind |-> "received", effect |-> "Pending"])
      BY <1>1, <2>2 DEF Create, Insert
    <3>2. Untold(i)' /\ i \in issued'
      BY <2>1, <3>1, ToldTheSame DEF ClientsAreTold
    <3>3. u # v
      BY <1>1 DEF Create
    <3>4. Truthful([stage |-> "save", by |-> u, id |-> i, row |-> RequestRow(u, v),
                    kind |-> "received", effect |-> "Pending"])'
      BY <3>2, <3>3 DEF Truthful, Announces, RequestRow
    <3> QED
      BY <2>1, <3>1, <3>4
  <2>3. CASE Between(u, v) # {}
    <3>1. PICK i \in Between(u, v) :
             \/ AcceptRequest(q, u, i, "none")
             \/ AskUpdate(q, u, i, "Friends", "none")
      BY <1>1, <2>3 DEF Create
    <3>2. UNCHANGED issued /\ i \in Existing /\ i \in issued
      BY <1>1, <2>3, ExistingRows DEF Create, CopiesAgree
    <3>3. Truthful([stage |-> "update", by |-> u, id |-> i, type |-> "Friends",
                    effect |-> "none"])
      BY <3>2 DEF Truthful
    <3>4. \E req : To(q, req) /\ Truthful(req)
      BY <3>1, <3>2, <3>3, RewritesTruthfully DEF AskUpdate
    <3> QED
      BY <2>1, <3>2, <3>4, StaysTruthful
  <2> QED
    BY <2>2, <2>3
<1>2. ASSUME NEW u \in Users, NEW v \in Users, BlockUser(q, u, v)
      PROVE  Fine
  <2>1. requests[q].stage = "idle" /\ UNCHANGED <<rows, inbox, lists>>
    BY <1>2 DEF BlockUser, CanStart, Idle
  <2>2. CASE Between(u, v) = {}
    <3> DEFINE row == [sender |-> u, recipient |-> v, type |-> "Blocked"]
    <3>1. PICK i \in Ids \ issued :
             /\ issued' = issued \cup {i}
             /\ To(q, [stage |-> "save", by |-> u, id |-> i, row |-> row,
                       kind |-> "none", effect |-> "none"])
      BY <1>2, <2>2 DEF BlockUser, Insert
    <3>2. Truthful([stage |-> "save", by |-> u, id |-> i, row |-> row,
                    kind |-> "none", effect |-> "none"])'
      BY <3>1 DEF Truthful, Announces
    <3> QED
      BY <2>1, <3>1, <3>2
  <2>3. CASE Between(u, v) # {}
    <3>1. PICK i \in Between(u, v) : BlockUpdate(q, u, i)
      BY <1>2, <2>3 DEF BlockUser
    <3>2. UNCHANGED issued /\ i \in Existing
      BY <1>2, <2>3, ExistingRows DEF BlockUser
    <3>3. \E req : To(q, req) /\ Truthful(req)
      BY <3>1, <3>2, RewritesTruthfully
    <3> QED
      BY <2>1, <3>2, <3>3, StaysTruthful
  <2> QED
    BY <2>2, <2>3
<1>3. ASSUME NEW u \in Users, NEW i \in Ids, Remove(q, u, i)
      PROVE  Fine
  <2>1. /\ requests[q].stage = "idle" /\ UNCHANGED <<rows, inbox, lists, issued>>
        /\ i \in issued /\ (u \in Clients => lists[u][i] # NoRow)
    BY <1>3 DEF Remove, CanStart, CanName, Idle
  <2>2. ~Promised(u, i)
    BY <2>1 DEF Promised, Mailed, ClientsAreTold, ReceivedIsFirst
  <2>3. /\ Truthful([stage |-> "delete", by |-> u, id |-> i, row |-> rows[i],
                     kind |-> "removed", effect |-> "gone"])
        /\ Truthful([stage |-> "reply", by |-> u, id |-> i, effect |-> "gone"])
    BY <2>1, <2>2 DEF Truthful, Announces
  <2>4. \E req : To(q, req) /\ Truthful(req)
    BY <1>3, <2>3 DEF Remove, Reply
  <2> QED
    BY <2>1, <2>4, StaysTruthful
<1>4. ASSUME NEW u \in Users, NEW i \in Ids, NEW type \in {"Friends", "Blocked"}, Put(q, u, i, type)
      PROVE  Fine
  <2> DEFINE effect == IF type = "Friends" THEN "Friends" ELSE "none"
  <2>1. /\ requests[q].stage = "idle" /\ UNCHANGED <<rows, inbox, lists, issued>>
        /\ i \in issued
        /\ To(q, [stage |-> "update", by |-> u, id |-> i, type |-> type, effect |-> effect])
    BY <1>4 DEF Put, AskUpdate, CanStart, CanName, Idle
  <2>2. Truthful([stage |-> "update", by |-> u, id |-> i, type |-> type, effect |-> effect])
    BY <2>1 DEF Truthful
  <2> QED
    BY <2>1, <2>2, StaysTruthful
<1> QED
  BY <1>1, <1>2, <1>3, <1>4 DEF Arrive

\* A request that goes on before its first write says what is true.
LEMMA UpdatesTruthfully ==
    ASSUME TypeOK, CopiesAgree, ClientsAreTold, NEW q \in Requests, Update(q)
    PROVE  /\ requests[q].stage = "update"
           /\ UNCHANGED <<rows, inbox, lists>> /\ issued \subseteq issued'
           /\ \E req : To(q, req) /\ Truthful(req)'
<1> DEFINE old == requests[q]
<1>1. /\ old.stage = "update" /\ old.id \in issued /\ old.by \in Users
      /\ old.effect \in {"Friends", "none"}
      /\ UNCHANGED <<rows, inbox, lists, issued>>
  BY RequestFields DEF Update, ClientsAreTold, Truthful, TypeOK
<1>2. \A effect \in {"Friends", "none"} :
         Truthful([stage |-> "reply", by |-> old.by, id |-> old.id, effect |-> effect])
  BY <1>1, SaysNothingNew
<1>3. \/ Reply(q, old.by, old.id, old.effect)
      \/ /\ old.id \in Existing
         /\ BlockUpdate(q, old.by, old.id) \/ AcceptRequest(q, old.by, old.id, old.effect)
  BY DEF Update
<1>4. \E req : To(q, req) /\ Truthful(req)
  BY <1>1, <1>2, <1>3, RewritesTruthfully DEF Reply
<1> QED
  BY <1>1, <1>4, StaysTruthful

\* The steps that change no row, inbox or list keep what the clients are told true.
LEMMA StartKeepsTold ==
    ASSUME TypeOK, ClientsAreTold, NEW q, Requests = {q},
           requests[q].stage \in {"idle", "update"},
           UNCHANGED <<rows, inbox, lists>>, issued \subseteq issued',
           \E req : To(q, req) /\ Truthful(req)'
    PROVE  ClientsAreTold'
<1>1. requests'[q].stage = requests'[q].stage /\ \A p \in Requests : Truthful(requests[p])'
  BY DEF To, TypeOK
<1>2. \A u \in Users, i \in Ids : Doomed(u, i) => Doomed(u, i)'
  BY DEF Doomed, Retracts
<1>3. EntriesAreVouched'
  BY <1>2, ToldTheSame DEF EntriesAreVouched, ClientsAreTold
<1> QED
  BY <1>1, <1>3, ToldTheSame DEF ClientsAreTold

\* A client that loads forgets what was on its way and is given the rows there are.
LEMMA LoadKeepsTold ==
    ASSUME TypeOK, ClientsAreTold, NEW q, Requests = {q}, NEW u \in Users, Load(q, u)
    PROVE  ClientsAreTold'
<1> DEFINE req == [stage |-> "load", by |-> u, list |-> [i \in Ids |-> ListedFor(u, i)]]
<1>1. /\ requests[q] = Idle /\ u \in Clients /\ requests'[q] = req
      /\ UNCHANGED <<rows, issued, lists>>
      /\ inbox'[u] = << >> /\ \A w \in Users \ {u} : inbox'[w] = inbox[w]
  BY DEF Load, CanStart, To, TypeOK
<1>2. \A w, i : Vouched(w, i)' <=> Vouched(w, i)
  BY <1>1 DEF Vouched, Existing, Parties
<1>3. \A w \in Users, i \in Ids : /\ Mailed(w, i)' => Mailed(w, i)
                                  /\ Promised(w, i)' => Promised(w, i)
  BY <1>1 DEF Mailed, Promised
<1>4. Truthful(requests[q])'
  <2>1. \A i \in Ids : ListedFor(u, i) # NoRow => Vouched(u, i)
    BY DEF ListedFor, Vouched
  <2> QED
    BY <1>1, <1>2, <2>1 DEF Truthful
<1>5. ReceivedIsFirst'
  BY <1>1 DEF ReceivedIsFirst, ClientsAreTold
<1>6. EntriesAreVouched'
  <2> SUFFICES ASSUME NEW w \in Users, NEW i \in Ids,
                      lists'[w][i] # NoRow \/ Promised(w, i)', ~Vouched(w, i)'
               PROVE  Doomed(w, i)'
    BY DEF EntriesAreVouched
  <2>1. CASE w = u
    BY <1>1, <2>1 DEF Doomed, Retracts
  <2>2. CASE w # u
    <3>1. Doomed(w, i)
      BY <1>1, <1>2, <1>3, <2>2 DEF ClientsAreTold, EntriesAreVouched
    <3> QED
      BY <1>1, <2>2, <3>1 DEF Doomed, Retracts, Idle
  <2> QED
    BY <2>1, <2>2
<1> QED
  BY <1>1, <1>3, <1>4, <1>5, <1>6 DEF ClientsAreTold, Untold

\* The fetched list holds nothing that is gone, since nothing else has run.
LEMMA LoadedKeepsTold ==
    ASSUME TypeOK, CopiesAgree, ClientsAreTold, NEW q, Requests = {q}, Loaded(q)
    PROVE  ClientsAreTold'
<1> DEFINE req == requests[q]
           u   == req.by
<1>1. /\ req.stage = "load" /\ u \in Users /\ req.list \in [Ids -> ListedType \cup {NoRow}]
      /\ u \in Clients /\ inbox[u] = << >>
      /\ \A i \in Ids : req.list[i] # NoRow => Vouched(u, i)
  BY RequestFields DEF Loaded, TypeOK, ClientsAreTold, Truthful
<1>2. /\ requests'[q] = Idle /\ UNCHANGED <<rows, issued, inbox>>
      /\ lists'[u] = req.list /\ \A w \in Users \ {u} : lists'[w] = lists[w]
  BY <1>1 DEF Loaded, To, TypeOK
<1>3. \A w, i : /\ Vouched(w, i)' <=> Vouched(w, i)
                /\ Mailed(w, i)' <=> Mailed(w, i)
                /\ Promised(w, i)' <=> Promised(w, i)
  BY <1>2 DEF Vouched, Existing, Parties, Mailed, Promised
<1>4. Truthful(requests[q])'
  BY <1>2 DEF Truthful, Idle
<1>5. ReceivedIsFirst'
  BY <1>1, <1>2 DEF ReceivedIsFirst, ClientsAreTold
<1>6. EntriesAreVouched'
  <2> SUFFICES ASSUME NEW w \in Users, NEW i \in Ids,
                      lists'[w][i] # NoRow \/ Promised(w, i)', ~Vouched(w, i)'
               PROVE  Doomed(w, i)'
    BY DEF EntriesAreVouched
  <2>1. w # u
    BY <1>1, <1>2, <1>3 DEF Promised
  <2>2. Doomed(w, i)
    BY <1>2, <1>3, <2>1 DEF ClientsAreTold, EntriesAreVouched
  <2> QED
    BY <1>1, <1>2, <2>1, <2>2 DEF Doomed, Retracts
<1>7. \A i \in Ids \ issued : Untold(i)'
  BY <1>1, <1>2, <1>3 DEF ClientsAreTold, Untold, Vouched, CopiesAgree
<1> QED
  BY <1>1, <1>2, <1>3, <1>4, <1>5, <1>6, <1>7 DEF ClientsAreTold

\* A write vouches for what its notice and its reply will say.
LEMMA WriteKeepsTold ==
    ASSUME TypeOK, OneBond, ClientsAreTold, NEW q, Requests = {q}, Write(q),
           NEW req, requests[q] = req, NEW new, requests'[q] = new
    PROVE  ClientsAreTold'
<1>1. /\ req.stage \in {"save", "delete"} /\ req.id \in Ids /\ req.row \in Row /\ req.by \in Users
      /\ req.id \in issued /\ Announces(req)
  BY RequestFields DEF Write, TypeOK, ClientsAreTold, Truthful
<1>2. /\ UNCHANGED <<issued, inbox, lists>>
      /\ rows'[req.id] = IF req.stage = "save" THEN req.row ELSE NoRow
      /\ \A i \in Ids \ {req.id} : rows'[i] = rows[i]
      /\ DOMAIN rows' = Ids /\ DOMAIN rows = Ids
      /\ new = IF req.kind = "none"
               THEN [stage |-> "reply", by |-> req.by, id |-> req.id, effect |-> req.effect]
               ELSE [stage |-> "emit", by |-> req.by, id |-> req.id, kind |-> req.kind,
                     to |-> NoticeTo(req), effect |-> req.effect]
  BY <1>1 DEF Write, To, Reply, TypeOK
<1>3. \A u, i : /\ Mailed(u, i)' <=> Mailed(u, i)
                /\ Promised(u, i)' <=> Promised(u, i)
  BY <1>2 DEF Mailed, Promised
<1>4. /\ \A i : Untold(i)' <=> Untold(i)
      /\ ReceivedIsFirst' <=> ReceivedIsFirst
  BY <1>2 DEF Untold, ReceivedIsFirst, Mailed
<1>5. \A u \in Users, i \in Ids : Vouched(u, i) =>
         Vouched(u, i)' \/ (req.stage = "delete" /\ i = req.id /\ u \in Parties(req.row))
  <2>1. \A u \in Users, i \in Ids \ {req.id} : Vouched(u, i) => Vouched(u, i)'
    BY <1>2 DEF Vouched, Existing, Parties
  <2>2. req.stage = "save" => req.id \in Existing' /\ rows'[req.id] = req.row
    BY <1>1, <1>2, RowIsNotNoRow DEF Existing
  <2>3. req.id \in Existing => Parties(rows[req.id]) = Parties(req.row)
    BY <1>1 DEF OneBond, Saves, Opens, Deletes
  <2> QED
    BY <1>1, <2>1, <2>2, <2>3 DEF Vouched, Parties
<1>6. Truthful(new)'
  <2>1. CASE req.stage = "save" /\ req.kind = "received"
    <3>1. /\ req.id \in Existing' /\ rows'[req.id] = req.row
          /\ req.row.sender = req.by /\ req.row.recipient # req.by /\ Untold(req.id)
          /\ req.effect = "Pending" /\ NoticeTo(req) = req.row.recipient
      <4>1. req.id \in Existing' /\ rows'[req.id] = req.row
        BY <1>1, <1>2, <2>1, RowIsNotNoRow DEF Existing
      <4>2. /\ req.row.sender = req.by /\ req.row.recipient # req.by /\ Untold(req.id)
            /\ req.effect = "Pending"
        BY <1>1, <2>1 DEF Announces
      <4>3. NoticeTo(req) = req.row.recipient
        BY <2>1 DEF NoticeTo
      <4> QED
        BY <4>1, <4>2, <4>3
    <3>2. Vouched(req.by, req.id)' /\ Vouched(req.row.recipient, req.id)' /\ Untold(req.id)'
      BY <1>4, <3>1 DEF Vouched, Parties
    <3>3. new = [stage |-> "emit", by |-> req.by, id |-> req.id, kind |-> "received",
                 to |-> req.row.recipient, effect |-> "Pending"]
      BY <1>2, <2>1, <3>1
    <3> QED
      BY <1>1, <1>2, <3>1, <3>2, <3>3 DEF Truthful, Announces
  <2>2. CASE ~(req.stage = "save" /\ req.kind = "received")
    <3>1. /\ req.effect \in {"Friends", "gone", "none"} /\ req.kind # "received"
          /\ req.effect = "gone" => ~Promised(req.by, req.id)'
      BY <1>1, <1>3, <2>2 DEF Announces
    <3> QED
      BY <1>1, <1>2, <3>1 DEF Truthful, Announces
  <2> QED
    BY <2>1, <2>2
<1>7. EntriesAreVouched'
  <2> SUFFICES ASSUME NEW u \in Users, NEW i \in Ids,
                      lists'[u][i] # NoRow \/ Promised(u, i)', ~Vouched(u, i)'
               PROVE  Doomed(u, i)'
    BY DEF EntriesAreVouched
  <2>1. Vouched(u, i) \/ Doomed(u, i)
    BY <1>2, <1>3 DEF ClientsAreTold, EntriesAreVouched
  <2>2. CASE Vouched(u, i)
    <3>1. req.stage = "delete" /\ i = req.id /\ u \in Parties(req.row)
      BY <1>5, <2>2
    <3>2. req.kind = "removed" /\ req.effect = "gone" /\ NoticeTo(req) = OtherParty(req.row, req.by)
      BY <1>1, <3>1 DEF Announces, NoticeTo
    <3>3. new = [stage |-> "emit", by |-> req.by, id |-> i, kind |-> "removed",
                 to |-> OtherParty(req.row, req.by), effect |-> "gone"]
      BY <1>2, <3>1, <3>2
    <3>4. u = req.by \/ u = OtherParty(req.row, req.by)
      BY <3>1 DEF OneBond, Deletes, OtherParty, Parties
    <3>5. Retracts(new, u, i)
      BY <3>3, <3>4 DEF Retracts
    <3> QED
      BY <3>5 DEF Doomed, Retracts
  <2>3. CASE Doomed(u, i)
    BY <1>1, <1>2, <2>3 DEF Doomed, Retracts
  <2> QED
    BY <2>1, <2>2, <2>3
<1>8. \A p \in Requests : Truthful(requests[p])'
  BY <1>6 DEF Truthful
<1> QED
  BY <1>2, <1>3, <1>4, <1>7, <1>8 DEF ClientsAreTold

\* A notice joins those on the way; a request is the first its recipient hears of.
LEMMA EmitKeepsTold ==
    ASSUME TypeOK, ClientsAreTold, NEW q, Requests = {q}, Emit(q),
           NEW req, requests[q] = req, NEW new, requests'[q] = new
    PROVE  ClientsAreTold'
<1> DEFINE notice == [kind |-> req.kind, id |-> req.id]
<1>1. /\ req.stage = "emit" /\ req.id \in Ids /\ req.by \in Users /\ req.to \in Users
      /\ req.id \in issued /\ Announces(req) /\ notice \in Notice
  BY RequestFields DEF Emit, TypeOK, ClientsAreTold, Truthful, Notice
<1>2. /\ UNCHANGED <<rows, issued, lists>>
      /\ new = [stage |-> "reply", by |-> req.by, id |-> req.id, effect |-> req.effect]
      /\ \A u \in Users : inbox'[u] = IF u = req.to /\ u \in Clients
                                      THEN Append(inbox[u], notice) ELSE inbox[u]
      /\ \A u \in Users : inbox[u] \in Seq(Notice)
  BY <1>1 DEF Emit, To, Reply, TypeOK
<1> HIDE DEF notice
<1>3. ASSUME NEW u \in Users
      PROVE  /\ \A k \in DOMAIN inbox'[u] :
                   \/ k \in DOMAIN inbox[u] /\ inbox'[u][k] = inbox[u][k]
                   \/ k = Len(inbox[u]) + 1 /\ inbox'[u][k] = notice /\ u = req.to /\ u \in Clients
             /\ \A k \in DOMAIN inbox[u] : k \in DOMAIN inbox'[u] /\ inbox'[u][k] = inbox[u][k]
             /\ u = req.to /\ u \in Clients =>
                   \E k \in DOMAIN inbox'[u] : inbox'[u][k] = notice
             /\ DOMAIN inbox[u] = 1..Len(inbox[u]) /\ Len(inbox[u]) \in Nat
  <2>1. DOMAIN inbox[u] = 1..Len(inbox[u]) /\ Len(inbox[u]) \in Nat
    BY <1>2, LenProperties
  <2>2. CASE u = req.to /\ u \in Clients
    <3>1. inbox[u] \in Seq(Notice) /\ inbox'[u] = Append(inbox[u], notice)
      BY <1>2, <2>2
    <3> QED
      BY <1>1, <2>1, <2>2, <3>1, QueueAppend
  <2>3. CASE ~(u = req.to /\ u \in Clients)
    BY <1>2, <2>1, <2>3
  <2> QED
    BY <2>2, <2>3
<1>4. notice.kind = req.kind /\ notice.id = req.id
  BY DEF notice
<1>5. \A u, i : Vouched(u, i)' <=> Vouched(u, i)
  BY <1>2 DEF Vouched, Existing, Parties
<1>6. \A u \in Users, i \in Ids :
         /\ Mailed(u, i)' => Mailed(u, i) \/ (i = req.id /\ u = req.to /\ u \in Clients)
         /\ Promised(u, i)' => \/ Promised(u, i)
                               \/ /\ i = req.id /\ u = req.to /\ u \in Clients
                                  /\ req.kind = "received"
  BY <1>3, <1>4 DEF Mailed, Promised
<1>7. Truthful(new)'
  <2>1. req.effect = "Pending" =>
           Vouched(req.by, req.id)' /\ req.to # req.by /\ ~Promised(req.by, req.id)
    BY <1>1, <1>5 DEF Announces, Untold, Mailed, Promised
  <2>2. req.effect = "gone" => ~Promised(req.by, req.id) /\ req.kind # "received"
    BY <1>1 DEF Announces
  <2>3. req.effect \in {"Pending", "gone"} => ~Promised(req.by, req.id)'
    BY <1>1, <1>6, <2>1, <2>2
  <2>4. req.effect \in {"Pending", "Friends", "gone", "none"}
    BY <1>1 DEF Announces
  <2> QED
    BY <1>1, <1>2, <2>1, <2>3, <2>4 DEF Truthful, Announces
<1>8. ReceivedIsFirst'
  <2> SUFFICES ASSUME NEW u \in Users, NEW k \in DOMAIN inbox'[u],
                      inbox'[u][k].kind = "received"
               PROVE  /\ lists[u][inbox'[u][k].id] = NoRow
                      /\ \A j \in 1..(k - 1) : inbox'[u][j].id # inbox'[u][k].id
    BY <1>2 DEF ReceivedIsFirst
  <2>1. \A j \in 1..(k - 1) : j \in DOMAIN inbox[u] /\ inbox'[u][j] = inbox[u][j]
    BY <1>3
  <2>2. CASE k \in DOMAIN inbox[u] /\ inbox'[u][k] = inbox[u][k]
    BY <2>1, <2>2 DEF ReceivedIsFirst, ClientsAreTold
  <2>3. CASE inbox'[u][k] = notice
    <3>1. Untold(req.id)
      BY <1>1, <1>4, <2>3 DEF Announces
    <3> QED
      BY <1>4, <2>1, <2>3, <3>1 DEF Untold, Mailed
  <2> QED
    BY <1>3, <2>2, <2>3
<1>9. EntriesAreVouched'
  <2> SUFFICES ASSUME NEW u \in Users, NEW i \in Ids,
                      lists'[u][i] # NoRow \/ Promised(u, i)', ~Vouched(u, i)'
               PROVE  Doomed(u, i)'
    BY DEF EntriesAreVouched
  <2>1. ~(req.kind = "received" /\ i = req.id /\ u = req.to)
    BY <1>1, <1>5 DEF Announces
  <2>2. u \in Clients /\ Doomed(u, i)
    BY <1>2, <1>5, <1>6, <2>1 DEF ClientsAreTold, EntriesAreVouched, Mailed, Promised
  <2>3. CASE \E k \in DOMAIN inbox[u] : inbox[u][k].id = i /\ inbox[u][k].kind = "removed"
    BY <1>3, <2>3 DEF Doomed
  <2>4. CASE Retracts(req, u, i)
    <3>1. CASE req.kind = "removed" /\ req.to = u /\ req.id = i
      BY <1>3, <1>4, <2>2, <3>1 DEF Doomed
    <3>2. CASE req.effect = "gone" /\ req.by = u /\ req.id = i
      BY <1>2, <3>2 DEF Doomed, Retracts
    <3> QED
      BY <1>1, <2>4, <3>1, <3>2 DEF Retracts
  <2> QED
    BY <2>2, <2>3, <2>4 DEF Doomed
<1>10. \A p \in Requests : Truthful(requests[p])'
  BY <1>7 DEF Truthful
<1>11. \A i \in Ids \ issued : Untold(i)'
  BY <1>1, <1>2, <1>6 DEF ClientsAreTold, Untold
<1>12. \A u \in Users \ Clients, i \in Ids : lists'[u][i] = NoRow /\ ~Mailed(u, i)'
  BY <1>2, <1>6 DEF ClientsAreTold
<1> QED
  BY <1>2, <1>8, <1>9, <1>10, <1>11, <1>12 DEF ClientsAreTold

\* The reply makes the client list what its request made, or drop what it removed.
LEMMA ReplyKeepsTold ==
    ASSUME TypeOK, ClientsAreTold, NEW q, Requests = {q}, Replied(q),
           NEW req, requests[q] = req
    PROVE  ClientsAreTold'
<1>1. /\ req.stage = "reply" /\ req.id \in Ids /\ req.by \in Users
      /\ req.id \in issued /\ Announces(req)
  BY RequestFields DEF Replied, TypeOK, ClientsAreTold, Truthful
<1>2. /\ requests'[q] = Idle /\ UNCHANGED <<rows, issued, inbox>>
      /\ \A u \in Users : lists'[u] = IF u = req.by /\ u \in Clients
                                      THEN Listed(lists[u], req.id, req.effect) ELSE lists[u]
      /\ \A u \in Users : lists[u] \in [Ids -> ListedType \cup {NoRow}]
  BY <1>1 DEF Replied, To, TypeOK
<1>3. \A u, i : /\ Vouched(u, i)' <=> Vouched(u, i)
                /\ Mailed(u, i)' <=> Mailed(u, i)
                /\ Promised(u, i)' <=> Promised(u, i)
  BY <1>2 DEF Vouched, Existing, Parties, Mailed, Promised
<1>4. \A u \in Users, i \in Ids :
         /\ lists'[u][i] # NoRow =>
               \/ lists[u][i] # NoRow
               \/ req.effect = "Pending" /\ u = req.by /\ i = req.id /\ u \in Clients
         /\ req.effect = "gone" /\ u = req.by /\ i = req.id /\ u \in Clients => lists'[u][i] = NoRow
  BY <1>1, <1>2 DEF Announces, Listed
<1>5. \A p \in Requests : Truthful(requests[p])'
  BY <1>2 DEF Truthful, Idle
<1>6. ReceivedIsFirst'
  <2> SUFFICES ASSUME NEW u \in Users, NEW k \in DOMAIN inbox[u], inbox[u][k].kind = "received"
               PROVE  lists'[u][inbox[u][k].id] = NoRow
    BY <1>2 DEF ReceivedIsFirst, ClientsAreTold
  <2>1. inbox[u][k].id \in Ids
    <3>1. inbox[u] \in Seq(Notice)
      BY DEF TypeOK
    <3>2. inbox[u][k] \in Notice
      BY <3>1, LenProperties, ElementOfSeq
    <3> QED
      BY <3>2 DEF Notice
  <2>2. lists[u][inbox[u][k].id] = NoRow
    BY DEF ReceivedIsFirst, ClientsAreTold
  <2>3. ~(req.effect = "Pending" /\ u = req.by /\ inbox[u][k].id = req.id)
    BY <1>1 DEF Announces, Promised
  <2> QED
    BY <1>4, <2>1, <2>2, <2>3
<1>7. EntriesAreVouched'
  <2> SUFFICES ASSUME NEW u \in Users, NEW i \in Ids,
                      lists'[u][i] # NoRow \/ Promised(u, i)', ~Vouched(u, i)'
               PROVE  Doomed(u, i)'
    BY DEF EntriesAreVouched
  <2>1. ~(req.effect = "Pending" /\ u = req.by /\ i = req.id)
    BY <1>1, <1>3 DEF Announces
  <2>2. /\ Doomed(u, i) /\ u \in Clients
        /\ lists'[u][i] = NoRow => Promised(u, i)
    BY <1>2, <1>3, <1>4, <2>1 DEF ClientsAreTold, EntriesAreVouched, Mailed, Promised
  <2>3. ~Retracts(req, u, i)
    BY <1>1, <1>4, <2>2 DEF Retracts, Announces
  <2> QED
    BY <1>2, <2>2, <2>3 DEF Doomed
<1>8. /\ \A i \in Ids \ issued : Untold(i)'
      /\ \A u \in Users \ Clients, i \in Ids : lists'[u][i] = NoRow /\ ~Mailed(u, i)'
  BY <1>1, <1>2, <1>3, <1>4 DEF ClientsAreTold, Untold
<1> QED
  BY <1>2, <1>5, <1>6, <1>7, <1>8 DEF ClientsAreTold

\* A notice changes the one entry it is about; a removal is never followed by the request
\* that made the relationship.
LEMMA NoticeKeepsTold ==
    ASSUME TypeOK, ClientsAreTold, NEW w \in Users, Notified(w)
    PROVE  ClientsAreTold'
<1> DEFINE n == Head(inbox[w])
<1>1. /\ inbox[w] \in Seq(Notice) /\ inbox[w] # << >>
      /\ UNCHANGED <<rows, issued, requests>>
      /\ inbox'[w] = Tail(inbox[w]) /\ lists'[w] = Listed(lists[w], n.id, EffectOf(n))
      /\ \A u \in Users \ {w} : inbox'[u] = inbox[u] /\ lists'[u] = lists[u]
      /\ \A u \in Users : lists[u] \in [Ids -> ListedType \cup {NoRow}]
  BY DEF Notified, TypeOK
<1>2. /\ 1 \in DOMAIN inbox[w] /\ n = inbox[w][1]
      /\ \A k \in DOMAIN inbox'[w] :
            k \in Nat /\ k + 1 \in DOMAIN inbox[w] /\ inbox'[w][k] = inbox[w][k + 1]
      /\ \A k \in DOMAIN inbox[w] : k # 1 => \E j \in DOMAIN inbox'[w] : k = j + 1
  BY <1>1, QueueTail
<1> HIDE DEF n
<1>3. n \in Notice /\ n.id \in Ids /\ n.kind \in {"received", "added", "removed"}
  <2>1. n \in Notice
    BY <1>1, <1>2, LenProperties, ElementOfSeq
  <2> QED
    BY <2>1 DEF Notice
<1>4. Mailed(w, n.id)
  BY <1>2 DEF Mailed
<1>5. \A u, i : Vouched(u, i)' <=> Vouched(u, i)
  BY <1>1 DEF Vouched, Existing, Parties
<1>6. \A u \in Users, i \in Ids : /\ Mailed(u, i)' => Mailed(u, i)
                                  /\ Promised(u, i)' => Promised(u, i)
  <2> SUFFICES ASSUME NEW u \in Users, NEW i \in Ids
               PROVE  (Mailed(u, i)' => Mailed(u, i)) /\ (Promised(u, i)' => Promised(u, i))
    OBVIOUS
  <2>1. CASE u = w
    BY <1>2, <2>1 DEF Mailed, Promised
  <2>2. CASE u # w
    BY <1>1, <2>2 DEF Mailed, Promised
  <2> QED
    BY <2>1, <2>2
<1>7. \A u \in Users, i \in Ids : u # w \/ i # n.id => lists'[u][i] = lists[u][i]
  BY <1>1, <1>3 DEF Listed
<1>8. /\ n.kind = "added" => (lists'[w][n.id] # NoRow => lists[w][n.id] # NoRow)
      /\ n.kind = "removed" => lists'[w][n.id] = NoRow
  BY <1>1, <1>3 DEF Listed, EffectOf
<1>9. \A i \in Ids : Untold(i) => Untold(i)'
  BY <1>4, <1>6, <1>7 DEF Untold
<1>10. \A u \in Users \ Clients, i \in Ids : lists'[u][i] = NoRow /\ ~Mailed(u, i)'
  BY <1>3, <1>4, <1>6, <1>7 DEF ClientsAreTold
<1>11. ASSUME NEW k \in DOMAIN inbox'[w], inbox'[w][k].kind = "received"
       PROVE  /\ inbox'[w][k].id # n.id /\ lists[w][inbox'[w][k].id] = NoRow
              /\ \A j \in 1..(k - 1) : inbox'[w][j].id # inbox'[w][k].id
  <2>1. /\ k \in Nat /\ k + 1 \in DOMAIN inbox[w] /\ inbox'[w][k] = inbox[w][k + 1]
        /\ inbox[w][k + 1].kind = "received"
    BY <1>2, <1>11
  <2>2. /\ lists[w][inbox[w][k + 1].id] = NoRow
        /\ \A j \in 1..k : inbox[w][j].id # inbox[w][k + 1].id
    BY <2>1 DEF ClientsAreTold, ReceivedIsFirst
  <2>3. k >= 1 /\ \A j \in 1..(k - 1) : j \in DOMAIN inbox'[w] /\ j + 1 \in 1..k
    BY <1>1, <1>11, HeadTailProperties, LenProperties
  <2> QED
    BY <1>2, <2>1, <2>2, <2>3
<1>12. ReceivedIsFirst'
  <2> SUFFICES ASSUME NEW u \in Users, NEW k \in DOMAIN inbox'[u],
                      inbox'[u][k].kind = "received"
               PROVE  /\ lists'[u][inbox'[u][k].id] = NoRow
                      /\ \A j \in 1..(k - 1) : inbox'[u][j].id # inbox'[u][k].id
    BY DEF ReceivedIsFirst
  <2>1. CASE u = w
    <3>1. inbox'[w][k].id \in Ids
      <4>1. inbox[w][k + 1] \in Notice /\ inbox'[w][k] = inbox[w][k + 1]
        BY <1>1, <1>2, <2>1, LenProperties, ElementOfSeq
      <4> QED
        BY <4>1 DEF Notice
    <3> QED
      BY <1>7, <1>11, <2>1, <3>1
  <2>2. CASE u # w
    BY <1>1, <2>2 DEF ReceivedIsFirst, ClientsAreTold
  <2> QED
    BY <2>1, <2>2
<1>13. EntriesAreVouched'
  <2> SUFFICES ASSUME NEW u \in Users, NEW i \in Ids,
                      lists'[u][i] # NoRow \/ Promised(u, i)', ~Vouched(u, i)'
               PROVE  Doomed(u, i)'
    BY DEF EntriesAreVouched
  <2>1. CASE u # w
    <3>1. Doomed(u, i)
      BY <1>5, <1>6, <1>7, <2>1 DEF ClientsAreTold, EntriesAreVouched
    <3> QED
      BY <1>1, <2>1, <3>1 DEF Doomed, Retracts
  <2>2. CASE u = w
    <3>1. ~(i = n.id /\ n.kind = "removed")
      BY <1>8, <1>11, <2>2 DEF Promised
    <3>2. i = n.id /\ n.kind = "received" => Promised(w, i)
      BY <1>2 DEF Promised
    <3>3. Doomed(w, i)
      BY <1>3, <1>5, <1>6, <1>7, <1>8, <2>2, <3>1, <3>2 DEF ClientsAreTold, EntriesAreVouched
    <3>4. CASE \E k \in DOMAIN inbox[w] : inbox[w][k].id = i /\ inbox[w][k].kind = "removed"
      <4>1. PICK k \in DOMAIN inbox[w] : inbox[w][k].id = i /\ inbox[w][k].kind = "removed"
        BY <3>4
      <4>2. k # 1
        BY <1>2, <3>1, <4>1
      <4>3. PICK j \in DOMAIN inbox'[w] : k = j + 1
        BY <1>2, <4>2
      <4>4. inbox'[w][j].id = i /\ inbox'[w][j].kind = "removed"
        BY <1>2, <4>1, <4>3
      <4> QED
        BY <2>2, <4>4 DEF Doomed
    <3>5. CASE \E q \in Requests : Retracts(requests[q], w, i)
      BY <1>1, <2>2, <3>5 DEF Doomed, Retracts
    <3> QED
      BY <3>3, <3>4, <3>5 DEF Doomed
  <2> QED
    BY <2>1, <2>2
<1>14. ASSUME NEW q \in Requests
       PROVE  Truthful(requests[q])'
  <2>1. PICK req : req = requests[q]
    OBVIOUS
  <2>2. req \in Request \cup {Idle} /\ Truthful(req) /\ requests'[q] = req
    BY <1>1, <2>1 DEF TypeOK, ClientsAreTold
  <2>3. ASSUME req.stage \in {"save", "delete", "emit", "reply"}
        PROVE  Announces(req)'
    <3>1. req.id \in Ids /\ req.by \in Users
      BY <2>2, <2>3, RequestFields
    <3>2. Announces(req)
      BY <2>2, <2>3 DEF Truthful
    <3> QED
      BY <1>5, <1>6, <1>9, <3>1, <3>2 DEF Announces
  <2>4. req.stage = "load" => req.by # w
    BY <1>1, <2>2 DEF Truthful
  <2>5. req.stage = "load" => req.by \in Users
    BY <2>2, RequestFields
  <2> QED
    BY <1>1, <1>5, <2>2, <2>3, <2>4, <2>5 DEF Truthful
<1> QED
  BY <1>1, <1>9, <1>10, <1>12, <1>13, <1>14 DEF ClientsAreTold

\* With a single slot, no fault and nothing else at work, a step keeps what clients are told true.
LEMMA ToldStep ==
    ASSUME TypeOK, CopiesAgree, OneBond, ClientsAreTold, ~Faults,
           NEW q, Requests = {q}, [Next]_vars
    PROVE  ClientsAreTold'
<1>1. CASE UNCHANGED vars
  <2>1. \A u, i : Doomed(u, i)' <=> Doomed(u, i)
    BY <1>1 DEF vars, Doomed, Retracts
  <2>2. \A p \in Requests : Truthful(requests[p])'
    <3> SUFFICES ASSUME NEW p \in Requests, NEW req, req = requests[p]
                 PROVE  Truthful(req)' /\ requests'[p] = req
      BY DEF Truthful, Announces
    <3> QED
      BY <1>1, StaysTruthful DEF vars, ClientsAreTold
  <2> QED
    BY <1>1, <2>1, <2>2, ToldTheSame DEF vars, ClientsAreTold, EntriesAreVouched
<1>2. CASE Arrive(q)
  <2>1. CASE \E u \in Users : Load(q, u)
    BY <2>1, LoadKeepsTold
  <2>2. CASE \A u \in Users : ~Load(q, u)
    BY <1>2, <2>2, ArrivesTruthfully, StartKeepsTold
  <2> QED
    BY <2>1, <2>2
<1>3. CASE Proceed(q)
  <2>1. CASE Update(q)
    BY <2>1, UpdatesTruthfully, StartKeepsTold
  <2>2. CASE Write(q)
    BY <2>2, WriteKeepsTold
  <2>3. CASE Emit(q)
    BY <2>3, EmitKeepsTold
  <2>4. CASE Replied(q)
    BY <2>4, ReplyKeepsTold
  <2>5. CASE Loaded(q)
    BY <2>5, LoadedKeepsTold
  <2> QED
    BY <1>3, <2>1, <2>2, <2>3, <2>4, <2>5 DEF Proceed, Abandon
<1>4. ASSUME NEW u \in Users, Notified(u)
      PROVE  ClientsAreTold'
  BY <1>4, NoticeKeepsTold
<1> QED
  BY <1>1, <1>2, <1>3, <1>4 DEF Next

\* Requests one at a time, none stopped half way: once all has arrived no client lists a
\* relationship that is gone or not its user's (socket.context.tsx:73-80, mutations of the
\* relationships page), whatever the order in which replies, notices and lists came in.
THEOREM NothingGoneIsListed ==
    ASSUME ~Faults
    PROVE  Spec => []NoPhantomEntry
<1>1. Init => OneBond
  BY DEF Init, OneBond, Existing, Idle
<1>2. Init => ClientsAreTold
  BY DEF Init, ClientsAreTold, Untold, Mailed, Promised, Truthful, Idle, ReceivedIsFirst,
         EntriesAreVouched
<1>3. ASSUME NEW q, Requests = {q}
      PROVE  Spec => []NoPhantomEntry
  <2>1. TypeOK /\ CopiesAgree /\ OneBond /\ [Next]_vars => OneBond'
    BY <1>3, OneBondStep
  <2>2. TypeOK /\ CopiesAgree /\ OneBond /\ ClientsAreTold /\ [Next]_vars => ClientsAreTold'
    BY <1>3, ToldStep
  <2>3. TypeOK /\ ClientsAreTold => NoPhantomEntry
    <3> SUFFICES ASSUME TypeOK, ClientsAreTold, Settled, NEW u \in Users, NEW i \in Ids,
                        lists[u][i] # NoRow
                 PROVE  Vouched(u, i)
      BY DEF NoPhantomEntry, Vouched, TypeOK
    <3>1. ~Doomed(u, i)
      BY DEF Doomed, Retracts, Settled, Idle, TypeOK
    <3> QED
      BY <3>1 DEF ClientsAreTold, EntriesAreVouched
  <2> QED
    BY <1>1, <1>2, <2>1, <2>2, <2>3, TypeCorrect, CopiesStayAligned, PTL DEF Spec
<1>4. ASSUME ~\E q : Requests = {q}
      PROVE  Spec => []NoPhantomEntry
  <2>1. TypeOK => NoPhantomEntry
    BY <1>4, FS_Singleton, RelationshipsAssumption DEF TypeOK, NoPhantomEntry, OneAtATime
  <2> QED
    BY <2>1, TypeCorrect, PTL
<1> QED
  BY <1>3, <1>4
=============================================================================
