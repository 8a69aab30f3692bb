--------------------------- MODULE MessagesProofs ---------------------------
(***************************************************************************)
(* Theorems about the messages of a channel, for every set of users and    *)
(* every finite number of messages, in a dialog and in a guild, with and   *)
(* without faults, clients that load late and invite dialogs.              *)
(***************************************************************************)
EXTENDS Messages, FiniteSetTheorems, SequenceTheorems, TLAPS

-----------------------------------------------------------------------------
(* Sequences *)

EachOnce(s) == \A j, k \in 1..Len(s) : s[j] = s[k] => j = k

\* An element taken out of a sequence leaves the others, each as often as it was there.
LEMMA RemovalShortens ==
    ASSUME NEW S, NEW s \in Seq(S), NEW i \in DOMAIN s
    PROVE  /\ RemoveAt(s, i) \in Seq(S)
           /\ ToSet(RemoveAt(s, i)) \subseteq ToSet(s)
           /\ \A e \in ToSet(s) : e # s[i] => e \in ToSet(RemoveAt(s, i))
           /\ EachOnce(s) => EachOnce(RemoveAt(s, i))
<1>1. /\ Len(s) \in Nat /\ DOMAIN s = 1..Len(s)
      /\ i \in Nat /\ i - 1 \in Nat /\ Len(s) - i \in Nat
  BY LenProperties
<1>2. PICK front : front = SubSeq(s, 1, i - 1)
  OBVIOUS
<1>3. PICK back : back = SubSeq(s, i + 1, Len(s))
  OBVIOUS
<1>4. PICK rest : rest = front \o back
  OBVIOUS
<1>5. rest = RemoveAt(s, i)
  BY <1>2, <1>3, <1>4 DEF RemoveAt
<1>6. /\ front \in Seq(S) /\ Len(front) = i - 1
      /\ \A k \in 1..(i - 1) : front[k] = s[k]
  BY <1>1, <1>2, SubSeqProperties
<1>7. /\ back \in Seq(S) /\ Len(back) = Len(s) - i
      /\ \A k \in 1..(Len(s) - i) : back[k] = s[k + i]
  BY <1>1, <1>3, SubSeqProperties
<1>8. /\ rest \in Seq(S) /\ Len(rest) = Len(front) + Len(back)
      /\ \A k \in 1..(Len(front) + Len(back)) :
            rest[k] = IF k <= Len(front) THEN front[k] ELSE back[k - Len(front)]
  BY <1>4, <1>6, <1>7, ConcatProperties
<1>9. /\ DOMAIN rest = 1..(Len(s) - 1)
      /\ \A k \in 1..(Len(s) - 1) : rest[k] = IF k <= i - 1 THEN front[k] ELSE back[k - (i - 1)]
  <2>1. Len(front) + Len(back) = Len(s) - 1
    BY <1>1, <1>6, <1>7
  <2> QED
    BY <1>1, <1>6, <1>8, <2>1, LenProperties
<1>10. /\ \A k \in 1..(i - 1) : k \in DOMAIN rest /\ rest[k] = s[k]
       /\ \A k \in 1..(Len(s) - i) : k + i - 1 \in DOMAIN rest /\ rest[k + i - 1] = s[k + i]
  <2>1. ASSUME NEW k \in 1..(i - 1)
        PROVE  k \in DOMAIN rest /\ rest[k] = s[k]
    BY <1>1, <1>6, <1>7, <1>8, <1>9
  <2>2. ASSUME NEW k \in 1..(Len(s) - i)
        PROVE  k + i - 1 \in DOMAIN rest /\ rest[k + i - 1] = s[k + i]
    <3>1. PICK j : j = k + i - 1
      OBVIOUS
    <3>2. j \in 1..(Len(s) - 1) /\ ~(j <= i - 1) /\ j - (i - 1) = k
      <4>1. PICK n : n = Len(s)
        OBVIOUS
      <4>2. n \in Int /\ i \in Int /\ 1 <= i /\ i <= n
        BY <1>1, <4>1
      <4>3. k \in Int /\ 1 <= k /\ k <= n - i
        BY <1>1, <4>1
      <4>4. j \in Int /\ j = k + i - 1
        BY <3>1, <4>2, <4>3
      <4>5. 1 <= j /\ j <= n - 1
        BY <4>2, <4>3, <4>4
      <4>6. ~(j <= i - 1) /\ j - (i - 1) = k
        BY <4>2, <4>3, <4>4
      <4> QED
        BY <4>1, <4>2, <4>4, <4>5, <4>6
    <3>3. rest[j] = back[k] /\ back[k] = s[k + i]
      BY <1>7, <1>9, <3>2
    <3> QED
      BY <1>9, <3>1, <3>2, <3>3
  <2> QED
    BY <2>1, <2>2
<1>11. \A k \in DOMAIN rest : \E j \in DOMAIN s : rest[k] = s[j]
  <2> SUFFICES ASSUME NEW k \in DOMAIN rest
               PROVE  \E j \in DOMAIN s : rest[k] = s[j]
    OBVIOUS
  <2>1. CASE k < i
    <3>1. k \in 1..(i - 1) /\ k \in DOMAIN s
      BY <1>1, <1>9, <2>1
    <3> QED
      BY <1>10, <3>1
  <2>2. CASE ~(k < i)
    <3>1. k - i + 1 \in 1..(Len(s) - i) /\ k = (k - i + 1) + i - 1
      BY <1>1, <1>9, <2>2
    <3>2. rest[k] = s[(k - i + 1) + i] /\ (k - i + 1) + i \in DOMAIN s
      BY <1>1, <1>10, <3>1
    <3> QED
      BY <3>2
  <2> QED
    BY <2>1, <2>2
<1>12. ASSUME NEW j \in DOMAIN s, j # i
       PROVE  \E k \in DOMAIN rest : rest[k] = s[j]
  <2>1. CASE j < i
    <3>1. j \in 1..(i - 1)
      BY <1>1, <2>1
    <3> QED
      BY <1>10, <3>1
  <2>2. CASE j > i
    <3>1. j - i \in 1..(Len(s) - i) /\ j = (j - i) + i
      BY <1>1, <2>2
    <3> QED
      BY <1>10, <3>1
  <2>3. j \in Nat /\ i \in Nat /\ j # i
    BY <1>1, <1>12
  <2> QED
    BY <2>1, <2>2, <2>3
<1>13. ToSet(rest) \subseteq ToSet(s)
  BY <1>11 DEF ToSet
<1>14. \A e \in ToSet(s) : e # s[i] => e \in ToSet(rest)
  BY <1>12 DEF ToSet
<1>15. ASSUME EachOnce(s) PROVE EachOnce(rest)
  <2> DEFINE from(k) == IF k < i THEN k ELSE k + 1
  <2>1. Len(rest) = Len(s) - 1
    BY <1>1, <1>6, <1>7, <1>8
  <2>2. ASSUME NEW k \in 1..Len(rest)
        PROVE  from(k) \in 1..Len(s) /\ rest[k] = s[from(k)]
    <3>1. CASE k < i
      <4>1. k \in 1..(i - 1) /\ k \in 1..Len(s)
        BY <1>1, <2>1, <3>1
      <4> QED
        BY <1>10, <3>1, <4>1
    <3>2. CASE ~(k < i)
      <4>1. k - i + 1 \in 1..(Len(s) - i) /\ k = (k - i + 1) + i - 1 /\ k + 1 = (k - i + 1) + i
        BY <1>1, <2>1, <3>2
      <4>2. rest[k] = s[(k - i + 1) + i]
        BY <1>10, <4>1
      <4>3. k + 1 \in 1..Len(s)
        BY <1>1, <2>1
      <4> QED
        BY <3>2, <4>1, <4>2, <4>3
    <3> QED
      BY <3>1, <3>2
  <2>3. ASSUME NEW j \in 1..Len(rest), NEW k \in 1..Len(rest), from(j) = from(k)
        PROVE  j = k
    <3>1. i \in Int /\ j \in Int /\ k \in Int
      BY <1>1
    <3> QED
      BY <2>3, <3>1
  <2> HIDE DEF from
  <2> SUFFICES ASSUME NEW j \in 1..Len(rest), NEW k \in 1..Len(rest), rest[j] = rest[k]
               PROVE  j = k
    BY DEF EachOnce
  <2> QED
    BY <1>15, <2>2, <2>3 DEF EachOnce
<1> QED
  BY <1>5, <1>8, <1>13, <1>14, <1>15

\* An element that is appended is the only new one.
LEMMA AppendAdds ==
    ASSUME NEW S, NEW s \in Seq(S), NEW e \in S
    PROVE  Append(s, e) \in Seq(S) /\ ToSet(Append(s, e)) = ToSet(s) \cup {e}
<1>1. /\ Append(s, e) \in Seq(S) /\ Len(Append(s, e)) = Len(s) + 1 /\ Len(s) \in Nat
      /\ \A k \in 1..Len(s) : Append(s, e)[k] = s[k]
      /\ Append(s, e)[Len(s) + 1] = e
  BY AppendProperties, LenProperties
<1>2. DOMAIN s = 1..Len(s) /\ DOMAIN Append(s, e) = 1..(Len(s) + 1)
  BY <1>1, LenProperties
<1>3. \A k \in DOMAIN Append(s, e) : k \in 1..Len(s) \/ k = Len(s) + 1
  BY <1>1, <1>2
<1> QED
  BY <1>1, <1>2, <1>3 DEF ToSet

-----------------------------------------------------------------------------
(* Types *)

\* What the stages of loading, counting and fetching hold, and what an event is.
LEMMA Stages ==
    /\ \A l \in Loading :
          /\ l.stage \in {"row", "state"} => l.last \in Messages \cup {NoEntry}
          /\ l.stage = "state" => l.read \in Messages \cup {NoEntry}
    /\ \A c \in Counting :
          /\ c.stage \in {"none", "row", "done", "get", "set"}
          /\ c.stage \in {"get", "set"} => c.left \in SUBSET Users
          /\ c.stage = "set" => c.user \in Users /\ c.count \in Nat
    /\ \A e \in Event :
          /\ "msg" \in DOMAIN e => e.msg \in Messages
          /\ "snapshot" \in DOMAIN e => e.snapshot \in View
    /\ \A f \in Request :
          f.stage = "read" => f.found \in Seq(Messages)
BY DEF Loading, Counting, Event, Request

\* A list that is set keeps its type.
LEMMA CacheType ==
    ASSUME TypeOK, NEW u \in Users, NEW entries
    PROVE  /\ entries \in Seq(Entry) \cup {NoList} /\ Cache(u, entries) =>
                 list' \in [Users -> Seq(Entry) \cup {NoList}] /\ stale' \subseteq Users
           /\ (list[u] # NoList => entries \in Seq(Entry)) /\ CacheChanged(u, entries) =>
                 list' \in [Users -> Seq(Entry) \cup {NoList}] /\ stale' \subseteq Users
<1>1. ASSUME NEW e \in Seq(Entry) \cup {NoList}, Cache(u, e)
      PROVE  list' \in [Users -> Seq(Entry) \cup {NoList}] /\ stale' \subseteq Users
  BY <1>1 DEF Cache, TypeOK
<1>2. << >> \in Seq(Entry)
  BY EmptySeq
<1> QED
  BY <1>1, <1>2 DEF CacheChanged

\* A request that is made or settled keeps its type.
LEMMA FetchingType ==
    ASSUME TypeOK, NEW u \in Users, NEW stage \in {"none", "asked"}, Fetching(u, stage)
    PROVE  fetch' \in [Users -> Request]
<1>1. [stage |-> stage] \in Request
  BY DEF Request
<1> QED
  BY <1>1 DEF Fetching, TypeOK

\* The steps of a client that do not send or answer keep the types.
LEMMA PageType ==
    ASSUME TypeOK, NEW u \in Users
    PROVE  /\ Load(u) => TypeOK'
           /\ Open(u) => TypeOK'
           /\ Close(u) => TypeOK'
           /\ Collect(u) => TypeOK'
           /\ FetchStep(u) => TypeOK'
<1>1. ASSUME Load(u) PROVE TypeOK'
  <2>1. [stage |-> "asked"] \in Loading
    BY DEF Loading
  <2>2. load' \in [Users -> Loading]
    BY <1>1, <2>1 DEF Load, TypeOK
  <2> QED
    BY <1>1, <2>2 DEF Load, TypeOK, server, client
<1>2. ASSUME Open(u) PROVE TypeOK'
  <2>1. visits' \in [Users -> Nat] /\ \A w \in Users : visits'[w] <= Visits[w]
    <3>1. visits[u] \in Nat /\ Visits[u] \in Nat /\ visits[u] < Visits[u]
      BY <1>2, MessagesAssumption DEF Open, TypeOK
    <3>2. visits' = [visits EXCEPT ![u] = visits[u] + 1]
      BY <1>2 DEF Open
    <3>3. visits'[u] = visits[u] + 1 /\ visits[u] + 1 <= Visits[u]
      BY <3>1, <3>2 DEF TypeOK
    <3> QED
      BY <3>2, <3>3 DEF TypeOK
  <2>2. fetch' \in [Users -> Request]
    <3>1. UNCHANGED fetch \/ Fetching(u, "asked")
      BY <1>2 DEF Open
    <3> QED
      BY <3>1, FetchingType DEF TypeOK
  <2>3. open' \subseteq Users
    BY <1>2 DEF Open, TypeOK
  <2>4. UNCHANGED <<slot, reused, invited, server, inbox, load, view, list, stale>>
    BY <1>2 DEF Open
  <2> QED
    BY <2>1, <2>2, <2>3, <2>4 DEF TypeOK, server
<1>3. ASSUME Close(u) PROVE TypeOK'
  <2>1. view[u] \in View
    BY DEF TypeOK
  <2>2. CASE view[u].last \in {NoEntry, view[u].read}
    BY <1>3, <2>2 DEF Close, TypeOK
  <2>3. CASE view[u].last \notin {NoEntry, view[u].read}
    <3>1. view[u].last \in Entry /\ view[u].last.msg \in Messages
      BY <2>1, <2>3 DEF View, Entry
    <3>2. [[view[u] EXCEPT !.read = view[u].last] EXCEPT !.unread = 0] \in View
      BY <2>1, <3>1 DEF View
    <3>3. /\ view' = [view EXCEPT ![u] = [[view[u] EXCEPT !.read = view[u].last] EXCEPT !.unread = 0]]
          /\ acks' = acks \cup {[user |-> u, msg |-> view[u].last.msg, stage |-> "save"]}
          /\ open' = open \ {u}
          /\ UNCHANGED <<slot, reused, invited, sending, saved, counting, lastMessage, lastRead, unread,
                         inbox, load, visits, list, stale, fetch>>
      BY <1>3, <2>1, <2>3 DEF Close, TypeOK, View
    <3>4. view' \in [Users -> View]
      BY <3>2, <3>3 DEF TypeOK
    <3>5. acks' \subseteq [user : Users, msg : Messages, stage : {"save", "reset"}]
      BY <3>1, <3>3 DEF TypeOK
    <3> QED
      BY <3>3, <3>4, <3>5 DEF TypeOK
  <2> QED
    BY <2>2, <2>3
<1>4. ASSUME Collect(u) PROVE TypeOK'
  BY <1>4 DEF Collect, Cache, TypeOK, server
<1>5. ASSUME FetchRead(u) PROVE TypeOK'
  <2>1. [stage |-> "read", found |-> saved] \in Request
    BY DEF Request, TypeOK
  <2>2. fetch' \in [Users -> Request]
    BY <1>5, <2>1 DEF FetchRead, TypeOK
  <2> QED
    BY <1>5, <2>2 DEF FetchRead, TypeOK, server
<1>6. ASSUME FetchReply(u) PROVE TypeOK'
  <2>1. fetch[u].found \in Seq(Messages)
    BY <1>6, Stages DEF FetchReply, TypeOK
  <2> DEFINE found == fetch[u].found
             entries == [i \in DOMAIN found |-> Shown(found[i])]
  <2>2. entries \in Seq(Entry)
    <3>1. DOMAIN found = 1..Len(found) /\ Len(found) \in Nat
      BY <2>1, LenProperties
    <3>2. \A i \in 1..Len(found) : Shown(found[i]) \in Entry
      BY <2>1, <3>1, ElementOfSeq DEF Shown, Entry
    <3> QED
      BY <3>1, <3>2, IsASeq
  <2> HIDE DEF entries, found
  <2>3. Cache(u, entries) /\ Fetching(u, "none")
    BY <1>6 DEF FetchReply, entries, found
  <2>4. list' \in [Users -> Seq(Entry) \cup {NoList}] /\ stale' \subseteq Users
    BY <2>2, <2>3, CacheType
  <2>5. fetch' \in [Users -> Request]
    BY <2>3, FetchingType
  <2> QED
    BY <1>6, <2>4, <2>5 DEF FetchReply, TypeOK, server
<1>7. ASSUME FetchFails(u) PROVE TypeOK'
  <2>1. list' \in [Users -> Seq(Entry) \cup {NoList}] /\ stale' \subseteq Users
    BY <1>7, CacheType, EmptySeq DEF FetchFails
  <2>2. fetch' \in [Users -> Request]
    BY <1>7, FetchingType DEF FetchFails
  <2> QED
    BY <1>7, <2>1, <2>2 DEF FetchFails, TypeOK, server
<1> QED
  BY <1>1, <1>2, <1>3, <1>4, <1>5, <1>6, <1>7 DEF FetchStep

\* Loading, from the click to the snapshot, keeps the types.
LEMMA LoadType ==
    ASSUME TypeOK, NEW u \in Users, LoadStep(u)
    PROVE  TypeOK'
<1>1. CASE LoadRow(u)
  <2>1. [stage |-> "row", last |-> lastMessage] \in Loading
    BY DEF Loading, TypeOK
  <2>2. load' \in [Users -> Loading]
    BY <1>1, <2>1 DEF LoadRow, TypeOK
  <2> QED
    BY <1>1, <2>2 DEF LoadRow, TypeOK, server, client
<1>2. CASE LoadState(u)
  <2>1. [stage |-> "state", last |-> load[u].last, read |-> lastRead[u]] \in Loading
    BY <1>2, Stages DEF LoadState, At, Loading, TypeOK
  <2>2. load' \in [Users -> Loading]
    BY <1>2, <2>1 DEF LoadState, TypeOK
  <2> QED
    BY <1>2, <2>2 DEF LoadState, TypeOK, server, client
<1>3. CASE LoadCount(u)
  <2> DEFINE known == [last |-> Stored(load[u].last), read |-> Stored(load[u].read),
                       unread |-> unread[u]]
  <2>1. load[u].last \in Messages \cup {NoEntry} /\ load[u].read \in Messages \cup {NoEntry}
    BY <1>3, Stages DEF LoadCount, At, TypeOK
  <2>2. known \in View
    BY <2>1 DEF View, Stored, Shown, Entry, TypeOK
  <2> HIDE DEF known
  <2>3. [snapshot |-> known] \in Event /\ inbox[u] \in Seq(Event)
    BY <2>2 DEF Event, TypeOK
  <2>4. Append(inbox[u], [snapshot |-> known]) \in Seq(Event)
    BY <2>3, AppendAdds
  <2>5. inbox' = [inbox EXCEPT ![u] = Append(inbox[u], [snapshot |-> known])]
    BY <1>3 DEF LoadCount, known
  <2>6. inbox' \in [Users -> Seq(Event)]
    BY <2>4, <2>5 DEF TypeOK
  <2>7. [stage |-> "answered"] \in Loading
    BY DEF Loading
  <2>8. load' \in [Users -> Loading]
    BY <1>3, <2>7 DEF LoadCount, TypeOK
  <2> QED
    BY <1>3, <2>6, <2>8 DEF LoadCount, TypeOK, server, client
<1> QED
  BY <1>1, <1>2, <1>3 DEF LoadStep

\* What a client takes in keeps the types.
LEMMA ReceiveType ==
    ASSUME TypeOK, NEW u \in Users, ReceiveStep(u)
    PROVE  TypeOK'
<1>1. PICK i \in DOMAIN inbox[u] : TakeSnapshot(u, i) \/ Receive(u, i)
  BY DEF ReceiveStep
<1>2. inbox[u] \in Seq(Event) /\ inbox[u][i] \in Event
  BY LenProperties, ElementOfSeq DEF TypeOK
<1>3. inbox' \in [Users -> Seq(Event)]
  <2>1. RemoveAt(inbox[u], i) \in Seq(Event)
    BY <1>2, RemovalShortens
  <2> QED
    BY <1>1, <2>1 DEF TakeSnapshot, Receive, Taken, TypeOK
<1>4. CASE TakeSnapshot(u, i)
  <2>1. inbox[u][i].snapshot \in View
    BY <1>2, <1>4, Stages DEF TakeSnapshot
  <2>2. view' \in [Users -> View]
    BY <1>4, <2>1 DEF TakeSnapshot, TypeOK
  <2>3. [stage |-> "on"] \in Loading
    BY DEF Loading
  <2>4. load' \in [Users -> Loading]
    BY <1>4, <2>3 DEF TakeSnapshot, TypeOK
  <2> QED
    BY <1>3, <1>4, <2>2, <2>4 DEF TakeSnapshot, TypeOK, server
<1>5. CASE Receive(u, i)
  <2>1. CASE Loaded(u)
    <3> DEFINE entry == Shown(inbox[u][i].msg)
    <3>1. entry \in Entry
      BY <1>2, <1>5, Stages DEF Receive, Shown, Entry
    <3> HIDE DEF entry
    <3>2. /\ view' = [view EXCEPT ![u] = [[view[u] EXCEPT !.last = entry] EXCEPT !.unread = view[u].unread + 1]]
          /\ CacheChanged(u, Append(list[u], entry))
      <4>1. view[u] \in View /\ view \in [Users -> View]
        BY DEF TypeOK
      <4>2. view' = [view EXCEPT ![u].last = entry, ![u].unread = @ + 1]
        BY <1>5, <2>1 DEF Receive, entry
      <4>3. CacheChanged(u, Append(list[u], entry))
        BY <1>5, <2>1 DEF Receive, entry
      <4> QED
        BY <4>1, <4>2, <4>3 DEF View
    <3>3. [[view[u] EXCEPT !.last = entry] EXCEPT !.unread = view[u].unread + 1] \in View
      <4>1. view[u] \in View
        BY DEF TypeOK
      <4>2. view[u].unread + 1 \in Nat
        BY <4>1 DEF View
      <4> QED
        BY <3>1, <4>1, <4>2 DEF View
    <3>4. view' \in [Users -> View]
      BY <3>2, <3>3 DEF TypeOK
    <3>5. list[u] # NoList => Append(list[u], entry) \in Seq(Entry)
      BY <3>1, AppendAdds DEF TypeOK
    <3>6. list' \in [Users -> Seq(Entry) \cup {NoList}] /\ stale' \subseteq Users
      BY <3>2, <3>5, CacheType
    <3> QED
      BY <1>3, <1>5, <3>4, <3>6 DEF Receive, TypeOK, server
  <2>2. CASE ~Loaded(u)
    BY <1>3, <1>5, <2>2 DEF Receive, TypeOK, server
  <2> QED
    BY <2>1, <2>2
<1> QED
  BY <1>1, <1>4, <1>5

\* Sending a message keeps the types.
LEMMA SendType ==
    ASSUME TypeOK, NEW u \in Users, NEW m \in Messages,
           Send(u, m) \/ SendInGuild(u, m) \/ SendInvite(u, m)
    PROVE  TypeOK'
<1> DEFINE entry == [msg |-> m, slot |-> Place(u)]
<1>1. Pending(u, m)
  BY DEF Send, SendInGuild, SendNow, SendInvite
<1>2. entry \in Entry /\ Place(u) \in Nat
  BY LenProperties DEF Place, Entry, TypeOK
<1> HIDE DEF entry
<1>3. /\ To(m, "asked") /\ slot' = [slot EXCEPT ![m] = Place(u)]
      /\ reused' = reused \cup Overtaken(u)
      /\ CacheChanged(u, Append(list[u], entry))
      /\ UNCHANGED <<saved, counting, acks, lastMessage, lastRead, unread, inbox, load, visits,
                     open, fetch>>
  BY <1>1 DEF Pending, entry
<1>4. list[u] # NoList => Append(list[u], entry) \in Seq(Entry)
  BY <1>2, AppendAdds DEF TypeOK
<1>5. list' \in [Users -> Seq(Entry) \cup {NoList}] /\ stale' \subseteq Users
  BY <1>3, <1>4, CacheType
<1>6. view' \in [Users -> View] /\ invited' \subseteq Messages
  <2>1. Own(entry) \in View
    BY <1>2 DEF Own, View
  <2>2. UNCHANGED view \/ view' = [view EXCEPT ![u] = Own(entry)]
    BY DEF Send, SendInGuild, SendNow, SendInvite, entry
  <2>3. UNCHANGED invited \/ invited' = invited \cup {m}
    BY DEF Send, SendInGuild, SendNow, SendInvite
  <2> QED
    BY <2>1, <2>2, <2>3 DEF TypeOK
<1>7. /\ sending' \in [Messages -> {"new", "asked", "saved", "sent", "failed", "done"}]
      /\ slot' \in [Messages -> Nat]
      /\ reused' \subseteq Messages
  BY <1>2, <1>3 DEF To, Overtaken, TypeOK
<1> QED
  BY <1>3, <1>5, <1>6, <1>7 DEF TypeOK

\* A reply, whatever it finds in the list, keeps the types.
LEMMA ReplyType ==
    ASSUME TypeOK, NEW m \in Messages,
           SendReply(m) \/ FailureReply(m) \/ InviteReply(m)
    PROVE  TypeOK'
<1> DEFINE u == sender[m]
<1>1. u \in Users
  BY MessagesAssumption
<1>2. /\ \E stage \in {"sent", "failed"} : Answered(m, stage)
      /\ UNCHANGED <<reused, invited, saved, counting, acks, lastMessage, lastRead, unread, inbox,
                     load, visits, open>>
  BY DEF SendReply, FailureReply, InviteReply, Answered
<1>3. /\ sending' \in [Messages -> {"new", "asked", "saved", "sent", "failed", "done"}]
      /\ slot' \in [Messages -> Nat]
  BY <1>2 DEF Answered, To, TypeOK
<1>4. view' \in [Users -> View]
  <2>1. Own(Shown(m)) \in View
    BY DEF Own, Shown, View, Entry
  <2>2. UNCHANGED view \/ view' = [view EXCEPT ![u] = Own(Shown(m))]
    BY DEF SendReply, FailureReply, InviteReply
  <2> QED
    BY <1>1, <2>1, <2>2 DEF TypeOK
<1>5. list' \in [Users -> Seq(Entry) \cup {NoList}] /\ stale' \subseteq Users
  <2>1. CASE SendReply(m)
    <3>1. ASSUME list[u] # NoList
          PROVE  Replaced(list[u], m) \in Seq(Entry)
      <4>1. PICK entries \in Seq(Entry) : entries = list[u]
        BY <1>1, <3>1 DEF TypeOK
      <4>2. DOMAIN entries = 1..Len(entries) /\ Len(entries) \in Nat
        BY LenProperties
      <4>3. Shown(m) \in Entry /\ \A i \in 1..Len(entries) : entries[i] \in Entry
        BY ElementOfSeq DEF Shown, Entry
      <4>4. [i \in 1..Len(entries) |-> IF entries[i].slot = slot[m] THEN Shown(m) ELSE entries[i]]
               \in Seq(Entry)
        BY <4>2, <4>3, IsASeq
      <4> QED
        BY <4>1, <4>2, <4>4 DEF Replaced
    <3> QED
      BY <1>1, <2>1, <3>1, CacheType DEF SendReply
  <2>2. CASE FailureReply(m)
    <3>1. Cache(u, << >>) \/ UNCHANGED <<list, stale>>
      BY <2>2 DEF FailureReply
    <3>2. << >> \in Seq(Entry) \cup {NoList}
      BY EmptySeq
    <3>3. CASE Cache(u, << >>)
      BY <1>1, <3>2, <3>3, CacheType
    <3>4. CASE UNCHANGED <<list, stale>>
      BY <3>4 DEF TypeOK
    <3> QED
      BY <3>1, <3>3, <3>4
  <2>3. CASE InviteReply(m)
    <3>1. UNCHANGED list \/ list' = [list EXCEPT ![u] = << >>]
      BY <2>3 DEF InviteReply
    <3>2. UNCHANGED stale \/ stale' = stale \cup {u}
      BY <2>3 DEF InviteReply
    <3>3. << >> \in Seq(Entry) \cup {NoList}
      BY EmptySeq
    <3>4. list' \in [Users -> Seq(Entry) \cup {NoList}]
      BY <3>1, <3>3 DEF TypeOK
    <3>5. stale' \subseteq Users
      BY <1>1, <3>2 DEF TypeOK
    <3> QED
      BY <3>4, <3>5
  <2> QED
    BY <2>1, <2>2, <2>3
<1>6. fetch' \in [Users -> Request]
  <2>1. UNCHANGED fetch \/ Fetching(u, "asked")
    BY DEF SendReply, FailureReply, InviteReply
  <2> QED
    BY <1>1, <2>1, FetchingType DEF TypeOK
<1> QED
  BY <1>2, <1>3, <1>4, <1>5, <1>6 DEF TypeOK

\* The count goes on to the next recipient, or to the row of the channel.
LEMMA CountForType ==
    ASSUME TypeOK, NEW m \in Messages, NEW left \in SUBSET Users, CountFor(m, left)
    PROVE  counting' \in [Messages -> Counting]
<1>1. [stage |-> "row"] \in Counting /\ [stage |-> "get", left |-> left] \in Counting
  BY DEF Counting
<1> QED
  BY <1>1 DEF CountFor, TypeOK

\* The steps of message-service and of guild-service keep the types.
LEMMA ServerType ==
    ASSUME TypeOK, NEW m \in Messages
    PROVE  /\ Save(m) => TypeOK'
           /\ FailSave(m) => TypeOK'
           /\ Publish(m) => TypeOK'
           /\ FailUpload(m) => TypeOK'
           /\ CountStep(m) => TypeOK'
<1>1. ASSUME Save(m) PROVE TypeOK'
  <2>1. saved' \in Seq(Messages)
    BY <1>1, AppendAdds DEF Save, TypeOK
  <2> QED
    BY <1>1, <2>1 DEF Save, To, TypeOK, client
<1>2. ASSUME FailSave(m) PROVE TypeOK'
  BY <1>2 DEF FailSave, To, TypeOK, client
<1>3. ASSUME Publish(m) PROVE TypeOK'
  <2>1. counting' \in [Messages -> Counting]
    BY <1>3, CountForType DEF Publish, Recipients
  <2>2. acks' \subseteq [user : Users, msg : Messages, stage : {"save", "reset"}]
    BY <1>3, MessagesAssumption DEF Publish, TypeOK
  <2>3. sending' \in [Messages -> {"new", "asked", "saved", "sent", "failed", "done"}]
    BY <1>3 DEF Publish, To, TypeOK
  <2> QED
    BY <1>3, <2>1, <2>2, <2>3 DEF Publish, TypeOK, client
<1>4. ASSUME FailUpload(m) PROVE TypeOK'
  <2>1. saved' \in Seq(Messages)
    BY <1>4, RemovalShortens DEF FailUpload, TypeOK
  <2> QED
    BY <1>4, <2>1 DEF FailUpload, To, TypeOK, client
<1>5. ASSUME CountGet(m) PROVE TypeOK'
  <2>1. PICK u \in counting[m].left :
           counting' = [counting EXCEPT ![m] = [stage |-> "set", left |-> counting[m].left \ {u},
                                                user |-> u, count |-> unread[u]]]
    BY <1>5 DEF CountGet
  <2>2. counting[m].left \in SUBSET Users
    BY <1>5, Stages DEF CountGet, TypeOK
  <2>3. [stage |-> "set", left |-> counting[m].left \ {u}, user |-> u, count |-> unread[u]]
           \in Counting
    BY <2>1, <2>2 DEF Counting, TypeOK
  <2>4. counting' \in [Messages -> Counting]
    BY <2>1, <2>3 DEF TypeOK
  <2> QED
    BY <1>5, <2>4 DEF CountGet, TypeOK, client
<1>6. ASSUME CountSet(m) PROVE TypeOK'
  <2>1. /\ counting[m].left \in SUBSET Users
        /\ counting[m].user \in Users /\ counting[m].count \in Nat
    BY <1>6, Stages DEF CountSet, TypeOK
  <2>2. counting' \in [Messages -> Counting]
    BY <1>6, <2>1, CountForType DEF CountSet
  <2>3. unread' \in [Users -> Nat]
    BY <1>6, <2>1 DEF CountSet, Counted, TypeOK
  <2> QED
    BY <1>6, <2>2, <2>3 DEF CountSet, TypeOK, client
<1>7. ASSUME CountRow(m) PROVE TypeOK'
  <2>1. \A u \in Users : Append(inbox[u], [msg |-> m]) \in Seq(Event)
    BY AppendAdds DEF Event, TypeOK
  <2>2. inbox' \in [Users -> Seq(Event)]
    BY <1>7, <2>1 DEF CountRow, TypeOK
  <2>3. [stage |-> "done"] \in Counting
    BY DEF Counting
  <2>4. counting' \in [Messages -> Counting]
    BY <1>7, <2>3 DEF CountRow, TypeOK
  <2> QED
    BY <1>7, <2>2, <2>4 DEF CountRow, TypeOK, client
<1>8. ASSUME CountFails(m) PROVE TypeOK'
  <2>1. [stage |-> "done"] \in Counting
    BY DEF Counting
  <2>2. counting' \in [Messages -> Counting]
    BY <1>8, <2>1 DEF CountFails, TypeOK
  <2> QED
    BY <1>8, <2>2 DEF CountFails, TypeOK, client
<1> QED
  BY <1>1, <1>2, <1>3, <1>4, <1>5, <1>6, <1>7, <1>8 DEF CountStep

\* Acknowledging keeps the types.
LEMMA AckType ==
    ASSUME TypeOK, AckStep
    PROVE  TypeOK'
<1>1. PICK ack \in acks : AckSave(ack) \/ AckReset(ack)
  BY DEF AckStep
<1>2. ack \in [user : Users, msg : Messages, stage : {"save", "reset"}]
  BY DEF TypeOK
<1>3. CASE AckSave(ack)
  BY <1>2, <1>3 DEF AckSave, TypeOK, client
<1>4. CASE AckReset(ack)
  BY <1>2, <1>4 DEF AckReset, TypeOK, client
<1> QED
  BY <1>1, <1>3, <1>4

\* Every variable keeps its type, whatever handlers and clients interleave.
THEOREM TypeCorrect == Spec => []TypeOK
<1>1. Init => TypeOK
  <2> SUFFICES ASSUME Init PROVE TypeOK
    OBVIOUS
  <2>1. saved \in Seq(Messages) /\ inbox \in [Users -> Seq(Event)]
    BY EmptySeq DEF Init
  <2>2. load \in [Users -> Loading] /\ counting \in [Messages -> Counting]
    BY DEF Init, Loading, Counting
  <2>3. view \in [Users -> View]
    BY DEF Init, View
  <2>4. fetch \in [Users -> Request]
    BY DEF Init, Request
  <2>5. visits \in [Users -> Nat] /\ \A u \in Users : visits[u] <= Visits[u]
    BY MessagesAssumption DEF Init
  <2> QED
    BY <2>1, <2>2, <2>3, <2>4, <2>5 DEF Init, TypeOK
<1>2. TypeOK /\ [Next]_vars => TypeOK'
  <2> SUFFICES ASSUME TypeOK, [Next]_vars PROVE TypeOK'
    OBVIOUS
  <2>1. CASE UNCHANGED vars
    BY <2>1 DEF vars, server, client, TypeOK
  <2>2. ASSUME NEW u \in Users, UserStep(u) \/ LoadStep(u) \/ FetchStep(u) \/ ReceiveStep(u)
        PROVE  TypeOK'
    BY <2>2, PageType, LoadType, ReceiveType, SendType DEF UserStep
  <2>3. ASSUME NEW m \in Messages, SendStep(m) \/ CountStep(m)
        PROVE  TypeOK'
    BY <2>3, ServerType, ReplyType DEF SendStep
  <2> QED
    BY <2>1, <2>2, <2>3, AckType DEF Next
<1> QED
  BY <1>1, <1>2, PTL DEF Spec
-----------------------------------------------------------------------------
(* What is told of a message *)

\* Nothing deletes m any more: it is stored, and its upload has not failed or came too late.
Past(m) == m \in ToSet(saved) /\ sending[m] \in {"sent", "failed", "done"}

\* A message that is named may be no message.
PastOrNone(m) == m # NoEntry => Past(m)

\* An entry under its own id is one of a message that stays.
Known(entry) == entry # NoEntry /\ entry.slot = 0 => Past(entry.msg)

\* An entry of a snapshot has no provisional id.
Permanent(entry) == entry # NoEntry => entry.slot = 0

Snapshots(u) == {e.snapshot : e \in {x \in ToSet(inbox[u]) : "snapshot" \in DOMAIN x}}

Arriving(u) == {e.msg : e \in {x \in ToSet(inbox[u]) : "msg" \in DOMAIN x}}

SnapshotsArePermanent ==
    \A u \in Users : \A known \in Snapshots(u) : Permanent(known.last) /\ Permanent(known.read)

\* A message is stored until it is announced, and is announced only then.
AnnouncedIsPast ==
    \A m \in Messages :
        /\ sending[m] \in {"saved", "sent"} => m \in ToSet(saved)
        /\ counting[m].stage # "none" => Past(m)

RowsArePast ==
    /\ PastOrNone(lastMessage)
    /\ \A u \in Users : PastOrNone(lastRead[u])
    /\ \A ack \in acks : Past(ack.msg)

ArrivingIsPast ==
    \A u \in Users : /\ \A m \in Arriving(u) : Past(m)
                     /\ \A known \in Snapshots(u) : Known(known.last) /\ Known(known.read)

LoadedIsPast ==
    \A u \in Users : /\ load[u].stage \in {"row", "state"} => PastOrNone(load[u].last)
                     /\ load[u].stage = "state" => PastOrNone(load[u].read)

ShownIsPast == \A u \in Users : Known(view[u].last) /\ Known(view[u].read)

\* Whatever names a message names one that stays.
NamedIsPast ==
    /\ AnnouncedIsPast /\ RowsArePast /\ ArrivingIsPast /\ LoadedIsPast /\ ShownIsPast

\* The messages that u's count may hold: their handlers have written it.
CountedFor(u) ==
    {m \in Messages : /\ sender[m] # u
                      /\ \/ counting[m].stage \in {"row", "done"}
                         \/ counting[m].stage = "get" /\ u \notin counting[m].left
                         \/ /\ counting[m].stage = "set"
                            /\ u \notin counting[m].left /\ u # counting[m].user}

\* A handler counts for the recipients, one after the other.
CountsForRecipients ==
    \A m \in Messages :
        /\ counting[m].stage \in {"get", "set"} => counting[m].left \subseteq Recipients(m)
        /\ counting[m].stage = "set" =>
              counting[m].user \in Recipients(m) \ counting[m].left

\* A count, and what a handler has read and is about to raise, is no more than the messages
\* whose handlers have written it.
CountsAreHeld ==
    /\ \A u \in Users : unread[u] <= Cardinality(CountedFor(u))
    /\ \A m \in Messages :
          counting[m].stage = "set" =>
              counting[m].count <= Cardinality(CountedFor(counting[m].user))

\* Who writes which variable.
LEMMA Writers ==
    ASSUME Next
    PROVE  /\ \/ UNCHANGED saved
              \/ \E m \in Messages : Save(m) \/ FailUpload(m)
           /\ \/ UNCHANGED sending
              \/ \E u \in Users, m \in Messages : Pending(u, m)
              \/ \E m \in Messages : SendStep(m)
           /\ \/ UNCHANGED counting
              \/ \E m \in Messages : Publish(m) \/ CountStep(m)
           /\ UNCHANGED lastMessage \/ \E m \in Messages : CountRow(m)
           /\ UNCHANGED lastRead \/ \E ack \in acks : AckSave(ack)
           /\ \/ UNCHANGED acks
              \/ \E u \in Users : Close(u)
              \/ \E m \in Messages : Publish(m)
              \/ AckStep
           /\ \/ UNCHANGED unread
              \/ \E m \in Messages : CountSet(m)
              \/ \E ack \in acks : AckReset(ack)
           /\ \/ UNCHANGED inbox
              \/ \E u \in Users : LoadCount(u)
              \/ \E u \in Users : \E i \in DOMAIN inbox[u] : Taken(u, i)
              \/ \E m \in Messages : CountRow(m)
           /\ \/ UNCHANGED load
              \/ \E u \in Users : Load(u) \/ LoadStep(u)
              \/ \E u \in Users : \E i \in DOMAIN inbox[u] : TakeSnapshot(u, i)
           /\ \/ UNCHANGED view
              \/ \E u \in Users : Close(u)
              \/ \E u \in Users, m \in Messages : SendNow(u, m)
              \/ \E m \in Messages : SendReply(m)
              \/ \E u \in Users : \E i \in DOMAIN inbox[u] : TakeSnapshot(u, i) \/ Receive(u, i)
<1>1. ASSUME NEW u \in Users, Load(u) \/ LoadStep(u) \/ FetchStep(u)
      PROVE  /\ UNCHANGED <<server, view>>
             /\ UNCHANGED inbox \/ LoadCount(u)
             /\ UNCHANGED load \/ Load(u) \/ LoadStep(u)
  BY <1>1 DEF Load, LoadStep, LoadRow, LoadState, LoadCount, FetchStep, FetchRead, FetchReply,
              FetchFails, client
<1>2. ASSUME NEW u \in Users, Open(u) \/ Collect(u)
      PROVE  UNCHANGED <<server, inbox, load, view>>
  BY <1>2 DEF Open, Collect
<1>3. ASSUME NEW u \in Users, Close(u)
      PROVE  UNCHANGED <<saved, sending, counting, lastMessage, lastRead, unread, inbox, load>>
  BY <1>3 DEF Close
<1>4. ASSUME NEW u \in Users, NEW m \in Messages,
             Send(u, m) \/ SendInGuild(u, m) \/ SendInvite(u, m)
      PROVE  /\ Pending(u, m)
             /\ UNCHANGED <<saved, counting, acks, lastMessage, lastRead, unread, inbox, load>>
             /\ UNCHANGED view \/ SendNow(u, m)
  BY <1>4 DEF Send, SendInGuild, SendNow, SendInvite, Pending
<1>5. ASSUME NEW u \in Users, NEW i \in DOMAIN inbox[u], TakeSnapshot(u, i) \/ Receive(u, i)
      PROVE  /\ UNCHANGED server /\ Taken(u, i)
             /\ UNCHANGED load \/ TakeSnapshot(u, i)
  BY <1>5 DEF TakeSnapshot, Receive
<1>6. ASSUME NEW m \in Messages, SendStep(m)
      PROVE  /\ UNCHANGED <<lastMessage, lastRead, unread, inbox, load>>
             /\ UNCHANGED saved \/ Save(m) \/ FailUpload(m)
             /\ UNCHANGED <<counting, acks>> \/ Publish(m)
             /\ UNCHANGED view \/ SendReply(m)
  BY <1>6 DEF SendStep, Save, FailSave, Publish, FailUpload, SendReply, FailureReply, InviteReply,
              Answered, client
<1>7. ASSUME NEW m \in Messages, CountStep(m)
      PROVE  /\ UNCHANGED <<saved, sending, acks, lastRead, load, view>>
             /\ UNCHANGED <<lastMessage, inbox>> \/ CountRow(m)
             /\ UNCHANGED unread \/ CountSet(m)
  BY <1>7 DEF CountStep, CountGet, CountSet, CountRow, CountFails, client
<1>8. ASSUME NEW ack \in acks, AckSave(ack) \/ AckReset(ack)
      PROVE  /\ UNCHANGED <<saved, sending, counting, lastMessage, inbox, load, view>>
             /\ UNCHANGED lastRead \/ AckSave(ack)
             /\ UNCHANGED unread \/ AckReset(ack)
  BY <1>8 DEF AckSave, AckReset, client
<1>9. CASE \E u \in Users : Load(u) \/ LoadStep(u) \/ FetchStep(u)
  BY <1>1, <1>9 DEF server
<1>10. CASE \E u \in Users : Open(u) \/ Collect(u)
  BY <1>2, <1>10 DEF server
<1>11. CASE \E u \in Users : Close(u)
  BY <1>3, <1>11
<1>12. CASE \E u \in Users, m \in Messages : Send(u, m) \/ SendInGuild(u, m) \/ SendInvite(u, m)
  BY <1>4, <1>12
<1>13. CASE \E u \in Users : ReceiveStep(u)
  BY <1>5, <1>13 DEF ReceiveStep, server
<1>14. CASE \E m \in Messages : SendStep(m)
  BY <1>6, <1>14
<1>15. CASE \E m \in Messages : CountStep(m)
  BY <1>7, <1>15
<1>16. CASE AckStep
  BY <1>8, <1>16 DEF AckStep
<1> QED
  BY <1>9, <1>10, <1>11, <1>12, <1>13, <1>14, <1>15, <1>16 DEF Next, UserStep

\* What is under way to a client after a step was under way, is the message whose row was
\* saved, or is the snapshot that was gathered.
LEMMA InboxAfter ==
    ASSUME TypeOK, Next, NEW u \in Users, NEW e \in ToSet(inbox'[u])
    PROVE  \/ e \in ToSet(inbox[u])
           \/ \E m \in Messages :
                 counting[m].stage = "row" /\ sender[m] # u /\ e = [msg |-> m]
           \/ /\ load[u].stage = "state"
              /\ e = [snapshot |-> [last |-> Stored(load[u].last), read |-> Stored(load[u].read),
                                    unread |-> unread[u]]]
<1>1. inbox[u] \in Seq(Event)
  BY DEF TypeOK
<1>2. CASE UNCHANGED inbox
  BY <1>2
<1>3. ASSUME NEW w \in Users, LoadCount(w)
      PROVE  \/ e \in ToSet(inbox[u])
             \/ /\ load[u].stage = "state"
                /\ e = [snapshot |-> [last |-> Stored(load[u].last),
                                      read |-> Stored(load[u].read), unread |-> unread[u]]]
  <2>1. CASE w # u
    BY <1>3, <2>1 DEF LoadCount, TypeOK
  <2>2. CASE w = u
    <3> DEFINE known == [last |-> Stored(load[u].last), read |-> Stored(load[u].read),
                         unread |-> unread[u]]
    <3>1. load[u].stage = "state"
      BY <1>3, <2>2 DEF LoadCount, At
    <3>2. [snapshot |-> known] \in Event
      <4>1. load[u].last \in Messages \cup {NoEntry} /\ load[u].read \in Messages \cup {NoEntry}
        BY <3>1, Stages DEF TypeOK
      <4>2. known \in View
        BY <4>1 DEF View, Stored, Shown, Entry, TypeOK
      <4> QED
        BY <4>2 DEF Event
    <3>3. inbox' = [inbox EXCEPT ![u] = Append(inbox[u], [snapshot |-> known])]
      BY <1>3, <2>2 DEF LoadCount
    <3> HIDE DEF known
    <3>4. inbox'[u] = Append(inbox[u], [snapshot |-> known])
      BY <3>3 DEF TypeOK
    <3>5. e \in ToSet(inbox[u]) \/ e = [snapshot |-> known]
      BY <1>1, <3>2, <3>4, AppendAdds
    <3> QED
      BY <3>1, <3>5 DEF known
  <2> QED
    BY <2>1, <2>2
<1>4. ASSUME NEW w \in Users, NEW i \in DOMAIN inbox[w], Taken(w, i)
      PROVE  e \in ToSet(inbox[u])
  <2>1. CASE w # u
    BY <1>4, <2>1 DEF Taken, TypeOK
  <2>2. CASE w = u
    <3>1. inbox'[u] = RemoveAt(inbox[u], i)
      BY <1>4, <2>2 DEF Taken, TypeOK
    <3> QED
      BY <1>1, <2>2, <3>1, RemovalShortens
  <2> QED
    BY <2>1, <2>2
<1>5. ASSUME NEW m \in Messages, CountRow(m)
      PROVE  \/ e \in ToSet(inbox[u])
             \/ counting[m].stage = "row" /\ sender[m] # u /\ e = [msg |-> m]
  <2>1. counting[m].stage = "row"
    BY <1>5 DEF CountRow
  <2>2. \/ inbox'[u] = Append(inbox[u], [msg |-> m]) /\ sender[m] # u
        \/ inbox'[u] = inbox[u]
    BY <1>5 DEF CountRow, Recipients, TypeOK
  <2>3. [msg |-> m] \in Event
    BY DEF Event
  <2>4. ToSet(Append(inbox[u], [msg |-> m])) = ToSet(inbox[u]) \cup {[msg |-> m]}
    BY <1>1, <2>3, AppendAdds
  <2> QED
    BY <2>1, <2>2, <2>4
<1> QED
  BY <1>2, <1>3, <1>4, <1>5, Writers

-----------------------------------------------------------------------------
(* Provisional ids *)

\* What a client shows after a step, and what it showed before.
LEMMA ViewAfter ==
    ASSUME TypeOK, Next, NEW u \in Users
    PROVE  \/ view'[u] = view[u]
           \/ /\ u \in open
              /\ view[u].last \notin {NoEntry, view[u].read}
              /\ view'[u].last = view[u].last /\ view'[u].read = view[u].last
           \/ \E m \in Messages : view'[u] = Own([msg |-> m, slot |-> Place(u)])
           \/ \E m \in Messages : sending[m] = "sent" /\ view'[u] = Own(Shown(m))
           \/ \E known \in Snapshots(u) : view'[u] = known
           \/ \E m \in Arriving(u) :
                 view'[u].last = Shown(m) /\ view'[u].read = view[u].read
<1>1. view \in [Users -> View] /\ view[u] \in View
  BY DEF TypeOK
<1>2. ASSUME NEW w \in Users, Close(w)
      PROVE  \/ view'[u] = view[u]
             \/ /\ u \in open
                /\ view[u].last \notin {NoEntry, view[u].read}
                /\ view'[u].last = view[u].last /\ view'[u].read = view[u].last
  BY <1>1, <1>2 DEF Close, View
<1>3. ASSUME NEW w \in Users, NEW m \in Messages, SendNow(w, m)
      PROVE  view'[u] = view[u] \/ view'[u] = Own([msg |-> m, slot |-> Place(u)])
  BY <1>1, <1>3 DEF SendNow
<1>4. ASSUME NEW m \in Messages, SendReply(m)
      PROVE  view'[u] = view[u] \/ (sending[m] = "sent" /\ view'[u] = Own(Shown(m)))
  BY <1>1, <1>4 DEF SendReply, Answered
<1>5. ASSUME NEW w \in Users, NEW i \in DOMAIN inbox[w], TakeSnapshot(w, i)
      PROVE  view'[u] = view[u] \/ \E known \in Snapshots(u) : view'[u] = known
  BY <1>1, <1>5 DEF TakeSnapshot, Snapshots, ToSet
<1>6. ASSUME NEW w \in Users, NEW i \in DOMAIN inbox[w], Receive(w, i)
      PROVE  \/ view'[u] = view[u]
             \/ \E m \in Arriving(u) :
                   view'[u].last = Shown(m) /\ view'[u].read = view[u].read
  <2>1. CASE w = u /\ Loaded(u)
    <3>1. inbox[u][i].msg \in Arriving(u)
      BY <1>6, <2>1 DEF Receive, Arriving, ToSet
    <3>2. view' = [view EXCEPT ![u].last = Shown(inbox[u][i].msg), ![u].unread = @ + 1]
      BY <1>6, <2>1 DEF Receive
    <3>3. view'[u].last = Shown(inbox[u][i].msg) /\ view'[u].read = view[u].read
      BY <1>1, <3>2 DEF View
    <3> QED
      BY <3>1, <3>3
  <2>2. CASE ~(w = u /\ Loaded(u))
    BY <1>1, <1>6, <2>2 DEF Receive
  <2> QED
    BY <2>1, <2>2
<1> QED
  BY <1>2, <1>3, <1>4, <1>5, <1>6, Writers

\* A snapshot that is added to what is under way has no provisional id.
LEMMA SnapshotsStayPermanent ==
    ASSUME TypeOK, SnapshotsArePermanent, Next
    PROVE  SnapshotsArePermanent'
<1> SUFFICES ASSUME NEW u \in Users, NEW e \in ToSet(inbox'[u]), "snapshot" \in DOMAIN e
             PROVE  Permanent(e.snapshot.last) /\ Permanent(e.snapshot.read)
  BY DEF SnapshotsArePermanent, Snapshots, Permanent
<1>1. CASE e \in ToSet(inbox[u])
  BY <1>1 DEF SnapshotsArePermanent, Snapshots
<1>2. CASE e = [snapshot |-> [last |-> Stored(load[u].last), read |-> Stored(load[u].read),
                              unread |-> unread[u]]]
  BY <1>2 DEF Permanent, Stored, Shown
<1>3. \A m \in Messages : e # [msg |-> m]
  OBVIOUS
<1> QED
  BY <1>1, <1>2, <1>3, InboxAfter

\* The last message a client shows is provisional only while it also counts as read: the
\* client sets both when it sends (mutations.ts:111, 163), and what replaces either of them
\* has been stored.
THEOREM ProvisionalIsReadAlways == Spec => []ProvisionalIsRead
<1> DEFINE Inv == TypeOK /\ SnapshotsArePermanent /\ ProvisionalIsRead
<1>1. Init => SnapshotsArePermanent /\ ProvisionalIsRead
  <2> SUFFICES ASSUME Init PROVE SnapshotsArePermanent /\ ProvisionalIsRead
    OBVIOUS
  <2>1. \A u \in Users : Snapshots(u) = {}
    BY DEF Init, Snapshots, ToSet
  <2>2. \A u \in DOMAIN view : view[u].last = NoEntry
    BY DEF Init
  <2> QED
    BY <2>1, <2>2 DEF SnapshotsArePermanent, ProvisionalIsRead
<1>2. TypeOK /\ SnapshotsArePermanent /\ ProvisionalIsRead /\ TypeOK' /\ [Next]_vars
         => SnapshotsArePermanent' /\ ProvisionalIsRead'
  <2> SUFFICES ASSUME TypeOK, SnapshotsArePermanent, ProvisionalIsRead, TypeOK', [Next]_vars
               PROVE  SnapshotsArePermanent' /\ ProvisionalIsRead'
    OBVIOUS
  <2>1. CASE UNCHANGED vars
    BY <2>1 DEF vars, client, SnapshotsArePermanent, Snapshots, ProvisionalIsRead
  <2>2. CASE Next
    <3>1. ASSUME NEW u \in Users, view'[u].last # NoEntry, view'[u].last.slot # 0
          PROVE  view'[u].read = view'[u].last
      <4>1. CASE view'[u] = view[u]
        BY <3>1, <4>1 DEF ProvisionalIsRead, TypeOK
      <4>2. CASE \E known \in Snapshots(u) : view'[u] = known
        BY <3>1, <4>2 DEF SnapshotsArePermanent, Permanent
      <4>3. CASE \E m \in Arriving(u) : view'[u].last = Shown(m)
        BY <3>1, <4>3 DEF Shown
      <4> QED
        <5>1. \/ view'[u].last = view[u].last /\ view'[u].read = view[u].last
              \/ \E m \in Messages : view'[u] = Own([msg |-> m, slot |-> Place(u)])
              \/ \E m \in Messages : view'[u] = Own(Shown(m))
              \/ view'[u] = view[u]
              \/ \E known \in Snapshots(u) : view'[u] = known
              \/ \E m \in Arriving(u) : view'[u].last = Shown(m)
          BY <2>2, ViewAfter
        <5>2. CASE \E entry : view'[u] = Own(entry)
          BY <5>2 DEF Own
        <5> QED
          BY <4>1, <4>2, <4>3, <5>1, <5>2
    <3> QED
      BY <2>2, <3>1, SnapshotsStayPermanent DEF ProvisionalIsRead, TypeOK
  <2> QED
    BY <2>1, <2>2
<1> QED
  BY <1>1, <1>2, TypeCorrect, PTL DEF Spec

-----------------------------------------------------------------------------
(* Messages that stay *)

\* How far message-service is with a message after a step.
LEMMA SendingAfter ==
    ASSUME TypeOK, Next, NEW m \in Messages
    PROVE  \/ sending'[m] = sending[m]
           \/ sending[m] = "new" /\ sending'[m] = "asked"
           \/ sending[m] = "asked" /\ sending'[m] \in {"saved", "failed"}
           \/ sending[m] = "saved" /\ sending'[m] \in {"sent", "failed"}
           \/ sending[m] \in {"sent", "failed"} /\ sending'[m] = "done"
<1>1. ASSUME NEW u \in Users, NEW n \in Messages, Pending(u, n)
      PROVE  sending'[m] = sending[m] \/ (sending[m] = "new" /\ sending'[m] = "asked")
  BY <1>1 DEF Pending, To, TypeOK
<1>2. ASSUME NEW n \in Messages, Save(n) \/ FailSave(n) \/ Publish(n) \/ FailUpload(n)
      PROVE  \/ sending'[m] = sending[m]
             \/ sending[m] = "asked" /\ sending'[m] \in {"saved", "failed"}
             \/ sending[m] = "saved" /\ sending'[m] \in {"sent", "failed"}
  BY <1>2 DEF Save, FailSave, Publish, FailUpload, To, TypeOK
<1>3. ASSUME NEW n \in Messages, SendReply(n) \/ FailureReply(n) \/ InviteReply(n)
      PROVE  \/ sending'[m] = sending[m]
             \/ sending[m] \in {"sent", "failed"} /\ sending'[m] = "done"
  <2>1. PICK stage \in {"sent", "failed"} : Answered(n, stage)
    BY <1>3 DEF SendReply, FailureReply, InviteReply
  <2> QED
    BY <2>1 DEF Answered, To, TypeOK
<1> QED
  BY <1>1, <1>2, <1>3, Writers DEF SendStep

\* A message that is stored stays so unless its own upload fails.
LEMMA SavedAfter ==
    ASSUME TypeOK, Next, NEW m \in ToSet(saved)
    PROVE  m \in ToSet(saved') \/ (sending[m] = "saved" /\ sending'[m] = "failed")
<1>1. saved \in Seq(Messages) /\ m \in Messages
  BY LenProperties, ElementOfSeq DEF TypeOK, ToSet
<1>2. CASE UNCHANGED saved
  BY <1>2
<1>3. ASSUME NEW n \in Messages, Save(n)
      PROVE  m \in ToSet(saved')
  BY <1>1, <1>3, AppendAdds DEF Save
<1>4. ASSUME NEW n \in Messages, FailUpload(n)
      PROVE  m \in ToSet(saved') \/ (sending[m] = "saved" /\ sending'[m] = "failed")
  <2>1. PICK i \in DOMAIN saved : saved[i] = n /\ saved' = RemoveAt(saved, i)
    BY <1>4 DEF FailUpload
  <2>2. CASE m = n
    BY <1>1, <1>4, <2>2 DEF FailUpload, To, TypeOK
  <2>3. CASE m # n
    BY <1>1, <2>1, <2>3, RemovalShortens
  <2> QED
    BY <2>2, <2>3
<1> QED
  BY <1>2, <1>3, <1>4, Writers

\* A message that stays goes on staying.
LEMMA PastStays ==
    ASSUME TypeOK, Next, NEW m \in Messages, Past(m)
    PROVE  Past(m)'
<1>1. m \in ToSet(saved')
  BY SavedAfter DEF Past
<1>2. sending'[m] \in {"sent", "failed", "done"}
  BY SendingAfter DEF Past
<1> QED
  BY <1>1, <1>2 DEF Past

\* An entry that is known stays known.
LEMMA KnownStays ==
    ASSUME TypeOK, Next, NEW entry \in Entry \cup {NoEntry}, Known(entry)
    PROVE  Known(entry)'
BY PastStays DEF Known, Entry

LEMMA AnnouncedStaysPast ==
    ASSUME TypeOK, AnnouncedIsPast, Next
    PROVE  AnnouncedIsPast'
<1> SUFFICES ASSUME NEW m \in Messages
             PROVE  /\ sending'[m] \in {"saved", "sent"} => m \in ToSet(saved')
                    /\ counting'[m].stage # "none" => Past(m)'
  BY DEF AnnouncedIsPast
<1>1. ASSUME sending'[m] \in {"saved", "sent"}
      PROVE  m \in ToSet(saved')
  <2>1. CASE sending[m] \in {"saved", "sent"}
    BY <1>1, <2>1, SavedAfter DEF AnnouncedIsPast
  <2>2. CASE sending[m] \notin {"saved", "sent"}
    <3>1. sending[m] = "asked" /\ sending'[m] = "saved"
      BY <1>1, <2>2, SendingAfter
    <3>2. sending' # sending
      BY <3>1
    <3>3. Save(m)
      <4>1. ASSUME NEW u \in Users, NEW n \in Messages, Pending(u, n)
            PROVE  FALSE
        BY <3>1, <4>1 DEF Pending, To, TypeOK
      <4>2. ASSUME NEW n \in Messages, FailSave(n) \/ Publish(n) \/ FailUpload(n)
            PROVE  FALSE
        BY <3>1, <4>2 DEF FailSave, Publish, FailUpload, To, TypeOK
      <4>3. ASSUME NEW n \in Messages, SendReply(n) \/ FailureReply(n) \/ InviteReply(n)
            PROVE  FALSE
        BY <3>1, <4>3 DEF SendReply, FailureReply, InviteReply, Answered, To, TypeOK
      <4>4. ASSUME NEW n \in Messages, Save(n)
            PROVE  n = m
        BY <3>1, <4>4 DEF Save, To, TypeOK
      <4> QED
        BY <3>2, <4>1, <4>2, <4>3, <4>4, Writers DEF SendStep
    <3> QED
      BY <3>3, AppendAdds DEF Save, TypeOK
  <2> QED
    BY <2>1, <2>2
<1>2. ASSUME counting'[m].stage # "none"
      PROVE  Past(m)'
  <2>1. CASE counting[m].stage # "none"
    BY <2>1, PastStays DEF AnnouncedIsPast
  <2>2. CASE counting[m].stage = "none"
    <3>1. \A n \in Messages : CountStep(n) => n # m
      BY <2>2 DEF CountStep, CountGet, CountSet, CountRow, CountFails
    <3>2. ASSUME NEW n \in Messages, CountStep(n)
          PROVE  counting'[m] = counting[m]
      BY <3>1, <3>2 DEF CountStep, CountGet, CountSet, CountFor, CountRow, CountFails, TypeOK
    <3>3. ASSUME NEW n \in Messages, Publish(n)
          PROVE  Past(m)'
      <4>1. n = m
        BY <1>2, <2>2, <3>3 DEF Publish, CountFor, TypeOK
      <4>2. sending[m] = "saved" /\ sending'[m] = "sent" /\ saved' = saved
        BY <3>3, <4>1 DEF Publish, To, TypeOK
      <4> QED
        BY <4>2 DEF Past, AnnouncedIsPast
    <3> QED
      BY <1>2, <2>2, <3>2, <3>3, Writers
  <2> QED
    BY <2>1, <2>2
<1> QED
  BY <1>1, <1>2

LEMMA RowsStayPast ==
    ASSUME TypeOK, ProvisionalIsRead, NamedIsPast, Next
    PROVE  RowsArePast'
<1>1. PastOrNone(lastMessage)'
  <2>1. CASE UNCHANGED lastMessage
    BY <2>1, PastStays DEF PastOrNone, NamedIsPast, RowsArePast, TypeOK
  <2>2. ASSUME NEW m \in Messages, CountRow(m)
        PROVE  PastOrNone(lastMessage)'
    BY <2>2, PastStays DEF CountRow, PastOrNone, NamedIsPast, AnnouncedIsPast
  <2> QED
    BY <2>1, <2>2, Writers
<1>2. ASSUME NEW u \in Users
      PROVE  PastOrNone(lastRead[u])'
  <2>1. CASE lastRead'[u] = lastRead[u]
    BY <2>1, PastStays DEF PastOrNone, NamedIsPast, RowsArePast, TypeOK
  <2>2. ASSUME NEW ack \in acks, AckSave(ack)
        PROVE  lastRead'[u] = lastRead[u] \/ PastOrNone(lastRead[u])'
    <3>1. lastRead'[u] = lastRead[u] \/ lastRead'[u] = ack.msg
      BY <2>2 DEF AckSave, TypeOK
    <3>2. Past(ack.msg)'
      BY PastStays DEF NamedIsPast, RowsArePast, TypeOK
    <3> QED
      BY <3>1, <3>2 DEF PastOrNone, Past
  <2> QED
    BY <2>1, <2>2, Writers
<1>3. ASSUME NEW ack \in acks'
      PROVE  Past(ack.msg)'
  <2>1. \A other \in acks : Past(other.msg)'
    BY PastStays DEF NamedIsPast, RowsArePast, TypeOK
  <2>2. ASSUME NEW u \in Users, Close(u)
        PROVE  Past(ack.msg)'
    <3>1. CASE view[u].last \in {NoEntry, view[u].read}
      BY <2>1, <2>2, <3>1 DEF Close, Past
    <3>2. CASE view[u].last \notin {NoEntry, view[u].read}
      <4>1. view[u].last \in Entry
        BY <3>2 DEF TypeOK, View
      <4>2. view[u].last.slot = 0 /\ view[u].last.msg \in Messages
        BY <3>2, <4>1 DEF ProvisionalIsRead, TypeOK, Entry
      <4>3. Past(view[u].last.msg)
        BY <3>2, <4>2 DEF NamedIsPast, ShownIsPast, Known
      <4>4. ack \in acks \/ ack = [user |-> u, msg |-> view[u].last.msg, stage |-> "save"]
        BY <2>2, <3>2 DEF Close
      <4> QED
        BY <2>1, <4>2, <4>3, <4>4, PastStays DEF Past
    <3> QED
      BY <3>1, <3>2
  <2>3. ASSUME NEW m \in Messages, Publish(m)
        PROVE  Past(ack.msg)'
    <3>1. ack \in acks \/ ack = [user |-> sender[m], msg |-> m, stage |-> "save"]
      BY <2>3 DEF Publish
    <3>2. sending[m] = "saved" /\ sending'[m] = "sent" /\ saved' = saved
      BY <2>3 DEF Publish, To, TypeOK
    <3>3. Past(m)'
      BY <3>2 DEF Past, NamedIsPast, AnnouncedIsPast
    <3> QED
      BY <2>1, <3>1, <3>3 DEF Past
  <2>4. CASE AckStep
    <3>1. PICK done \in acks : AckSave(done) \/ AckReset(done)
      BY <2>4 DEF AckStep
    <3>2. ack \in acks \/ ack = [done EXCEPT !.stage = "reset"]
      BY <3>1 DEF AckSave, AckReset
    <3>3. ack \in acks \/ ack.msg = done.msg
      BY <3>2 DEF TypeOK
    <3> QED
      BY <2>1, <3>3 DEF Past
  <2> QED
    BY <2>1, <2>2, <2>3, <2>4, Writers DEF Past
<1> QED
  BY <1>1, <1>2, <1>3 DEF RowsArePast, PastOrNone, Past

LEMMA ArrivingStaysPast ==
    ASSUME TypeOK, NamedIsPast, Next
    PROVE  ArrivingIsPast'
<1> SUFFICES ASSUME NEW u \in Users, NEW e \in ToSet(inbox'[u])
             PROVE  /\ "msg" \in DOMAIN e => Past(e.msg)'
                    /\ "snapshot" \in DOMAIN e => Known(e.snapshot.last)' /\ Known(e.snapshot.read)'
  BY DEF ArrivingIsPast, Arriving, Snapshots, Known, Past
<1>1. CASE e \in ToSet(inbox[u])
  <2>1. e \in Event
    BY <1>1, LenProperties, ElementOfSeq DEF ToSet, TypeOK
  <2>2. ASSUME "msg" \in DOMAIN e
        PROVE  Past(e.msg)'
    BY <1>1, <2>1, <2>2, Stages, PastStays DEF NamedIsPast, ArrivingIsPast, Arriving
  <2>3. ASSUME "snapshot" \in DOMAIN e
        PROVE  Known(e.snapshot.last)' /\ Known(e.snapshot.read)'
    <3>1. e.snapshot \in View
      BY <2>1, <2>3, Stages
    <3>2. Known(e.snapshot.last) /\ Known(e.snapshot.read)
      BY <1>1, <2>3 DEF NamedIsPast, ArrivingIsPast, Snapshots
    <3> QED
      BY <3>1, <3>2, KnownStays DEF View
  <2> QED
    BY <2>2, <2>3
<1>2. ASSUME NEW m \in Messages, counting[m].stage = "row", e = [msg |-> m]
      PROVE  /\ "msg" \in DOMAIN e => Past(e.msg)'
             /\ "snapshot" \notin DOMAIN e
  <2>1. Past(m)'
    BY <1>2, PastStays DEF NamedIsPast, AnnouncedIsPast
  <2> QED
    BY <1>2, <2>1 DEF Past
<1>3. ASSUME load[u].stage = "state",
             e = [snapshot |-> [last |-> Stored(load[u].last), read |-> Stored(load[u].read),
                                unread |-> unread[u]]]
      PROVE  /\ "msg" \notin DOMAIN e
             /\ Known(e.snapshot.last)' /\ Known(e.snapshot.read)'
  <2>1. PastOrNone(load[u].last) /\ PastOrNone(load[u].read)
    BY <1>3 DEF NamedIsPast, LoadedIsPast
  <2>2. load[u].last \in Messages \cup {NoEntry} /\ load[u].read \in Messages \cup {NoEntry}
    BY <1>3, Stages DEF TypeOK
  <2>3. Known(Stored(load[u].last)) /\ Known(Stored(load[u].read))
    BY <2>1, <2>2 DEF Known, PastOrNone, Stored, Shown
  <2>4. Stored(load[u].last) \in Entry \cup {NoEntry} /\ Stored(load[u].read) \in Entry \cup {NoEntry}
    BY <2>2 DEF Stored, Shown, Entry
  <2>5. e.snapshot.last = Stored(load[u].last) /\ e.snapshot.read = Stored(load[u].read)
    BY <1>3
  <2>6. "msg" \notin DOMAIN e
    BY <1>3
  <2> QED
    BY <2>3, <2>4, <2>5, <2>6, KnownStays DEF Known, Past
<1> QED
  BY <1>1, <1>2, <1>3, InboxAfter

LEMMA LoadedStaysPast ==
    ASSUME TypeOK, NamedIsPast, Next
    PROVE  LoadedIsPast'
<1> SUFFICES ASSUME NEW u \in Users
             PROVE  /\ load'[u].stage \in {"row", "state"} => PastOrNone(load[u].last)'
                    /\ load'[u].stage = "state" => PastOrNone(load[u].read)'
  BY DEF LoadedIsPast
<1>1. ASSUME NEW m \in Messages \cup {NoEntry}, PastOrNone(m)
      PROVE  PastOrNone(m)'
  BY <1>1, PastStays DEF PastOrNone
<1>2. CASE load'[u] = load[u]
  BY <1>1, <1>2, Stages DEF NamedIsPast, LoadedIsPast, PastOrNone, Past, TypeOK
<1>3. CASE load'[u].stage \notin {"row", "state"}
  BY <1>3
<1>4. ASSUME NEW w \in Users, LoadRow(w), load'[u] # load[u]
      PROVE  load'[u].stage = "row" /\ PastOrNone(load[u].last)'
  <2>1. load'[u] = [stage |-> "row", last |-> lastMessage]
    BY <1>4 DEF LoadRow, TypeOK
  <2>2. PastOrNone(lastMessage) /\ lastMessage \in Messages \cup {NoEntry}
    BY DEF NamedIsPast, RowsArePast, TypeOK
  <2> QED
    BY <1>1, <2>1, <2>2 DEF PastOrNone, Past
<1>5. ASSUME NEW w \in Users, LoadState(w), load'[u] # load[u]
      PROVE  PastOrNone(load[u].last)' /\ PastOrNone(load[u].read)'
  <2>1. /\ load[u].stage = "row"
        /\ load'[u] = [stage |-> "state", last |-> load[u].last, read |-> lastRead[u]]
    BY <1>5 DEF LoadState, At, TypeOK
  <2>2. PastOrNone(load[u].last) /\ load[u].last \in Messages \cup {NoEntry}
    BY <2>1, Stages DEF NamedIsPast, LoadedIsPast, TypeOK
  <2>3. PastOrNone(lastRead[u]) /\ lastRead[u] \in Messages \cup {NoEntry}
    BY DEF NamedIsPast, RowsArePast, TypeOK
  <2> QED
    BY <1>1, <2>1, <2>2, <2>3 DEF PastOrNone, Past
<1>6. ASSUME NEW w \in Users, Load(w) \/ LoadCount(w)
      PROVE  load'[u] = load[u] \/ load'[u].stage \notin {"row", "state"}
  BY <1>6 DEF Load, LoadCount, TypeOK
<1>7. ASSUME NEW w \in Users, NEW i \in DOMAIN inbox[w], TakeSnapshot(w, i)
      PROVE  load'[u] = load[u] \/ load'[u].stage \notin {"row", "state"}
  BY <1>7 DEF TakeSnapshot, TypeOK
<1> QED
  BY <1>2, <1>3, <1>4, <1>5, <1>6, <1>7, Writers DEF LoadStep

LEMMA ShownStaysPast ==
    ASSUME TypeOK, NamedIsPast, Next
    PROVE  ShownIsPast'
<1> SUFFICES ASSUME NEW u \in Users
             PROVE  Known(view[u].last)' /\ Known(view[u].read)'
  BY DEF ShownIsPast
<1>1. /\ view[u].last \in Entry \cup {NoEntry} /\ view[u].read \in Entry \cup {NoEntry}
      /\ Known(view[u].last) /\ Known(view[u].read)
  BY DEF NamedIsPast, ShownIsPast, TypeOK, View
<1>2. ASSUME NEW entry \in Entry \cup {NoEntry}, Known(entry)
      PROVE  entry # NoEntry /\ entry.slot = 0 => Past(entry.msg)'
  BY <1>2, KnownStays DEF Known
<1>3. CASE view'[u] = view[u]
  BY <1>1, <1>2, <1>3 DEF Known, Past
<1>4. CASE view'[u].last = view[u].last /\ view'[u].read = view[u].last
  BY <1>1, <1>2, <1>4 DEF Known, Past
<1>5. CASE \E m \in Messages : view'[u] = Own([msg |-> m, slot |-> Place(u)])
  <2>1. Place(u) # 0
    BY LenProperties DEF Place, TypeOK
  <2> QED
    BY <1>5, <2>1 DEF Own, Known
<1>6. CASE \E m \in Messages : sending[m] = "sent" /\ view'[u] = Own(Shown(m))
  <2>1. PICK m \in Messages : sending[m] = "sent" /\ view'[u] = Own(Shown(m))
    BY <1>6
  <2>2. Past(m)
    BY <2>1 DEF Past, NamedIsPast, AnnouncedIsPast
  <2>3. Past(m)'
    BY <2>2, PastStays
  <2> QED
    BY <2>1, <2>3 DEF Own, Shown, Known, Past
<1>7. CASE \E known \in Snapshots(u) : view'[u] = known
  <2>1. PICK known \in Snapshots(u) : view'[u] = known
    BY <1>7
  <2>2. known \in View
    <3>1. PICK e \in ToSet(inbox[u]) : "snapshot" \in DOMAIN e /\ known = e.snapshot
      BY DEF Snapshots
    <3>2. e \in Event
      BY LenProperties, ElementOfSeq DEF ToSet, TypeOK
    <3> QED
      BY <3>1, <3>2, Stages
  <2>3. Known(known.last) /\ Known(known.read)
    BY DEF NamedIsPast, ArrivingIsPast
  <2> QED
    BY <1>2, <2>1, <2>2, <2>3 DEF View, Known, Past
<1>8. CASE \E m \in Arriving(u) : view'[u].last = Shown(m) /\ view'[u].read = view[u].read
  <2>1. PICK m \in Arriving(u) : view'[u].last = Shown(m) /\ view'[u].read = view[u].read
    BY <1>8
  <2>2. m \in Messages
    <3>1. PICK e \in ToSet(inbox[u]) : "msg" \in DOMAIN e /\ m = e.msg
      BY DEF Arriving
    <3>2. e \in Event
      BY LenProperties, ElementOfSeq DEF ToSet, TypeOK
    <3> QED
      BY <3>1, <3>2, Stages
  <2>3. Past(m)'
    BY <2>2, PastStays DEF NamedIsPast, ArrivingIsPast
  <2> QED
    BY <1>1, <1>2, <2>1, <2>3 DEF Shown, Known, Past
<1> QED
  BY <1>3, <1>4, <1>5, <1>6, <1>7, <1>8, ViewAfter

\* Whatever names a message names one that stays, at the start and after every step.
LEMMA NamedIsPastAlways == Spec => []NamedIsPast
<1>1. Init => NamedIsPast
  <2> SUFFICES ASSUME Init PROVE NamedIsPast
    OBVIOUS
  <2>1. AnnouncedIsPast /\ RowsArePast
    BY DEF Init, AnnouncedIsPast, RowsArePast, PastOrNone
  <2>2. ArrivingIsPast
    BY DEF Init, ArrivingIsPast, Arriving, Snapshots, ToSet
  <2>3. LoadedIsPast
    BY DEF Init, LoadedIsPast
  <2>4. ShownIsPast
    BY DEF Init, ShownIsPast, Known
  <2> QED
    BY <2>1, <2>2, <2>3, <2>4 DEF NamedIsPast
<1>2. TypeOK /\ ProvisionalIsRead /\ NamedIsPast /\ [Next]_vars => NamedIsPast'
  <2> SUFFICES ASSUME TypeOK, ProvisionalIsRead, NamedIsPast, [Next]_vars
               PROVE  NamedIsPast'
    OBVIOUS
  <2>1. CASE UNCHANGED vars
    <3>1. UNCHANGED <<sending, saved, counting, acks, lastMessage, lastRead, inbox, load, view>>
      BY <2>1 DEF vars, server, client
    <3>2. AnnouncedIsPast' /\ RowsArePast'
      BY <3>1 DEF NamedIsPast, AnnouncedIsPast, RowsArePast, PastOrNone, Past
    <3>3. ArrivingIsPast' /\ LoadedIsPast' /\ ShownIsPast'
      BY <3>1 DEF NamedIsPast, ArrivingIsPast, Arriving, Snapshots, LoadedIsPast, ShownIsPast,
                  PastOrNone, Known, Past
    <3> QED
      BY <3>2, <3>3 DEF NamedIsPast
  <2>2. CASE Next
    <3>1. AnnouncedIsPast'
      BY <2>2, AnnouncedStaysPast DEF NamedIsPast
    <3> QED
      BY <2>2, <3>1, RowsStayPast, ArrivingStaysPast, LoadedStaysPast, ShownStaysPast
         DEF NamedIsPast
  <2> QED
    BY <2>1, <2>2
<1> QED
  BY <1>1, <1>2, TypeCorrect, ProvisionalIsReadAlways, PTL DEF Spec

\* What the channel's row, the rows of what was read, the acknowledgements and the events under
\* way name is stored: deleting a message whose upload failed (messages.service.ts:142-150)
\* never takes one that was announced, in however many handlers it is under way.
THEOREM NothingNamedIsDeleted == Spec => []PointersAreStored
<1>1. TypeOK /\ NamedIsPast => PointersAreStored
  <2> SUFFICES ASSUME TypeOK, NamedIsPast PROVE PointersAreStored
    OBVIOUS
  <2>1. \A m : Past(m) => m \in ToSet(saved)
    BY DEF Past
  <2>2. lastMessage \in ToSet(saved) \cup {NoEntry}
    BY <2>1 DEF NamedIsPast, RowsArePast, PastOrNone
  <2>3. \A u \in DOMAIN lastRead : lastRead[u] \in ToSet(saved) \cup {NoEntry}
    BY <2>1 DEF NamedIsPast, RowsArePast, PastOrNone, TypeOK
  <2>4. \A ack \in acks : ack.msg \in ToSet(saved)
    BY <2>1 DEF NamedIsPast, RowsArePast
  <2>5. \A u \in DOMAIN inbox : \A e \in ToSet(inbox[u]) :
           "msg" \in DOMAIN e => e.msg \in ToSet(saved)
    BY <2>1 DEF NamedIsPast, ArrivingIsPast, Arriving, TypeOK
  <2> QED
    BY <2>2, <2>3, <2>4, <2>5 DEF PointersAreStored
<1> QED
  BY <1>1, TypeCorrect, NamedIsPastAlways, PTL

-----------------------------------------------------------------------------
(* Counts *)

\* How far guild-service is with a message after a step, and what it has written.
LEMMA CountingAfter ==
    ASSUME TypeOK, NamedIsPast, CountsForRecipients, Next, NEW m \in Messages
    PROVE  \/ counting'[m] = counting[m]
           \/ /\ counting[m].stage = "none"
              /\ IF Recipients(m) = {} THEN counting'[m] = [stage |-> "row"]
                 ELSE counting'[m] = [stage |-> "get", left |-> Recipients(m)]
           \/ /\ counting[m].stage = "get" /\ UNCHANGED unread
              /\ \E u \in counting[m].left :
                    counting'[m] = [stage |-> "set", left |-> counting[m].left \ {u}, user |-> u,
                                    count |-> unread[u]]
           \/ /\ counting[m].stage = "set"
              /\ unread' = [unread EXCEPT ![counting[m].user] = counting[m].count + 1]
              /\ IF counting[m].left = {} THEN counting'[m] = [stage |-> "row"]
                 ELSE counting'[m] = [stage |-> "get", left |-> counting[m].left]
           \/ counting[m].stage = "row" /\ counting'[m] = [stage |-> "done"]
<1>1. ASSUME NEW n \in Messages, n # m, Publish(n) \/ CountStep(n)
      PROVE  counting'[m] = counting[m]
  BY <1>1 DEF Publish, CountStep, CountGet, CountSet, CountFor, CountRow, CountFails, TypeOK
<1>2. ASSUME Publish(m)
      PROVE  /\ counting[m].stage = "none"
             /\ IF Recipients(m) = {} THEN counting'[m] = [stage |-> "row"]
                ELSE counting'[m] = [stage |-> "get", left |-> Recipients(m)]
  BY <1>2 DEF Publish, CountFor, NamedIsPast, AnnouncedIsPast, Past, TypeOK
<1>3. ASSUME CountGet(m)
      PROVE  /\ counting[m].stage = "get" /\ UNCHANGED unread
             /\ \E u \in counting[m].left :
                   counting'[m] = [stage |-> "set", left |-> counting[m].left \ {u}, user |-> u,
                                   count |-> unread[u]]
  BY <1>3 DEF CountGet, TypeOK
<1>4. ASSUME CountSet(m)
      PROVE  /\ counting[m].stage = "set"
             /\ unread' = [unread EXCEPT ![counting[m].user] = counting[m].count + 1]
             /\ IF counting[m].left = {} THEN counting'[m] = [stage |-> "row"]
                ELSE counting'[m] = [stage |-> "get", left |-> counting[m].left]
  BY <1>4 DEF CountSet, CountFor, Counted, TypeOK
<1>5. ASSUME CountRow(m) \/ CountFails(m)
      PROVE  counting[m].stage = "row" /\ counting'[m] = [stage |-> "done"]
  BY <1>5 DEF CountRow, CountFails, TypeOK
<1>6. UNCHANGED counting \/ \E n \in Messages : Publish(n) \/ CountStep(n)
  BY Writers
<1> QED
  BY <1>1, <1>2, <1>3, <1>4, <1>5, <1>6 DEF CountStep

LEMMA RecipientsStay ==
    ASSUME TypeOK, NamedIsPast, CountsForRecipients, Next
    PROVE  CountsForRecipients'
<1> SUFFICES ASSUME NEW m \in Messages
             PROVE  /\ counting'[m].stage \in {"get", "set"} => counting'[m].left \subseteq Recipients(m)
                    /\ counting'[m].stage = "set" =>
                          counting'[m].user \in Recipients(m) \ counting'[m].left
  BY DEF CountsForRecipients
<1>1. CASE counting'[m] = counting[m]
  BY <1>1 DEF CountsForRecipients
<1>2. CASE /\ counting[m].stage = "get"
           /\ \E u \in counting[m].left :
                 counting'[m] = [stage |-> "set", left |-> counting[m].left \ {u}, user |-> u,
                                 count |-> unread[u]]
  <2>1. PICK u \in counting[m].left :
           counting'[m] = [stage |-> "set", left |-> counting[m].left \ {u}, user |-> u,
                           count |-> unread[u]]
    BY <1>2
  <2>2. counting[m].left \subseteq Recipients(m)
    BY <1>2 DEF CountsForRecipients
  <2> QED
    BY <2>1, <2>2
<1>3. CASE IF Recipients(m) = {} THEN counting'[m] = [stage |-> "row"]
           ELSE counting'[m] = [stage |-> "get", left |-> Recipients(m)]
  BY <1>3
<1>4. CASE /\ counting[m].stage = "set"
           /\ IF counting[m].left = {} THEN counting'[m] = [stage |-> "row"]
              ELSE counting'[m] = [stage |-> "get", left |-> counting[m].left]
  BY <1>4 DEF CountsForRecipients
<1>5. CASE counting'[m] = [stage |-> "done"]
  BY <1>5
<1> QED
  BY <1>1, <1>2, <1>3, <1>4, <1>5, CountingAfter

\* A message that was counted for a user stays so.
LEMMA CountedStays ==
    ASSUME TypeOK, NamedIsPast, CountsForRecipients, Next,
           NEW u \in Users, NEW m \in CountedFor(u)
    PROVE  m \in CountedFor(u)'
<1>1. /\ m \in Messages /\ sender[m] # u
      /\ \/ counting[m].stage \in {"row", "done"}
         \/ counting[m].stage = "get" /\ u \notin counting[m].left
         \/ /\ counting[m].stage = "set"
            /\ u \notin counting[m].left /\ u # counting[m].user
  BY DEF CountedFor
<1> SUFFICES \/ counting'[m].stage \in {"row", "done"}
             \/ counting'[m].stage = "get" /\ u \notin counting'[m].left
             \/ /\ counting'[m].stage = "set"
                /\ u \notin counting'[m].left /\ u # counting'[m].user
  BY <1>1 DEF CountedFor
<1>2. CASE counting'[m] = counting[m]
  BY <1>1, <1>2
<1>3. CASE /\ counting[m].stage = "get"
           /\ \E w \in counting[m].left :
                 counting'[m] = [stage |-> "set", left |-> counting[m].left \ {w}, user |-> w,
                                 count |-> unread[w]]
  BY <1>1, <1>3
<1>4. CASE /\ counting[m].stage = "set"
           /\ IF counting[m].left = {} THEN counting'[m] = [stage |-> "row"]
              ELSE counting'[m] = [stage |-> "get", left |-> counting[m].left]
  BY <1>1, <1>4
<1>5. CASE counting'[m] = [stage |-> "done"]
  BY <1>5
<1> QED
  BY <1>1, <1>2, <1>3, <1>4, <1>5, CountingAfter

\* The number of messages counted for a user never goes down.
LEMMA CountedGrows ==
    ASSUME TypeOK, NamedIsPast, CountsForRecipients, Next, NEW u \in Users
    PROVE  /\ Cardinality(CountedFor(u)) \in Nat /\ Cardinality(CountedFor(u))' \in Nat
           /\ Cardinality(CountedFor(u)) <= Cardinality(CountedFor(u))'
<1>1. IsFiniteSet(Messages) /\ CountedFor(u) \subseteq Messages /\ CountedFor(u)' \subseteq Messages
  BY MessagesAssumption DEF CountedFor
<1>2. IsFiniteSet(CountedFor(u)) /\ IsFiniteSet(CountedFor(u)')
  BY <1>1, FS_Subset
<1>3. CountedFor(u) \subseteq CountedFor(u)'
  BY CountedStays
<1>4. Cardinality(CountedFor(u)) <= Cardinality(CountedFor(u)')
  BY <1>2, <1>3, FS_Subset
<1> QED
  BY <1>2, <1>4, FS_CardinalityType

LEMMA CountsStayHeld ==
    ASSUME TypeOK, TypeOK', NamedIsPast, CountsForRecipients, CountsAreHeld, Next
    PROVE  CountsAreHeld'
<1>1. ASSUME NEW u \in Users
      PROVE  unread'[u] <= Cardinality(CountedFor(u))'
  <2>1. unread[u] \in Nat /\ unread'[u] \in Nat /\ unread[u] <= Cardinality(CountedFor(u))
    BY DEF TypeOK, CountsAreHeld
  <2>2. CASE unread'[u] = unread[u]
    BY <2>1, <2>2, CountedGrows
  <2>3. ASSUME NEW ack \in acks, AckReset(ack)
        PROVE  unread'[u] = unread[u] \/ unread'[u] = 0
    BY <2>3 DEF AckReset, TypeOK
  <2>4. CASE unread'[u] = 0
    BY <2>4, CountedGrows
  <2>5. ASSUME NEW m \in Messages, CountSet(m), unread'[u] # unread[u]
        PROVE  unread'[u] <= Cardinality(CountedFor(u))'
    <3>1. /\ counting[m].stage = "set" /\ counting[m].count \in Nat
          /\ unread' = [unread EXCEPT ![counting[m].user] = counting[m].count + 1]
      BY <2>5, Stages DEF CountSet, Counted, TypeOK
    <3>2. u = counting[m].user /\ unread'[u] = counting[m].count + 1
      BY <2>5, <3>1 DEF TypeOK
    <3>3. counting[m].count <= Cardinality(CountedFor(u))
      BY <3>1, <3>2 DEF CountsAreHeld
    <3>4. u \notin counting[m].left /\ u # sender[m]
      BY <3>1, <3>2 DEF CountsForRecipients, Recipients
    <3>5. m \notin CountedFor(u)
      BY <3>1, <3>2 DEF CountedFor
    <3>6. m \in CountedFor(u)'
      <4>1. IF counting[m].left = {} THEN counting'[m] = [stage |-> "row"]
            ELSE counting'[m] = [stage |-> "get", left |-> counting[m].left]
        BY <2>5 DEF CountSet, CountFor, TypeOK
      <4> QED
        BY <3>4, <4>1 DEF CountedFor
    <3>7. Cardinality(CountedFor(u)) + 1 <= Cardinality(CountedFor(u))'
      <4>1. IsFiniteSet(CountedFor(u)) /\ IsFiniteSet(CountedFor(u)')
        <5>1. CountedFor(u) \subseteq Messages /\ CountedFor(u)' \subseteq Messages
          BY DEF CountedFor
        <5> QED
          BY <5>1, MessagesAssumption, FS_Subset
      <4>2. CountedFor(u) \cup {m} \subseteq CountedFor(u)'
        BY <3>6, CountedStays
      <4>3. Cardinality(CountedFor(u) \cup {m}) = Cardinality(CountedFor(u)) + 1
        BY <3>5, <4>1, FS_AddElement
      <4>4. Cardinality(CountedFor(u) \cup {m}) <= Cardinality(CountedFor(u)')
        BY <4>1, <4>2, FS_Subset
      <4> QED
        BY <4>3, <4>4
    <3> QED
      BY <3>1, <3>2, <3>3, <3>7, CountedGrows
  <2> QED
    BY <2>2, <2>3, <2>4, <2>5, Writers
<1>2. ASSUME NEW m \in Messages, counting'[m].stage = "set"
      PROVE  counting'[m].count <= Cardinality(CountedFor(counting[m].user))'
  <2>1. CASE counting'[m] = counting[m]
    <3>1. counting[m].user \in Users /\ counting[m].count \in Nat
      BY <1>2, <2>1, Stages DEF TypeOK
    <3>2. counting[m].count <= Cardinality(CountedFor(counting[m].user))
      BY <1>2, <2>1 DEF CountsAreHeld
    <3>3. PICK u \in Users : u = counting[m].user
      BY <3>1
    <3>4. Cardinality(CountedFor(u)) <= Cardinality(CountedFor(u))' /\ CountedFor(u) = CountedFor(counting[m].user)
      BY <3>3, CountedGrows
    <3> QED
      BY <2>1, <3>1, <3>2, <3>3, <3>4, CountedGrows
  <2>2. CASE /\ counting[m].stage = "get" /\ UNCHANGED unread
             /\ \E u \in counting[m].left :
                   counting'[m] = [stage |-> "set", left |-> counting[m].left \ {u}, user |-> u,
                                   count |-> unread[u]]
    <3>1. PICK u \in Users : counting'[m].user = u /\ counting'[m].count = unread[u]
      BY <2>2, Stages DEF TypeOK
    <3>2. unread[u] \in Nat /\ unread[u] <= Cardinality(CountedFor(u))
      BY DEF TypeOK, CountsAreHeld
    <3> QED
      BY <3>1, <3>2, CountedGrows
  <2>3. counting'[m] # [stage |-> "row"] /\ counting'[m] # [stage |-> "done"]
    BY <1>2
  <2>4. \A left : counting'[m] # [stage |-> "get", left |-> left]
    BY <1>2
  <2> QED
    BY <2>1, <2>2, <2>3, <2>4, CountingAfter
<1> QED
  BY <1>1, <1>2 DEF CountsAreHeld

\* Nobody has more unread messages than others have announced, although the count is read and
\* written in two commands (channels.service.ts:1193) that interleave with those of other
\* messages and of acknowledgements: what a handler writes is one more than a count that did
\* not yet hold its own message.
THEOREM NoMessageCountsTwice == Spec => []UnreadIsBounded
<1> DEFINE Inv == CountsForRecipients /\ CountsAreHeld
<1>1. Init /\ TypeOK => Inv
  <2> SUFFICES ASSUME Init, TypeOK PROVE Inv
    OBVIOUS
  <2>1. CountsForRecipients
    BY DEF Init, CountsForRecipients
  <2>2. ASSUME NEW u \in Users PROVE unread[u] <= Cardinality(CountedFor(u))
    <3>1. IsFiniteSet(CountedFor(u))
      BY MessagesAssumption, FS_Subset DEF CountedFor
    <3>2. Cardinality(CountedFor(u)) \in Nat /\ unread[u] = 0
      BY <3>1, FS_CardinalityType DEF Init
    <3> QED
      BY <3>2
  <2> QED
    BY <2>1, <2>2 DEF Init, CountsAreHeld
<1>2. TypeOK /\ TypeOK' /\ NamedIsPast /\ Inv /\ [Next]_vars => Inv'
  <2> SUFFICES ASSUME TypeOK, TypeOK', NamedIsPast, Inv, [Next]_vars PROVE Inv'
    OBVIOUS
  <2>1. CASE UNCHANGED vars
    <3>1. UNCHANGED <<counting, unread>>
      BY <2>1 DEF vars, server
    <3> QED
      BY <3>1 DEF CountsForRecipients, CountsAreHeld, CountedFor
  <2>2. CASE Next
    BY <2>2, RecipientsStay, CountsStayHeld
  <2> QED
    BY <2>1, <2>2
<1>3. TypeOK /\ Inv => UnreadIsBounded
  <2> SUFFICES ASSUME TypeOK, Inv, NEW u \in DOMAIN unread
               PROVE  unread[u] <= Cardinality({m \in DOMAIN counting :
                                      sender[m] # u /\ counting[m].stage # "none"})
    BY DEF UnreadIsBounded
  <2> DEFINE announced == {m \in DOMAIN counting : sender[m] # u /\ counting[m].stage # "none"}
  <2>1. u \in Users /\ announced \subseteq Messages /\ CountedFor(u) \subseteq announced
    BY DEF TypeOK, CountedFor
  <2>2. IsFiniteSet(announced) /\ IsFiniteSet(CountedFor(u))
    BY <2>1, MessagesAssumption, FS_Subset
  <2>3. Cardinality(CountedFor(u)) <= Cardinality(announced)
    BY <2>1, <2>2, FS_Subset
  <2>4. unread[u] \in Nat /\ Cardinality(CountedFor(u)) \in Nat /\ Cardinality(announced) \in Nat
    BY <2>1, <2>2, FS_CardinalityType DEF TypeOK
  <2>5. unread[u] <= Cardinality(CountedFor(u))
    BY <2>1 DEF CountsAreHeld
  <2> QED
    BY <2>3, <2>4, <2>5
<1> QED
  BY <1>1, <1>2, <1>3, TypeCorrect, NamedIsPastAlways, PTL DEF Spec

-----------------------------------------------------------------------------
(* Lists *)

\* A list in which every provisional entry has the number of its place; and which shows a
\* message of its own user once, under the number that the reply will look for, or as it was
\* stored while nothing has that number.
Numbered(u, s, stages, numbers, gone) ==
    \A i \in 1..Len(s) :
        LET m == s[i].msg IN
        /\ s[i].slot \in {0, i}
        /\ sender[m] = u =>
              /\ stages[m] # "new"
              /\ s[i].slot # 0 /\ numbers[m] # 0 => numbers[m] = s[i].slot
              /\ m \notin gone =>
                    \A j \in 1..Len(s) :
                        /\ s[j].msg = m => j = i
                        /\ s[i].slot = 0 /\ numbers[m] # 0 => s[j].slot # numbers[m]

ListsAreNumbered ==
    \A u \in Users : list[u] # NoList => Numbered(u, list[u], sending, slot, reused)

\* A message is stored once, and what is fetched are messages that were stored.
StoredOnce ==
    /\ EachOnce(saved)
    /\ \A m \in ToSet(saved) : sending[m] \notin {"new", "asked"}

FetchedOnce ==
    \A u \in Users : fetch[u].stage = "read" =>
        EachOnce(fetch[u].found) /\ \A m \in ToSet(fetch[u].found) : sending[m] # "new"

\* Nobody is sent a message of their own.
OthersArrive == \A u \in Users : \A m \in Arriving(u) : sender[m] # u

\* A message that is sent has a number until it is answered.
NumbersAreGiven == \A m \in Messages : sending[m] \notin {"new", "done"} => slot[m] # 0

ListInv == ListsAreNumbered /\ StoredOnce /\ FetchedOnce /\ OthersArrive /\ NumbersAreGiven

\* A list stays as it is when messages get on, and are answered.
LEMMA NumberedStays ==
    ASSUME NEW u \in Users, NEW s \in Seq(Entry),
           NEW stages, NEW numbers, NEW gone, NEW stages2, NEW numbers2, NEW gone2,
           Numbered(u, s, stages, numbers, gone),
           \A m \in Messages : sender[m] = u /\ stages[m] # "new" =>
               stages2[m] # "new" /\ numbers2[m] \in {numbers[m], 0},
           gone \subseteq gone2
    PROVE  Numbered(u, s, stages2, numbers2, gone2)
<1> SUFFICES ASSUME NEW i \in 1..Len(s), NEW m, m = s[i].msg
             PROVE  /\ s[i].slot \in {0, i}
                    /\ sender[m] = u =>
                          /\ stages2[m] # "new"
                          /\ s[i].slot # 0 /\ numbers2[m] # 0 => numbers2[m] = s[i].slot
                          /\ m \notin gone2 =>
                                \A j \in 1..Len(s) :
                                    /\ s[j].msg = m => j = i
                                    /\ s[i].slot = 0 /\ numbers2[m] # 0 => s[j].slot # numbers2[m]
  BY DEF Numbered
<1>1. m \in Messages
  <2>1. s[i] \in Entry
    BY ElementOfSeq
  <2> QED
    BY <2>1 DEF Entry
<1>2. /\ s[i].slot \in {0, i}
      /\ sender[m] = u =>
            /\ stages[m] # "new"
            /\ s[i].slot # 0 /\ numbers[m] # 0 => numbers[m] = s[i].slot
            /\ m \notin gone =>
                  \A j \in 1..Len(s) :
                      /\ s[j].msg = m => j = i
                      /\ s[i].slot = 0 /\ numbers[m] # 0 => s[j].slot # numbers[m]
  BY DEF Numbered
<1>3. sender[m] = u => stages2[m] # "new" /\ (numbers2[m] = numbers[m] \/ numbers2[m] = 0)
  BY <1>1, <1>2
<1>4. m \notin gone2 => m \notin gone
  OBVIOUS
<1> QED
  BY <1>2, <1>3, <1>4

\* What was fetched is listed once.
LEMMA FetchedIsNumbered ==
    ASSUME NEW u \in Users, NEW found \in Seq(Messages), EachOnce(found),
           \A m \in ToSet(found) : sending[m] # "new"
    PROVE  Numbered(u, [i \in DOMAIN found |-> Shown(found[i])], sending, slot, reused)
<1> DEFINE s == [i \in DOMAIN found |-> Shown(found[i])]
<1>1. DOMAIN found = 1..Len(found) /\ Len(found) \in Nat
  BY LenProperties
<1>2. s \in Seq(Entry) /\ Len(s) = Len(found)
  <2>1. \A i \in 1..Len(found) : Shown(found[i]) \in Entry
    BY ElementOfSeq DEF Shown, Entry
  <2> QED
    BY <1>1, <2>1, IsASeq
<1>3. \A i \in 1..Len(s) : s[i].msg = found[i] /\ s[i].slot = 0
  BY <1>1, <1>2 DEF Shown
<1>4. \A i \in 1..Len(found) : found[i] \in ToSet(found)
  BY <1>1 DEF ToSet
<1>5. \A i, j \in 1..Len(found) : found[i] = found[j] => i = j
  BY DEF EachOnce
<1> HIDE DEF s
<1>6. Numbered(u, s, sending, slot, reused)
  <2> SUFFICES ASSUME NEW i \in 1..Len(s)
               PROVE  /\ s[i].slot = 0 /\ sending[s[i].msg] # "new"
                      /\ \A j \in 1..Len(s) : (s[j].msg = s[i].msg => j = i) /\ s[j].slot = 0
    BY DEF Numbered
  <2> QED
    BY <1>2, <1>3, <1>4, <1>5
<1> QED
  BY <1>6 DEF s

\* A message of somebody else that arrives takes no number.
LEMMA ReceivedIsNumbered ==
    ASSUME NEW u \in Users, NEW s \in Seq(Entry), NEW m \in Messages, sender[m] # u,
           Numbered(u, s, sending, slot, reused)
    PROVE  Numbered(u, Append(s, Shown(m)), sending, slot, reused)
<1>1. PICK t : t = Append(s, Shown(m))
  OBVIOUS
<1>2. /\ Len(s) \in Nat /\ Len(t) = Len(s) + 1
      /\ \A i \in 1..Len(s) : t[i] = s[i]
      /\ t[Len(s) + 1].msg = m /\ t[Len(s) + 1].slot = 0
  <2>1. Shown(m) \in Entry /\ Shown(m).msg = m /\ Shown(m).slot = 0
    BY DEF Shown, Entry
  <2> QED
    BY <1>1, <2>1, AppendProperties, LenProperties
<1>3. \A i \in 1..Len(t) : i \in 1..Len(s) \/ (t[i].msg = m /\ t[i].slot = 0)
  BY <1>2
<1>4. Numbered(u, t, sending, slot, reused)
  <2> SUFFICES ASSUME NEW i \in 1..Len(t)
               PROVE  /\ t[i].slot \in {0, i}
                      /\ sender[t[i].msg] = u =>
                            /\ sending[t[i].msg] # "new"
                            /\ t[i].slot # 0 /\ slot[t[i].msg] # 0 => slot[t[i].msg] = t[i].slot
                            /\ t[i].msg \notin reused =>
                                  \A j \in 1..Len(t) :
                                      /\ t[j].msg = t[i].msg => j = i
                                      /\ t[i].slot = 0 /\ slot[t[i].msg] # 0 =>
                                            t[j].slot # slot[t[i].msg]
    BY DEF Numbered
  <2>1. CASE i \in 1..Len(s)
    BY <1>2, <1>3, <2>1 DEF Numbered
  <2>2. CASE t[i].msg = m /\ t[i].slot = 0
    BY <2>2
  <2> QED
    BY <1>3, <2>1, <2>2
<1> QED
  BY <1>1, <1>4

\* A new message takes the number of its place; a message that had it before is done for.
LEMMA PendingIsNumbered ==
    ASSUME TypeOK, NEW u \in Users, NEW m \in Messages, Pending(u, m), list[u] # NoList,
           Numbered(u, list[u], sending, slot, reused)
    PROVE  /\ list'[u] # NoList
           /\ Numbered(u, list'[u], sending', slot', reused')
<1>1. PICK s \in Seq(Entry) : s = list[u]
  BY DEF TypeOK
<1>2. PICK k : k = Len(s) + 1
  OBVIOUS
<1>3. PICK t : t = Append(s, [msg |-> m, slot |-> k])
  OBVIOUS
<1>4. Len(s) \in Nat /\ k \in Nat /\ [msg |-> m, slot |-> k] \in Entry /\ Place(u) = k
  BY <1>1, <1>2, LenProperties DEF Entry, Place
<1>5. /\ Len(t) = k
      /\ \A i \in 1..Len(s) : t[i] = s[i]
      /\ t[k].msg = m /\ t[k].slot = k
      /\ t \in Seq(Entry)
  BY <1>2, <1>3, <1>4, AppendProperties, LenProperties
<1>6. list'[u] = t
  BY <1>1, <1>3, <1>4 DEF Pending, CacheChanged, Cache, TypeOK
<1>7. /\ sending[m] = "new" /\ sender[m] = u
      /\ sending' = [sending EXCEPT ![m] = "asked"]
      /\ slot' = [slot EXCEPT ![m] = k]
  BY <1>4 DEF Pending, To
<1>8. \A n \in Messages \ reused' :
         /\ n \notin reused
         /\ sender[n] = u /\ slot[n] = k => \A i \in 1..Len(s) : s[i] # Shown(n)
  <2>1. reused' = reused \cup Overtaken(u)
    BY DEF Pending
  <2>2. DOMAIN s = 1..Len(s)
    BY LenProperties
  <2> QED
    BY <1>1, <1>4, <2>1, <2>2 DEF Overtaken, ToSet
<1>9. \A i \in 1..Len(t) : i \in 1..Len(s) \/ i = k
  BY <1>2, <1>4, <1>5
<1>10. \A i \in 1..Len(s) : /\ s[i].msg \in Messages /\ s[i].slot \in Nat
                            /\ s[i].slot = 0 => s[i] = Shown(s[i].msg)
  <2>1. ASSUME NEW e \in Entry PROVE e.slot = 0 => e = Shown(e.msg)
    BY DEF Entry, Shown
  <2>2. \A i \in 1..Len(s) : s[i] \in Entry
    BY ElementOfSeq
  <2> QED
    BY <2>1, <2>2 DEF Entry
<1>11. /\ slot'[m] = k /\ sending'[m] = "asked"
       /\ \A n \in Messages : n # m => slot'[n] = slot[n] /\ sending'[n] = sending[n]
  BY <1>7 DEF TypeOK
<1>12. \A i \in 1..Len(s) : /\ s[i].slot # k
                            /\ s[i].msg # m
  <2> SUFFICES ASSUME NEW i \in 1..Len(s) PROVE s[i].slot # k /\ s[i].msg # m
    OBVIOUS
  <2>1. s[i].slot \in {0, i} /\ (sender[s[i].msg] = u => sending[s[i].msg] # "new")
    BY <1>1 DEF Numbered
  <2>2. i # k /\ k # 0
    BY <1>2, <1>4
  <2> QED
    BY <1>7, <2>1, <2>2
<1>13. Numbered(u, t, sending', slot', reused')
  <2> SUFFICES ASSUME NEW i \in 1..Len(t), NEW n, n = t[i].msg
               PROVE  /\ t[i].slot \in {0, i}
                      /\ sender[n] = u =>
                            /\ sending'[n] # "new"
                            /\ t[i].slot # 0 /\ slot'[n] # 0 => slot'[n] = t[i].slot
                            /\ n \notin reused' =>
                                  \A j \in 1..Len(t) :
                                      /\ t[j].msg = n => j = i
                                      /\ t[i].slot = 0 /\ slot'[n] # 0 => t[j].slot # slot'[n]
    BY DEF Numbered
  <2>1. CASE i = k
    <3>1. n = m /\ t[i].slot = k /\ k # 0
      BY <1>2, <1>4, <1>5, <2>1
    <3>2. \A j \in 1..Len(t) : t[j].msg = n => j = i
      BY <1>5, <1>9, <1>12, <2>1, <3>1
    <3> QED
      BY <1>11, <2>1, <3>1, <3>2
  <2>2. CASE i \in 1..Len(s)
    <3>1. /\ t[i] = s[i] /\ n = s[i].msg /\ n # m /\ n \in Messages
          /\ slot'[n] = slot[n] /\ sending'[n] = sending[n]
      BY <1>5, <1>10, <1>11, <1>12, <2>2
    <3>2. /\ s[i].slot \in {0, i}
          /\ sender[n] = u =>
                /\ sending[n] # "new"
                /\ s[i].slot # 0 /\ slot[n] # 0 => slot[n] = s[i].slot
                /\ n \notin reused =>
                      \A j \in 1..Len(s) :
                          /\ s[j].msg = n => j = i
                          /\ s[i].slot = 0 /\ slot[n] # 0 => s[j].slot # slot[n]
      BY <1>1, <2>2, <3>1 DEF Numbered
    <3>3. ASSUME sender[n] = u, n \notin reused', NEW j \in 1..Len(t)
          PROVE  /\ t[j].msg = n => j = i
                 /\ t[i].slot = 0 /\ slot[n] # 0 => t[j].slot # slot[n]
      <4>1. CASE j \in 1..Len(s)
        BY <1>5, <1>8, <3>1, <3>2, <3>3, <4>1
      <4>2. CASE j = k
        <5>1. t[j].msg # n /\ t[j].slot = k
          BY <1>5, <3>1, <4>2
        <5>2. t[i].slot = 0 => s[i] = Shown(n)
          BY <1>10, <2>2, <3>1
        <5>3. t[i].slot = 0 => slot[n] # k
          BY <1>8, <2>2, <3>1, <3>3, <5>2
        <5> QED
          BY <5>1, <5>3
      <4> QED
        BY <1>9, <4>1, <4>2
    <3> QED
      BY <3>1, <3>2, <3>3
  <2> QED
    BY <1>9, <2>1, <2>2
<1> QED
  BY <1>5, <1>6, <1>13, MessagesAssumption DEF Entry

\* The reply puts the message in the place that has its number, and nowhere else.
LEMMA ReplyIsNumbered ==
    ASSUME TypeOK, NumbersAreGiven, NEW u \in Users, NEW m \in Messages,
           SendReply(m), sender[m] = u, list[u] # NoList,
           Numbered(u, list[u], sending, slot, reused)
    PROVE  Numbered(u, list'[u], sending', slot', reused')
<1>1. PICK s \in Seq(Entry) : s = list[u]
  BY DEF TypeOK
<1>2. PICK k \in Nat : k = slot[m]
  BY DEF TypeOK
<1>3. PICK t : t = Replaced(s, m)
  OBVIOUS
<1>4. /\ k # 0 /\ slot' = [slot EXCEPT ![m] = 0] /\ reused' = reused
      /\ sending' = [sending EXCEPT ![m] = "done"]
  BY <1>2 DEF SendReply, Answered, To, NumbersAreGiven
<1>5. /\ Len(t) = Len(s)
      /\ \A i \in 1..Len(s) :
            /\ s[i].slot = k => t[i].msg = m /\ t[i].slot = 0
            /\ s[i].slot # k => t[i] = s[i]
  <2>1. DOMAIN s = 1..Len(s) /\ Len(s) \in Nat
    BY LenProperties
  <2>2. t = [i \in 1..Len(s) |-> IF s[i].slot = k THEN Shown(m) ELSE s[i]]
    BY <1>2, <1>3, <2>1 DEF Replaced
  <2>3. Shown(m) \in Entry /\ Shown(m).msg = m /\ Shown(m).slot = 0
    BY DEF Shown, Entry
  <2>4. \A i \in 1..Len(s) : s[i] \in Entry
    BY ElementOfSeq
  <2>5. Len(t) = Len(s)
    BY <2>1, <2>2, <2>3, <2>4, IsASeq
  <2> QED
    BY <2>2, <2>3, <2>5
<1>6. list'[u] = t
  BY <1>1, <1>3 DEF SendReply, CacheChanged, Cache, TypeOK
<1>7. /\ slot'[m] = 0 /\ sending'[m] = "done"
      /\ \A n \in Messages : n # m => slot'[n] = slot[n] /\ sending'[n] = sending[n]
  BY <1>4 DEF TypeOK
<1>8. \A i \in 1..Len(s) : s[i].msg \in Messages /\ s[i].slot \in {0, i}
  <2>1. \A i \in 1..Len(s) : s[i] \in Entry
    BY ElementOfSeq
  <2> QED
    BY <1>1, <2>1 DEF Entry, Numbered
<1>9. ASSUME m \notin reused, NEW i \in 1..Len(s), s[i].msg = m, s[i].slot # k,
             NEW j \in 1..Len(s)
      PROVE  s[j].slot # k /\ (s[j].msg = m => j = i)
  <2>1. /\ s[i].slot # 0 => slot[m] = s[i].slot
        /\ s[i].slot = 0 => s[j].slot # slot[m]
        /\ s[j].msg = m => j = i
    BY <1>1, <1>2, <1>4, <1>9 DEF Numbered
  <2> QED
    BY <1>2, <1>9, <2>1
<1>10. ASSUME m \notin reused, NEW i \in 1..Len(s), t[i].msg = m, NEW j \in 1..Len(s), t[j].msg = m
       PROVE  j = i
  <2>1. CASE s[i].slot = k /\ s[j].slot = k
    BY <1>4, <1>8, <2>1
  <2>2. CASE s[i].slot # k
    <3>1. s[i].msg = m
      BY <1>5, <1>10, <2>2
    <3>2. s[j].slot # k /\ (s[j].msg = m => j = i)
      BY <1>9, <1>10, <2>2, <3>1
    <3> QED
      BY <1>5, <1>10, <3>2
  <2>3. CASE s[j].slot # k
    <3>1. s[j].msg = m
      BY <1>5, <1>10, <2>3
    <3>2. s[i].slot # k /\ (s[i].msg = m => i = j)
      BY <1>9, <1>10, <2>3, <3>1
    <3> QED
      BY <1>5, <1>10, <3>2
  <2> QED
    BY <2>1, <2>2, <2>3
<1>11. Numbered(u, t, sending', slot', reused')
  <2> SUFFICES ASSUME NEW i \in 1..Len(s), NEW n, n = t[i].msg
               PROVE  /\ t[i].slot \in {0, i}
                      /\ sender[n] = u =>
                            /\ sending'[n] # "new"
                            /\ t[i].slot # 0 /\ slot'[n] # 0 => slot'[n] = t[i].slot
                            /\ n \notin reused =>
                                  \A j \in 1..Len(s) :
                                      /\ t[j].msg = n => j = i
                                      /\ t[i].slot = 0 /\ slot'[n] # 0 => t[j].slot # slot'[n]
    BY <1>4, <1>5 DEF Numbered
  <2>1. t[i].slot \in {0, i}
    BY <1>5, <1>8
  <2>2. CASE n = m
    BY <1>7, <1>10, <2>1, <2>2
  <2>3. CASE n # m
    <3>1. t[i] = s[i] /\ n = s[i].msg /\ n \in Messages
      BY <1>5, <1>8, <2>3
    <3>2. slot'[n] = slot[n] /\ sending'[n] = sending[n]
      BY <1>7, <2>3, <3>1
    <3>3. sender[n] = u =>
             /\ sending[n] # "new"
             /\ s[i].slot # 0 /\ slot[n] # 0 => slot[n] = s[i].slot
             /\ n \notin reused =>
                   \A j \in 1..Len(s) :
                       /\ s[j].msg = n => j = i
                       /\ s[i].slot = 0 /\ slot[n] # 0 => s[j].slot # slot[n]
      BY <1>1, <3>1 DEF Numbered
    <3>4. \A j \in 1..Len(s) : /\ t[j].msg = n => s[j].msg = n
                               /\ t[j].slot = s[j].slot \/ t[j].slot = 0
      BY <1>5, <2>3
    <3> QED
      BY <2>1, <3>1, <3>2, <3>3, <3>4
  <2> QED
    BY <2>2, <2>3
<1> QED
  BY <1>6, <1>11

\* A number that was given stays until the reply.
LEMMA NumbersAfter ==
    ASSUME TypeOK, Next
    PROVE  /\ reused \subseteq reused'
           /\ \A m \in Messages : sending[m] # "new" => slot'[m] \in {slot[m], 0}
           /\ \A m \in Messages :
                 \/ slot'[m] = slot[m]
                 \/ sending'[m] = "done"
                 \/ \E u \in Users : Pending(u, m)
<1>1. ASSUME NEW u \in Users, NEW m \in Messages, Pending(u, m)
      PROVE  /\ reused \subseteq reused' /\ sending[m] = "new"
             /\ \A n \in Messages : n # m => slot'[n] = slot[n]
  BY <1>1 DEF Pending, TypeOK
<1>2. ASSUME NEW m \in Messages, NEW stage, Answered(m, stage)
      PROVE  /\ reused' = reused /\ slot'[m] = 0 /\ sending'[m] = "done"
             /\ \A n \in Messages : n # m => slot'[n] = slot[n]
  BY <1>2 DEF Answered, To, TypeOK
<1>3. ASSUME NEW u \in Users,
             Load(u) \/ Open(u) \/ Close(u) \/ Collect(u) \/ LoadStep(u) \/ FetchStep(u)
                 \/ ReceiveStep(u)
      PROVE  UNCHANGED <<slot, reused>>
  BY <1>3 DEF Load, Open, Close, Collect, LoadStep, LoadRow, LoadState, LoadCount, FetchStep,
              FetchRead, FetchReply, FetchFails, ReceiveStep, TakeSnapshot, Receive
<1>4. ASSUME NEW m \in Messages, Save(m) \/ FailSave(m) \/ Publish(m) \/ FailUpload(m) \/ CountStep(m)
      PROVE  UNCHANGED <<slot, reused>>
  BY <1>4 DEF Save, FailSave, Publish, FailUpload, CountStep, CountGet, CountSet, CountRow, CountFails
<1>5. ASSUME AckStep
      PROVE  UNCHANGED <<slot, reused>>
  BY <1>5 DEF AckStep, AckSave, AckReset
<1>6. \/ UNCHANGED <<slot, reused>>
      \/ \E u \in Users, m \in Messages : Pending(u, m)
      \/ \E m \in Messages : \E stage \in {"sent", "failed"} : Answered(m, stage)
  <2>1. ASSUME NEW u \in Users, NEW m \in Messages,
               Send(u, m) \/ SendInGuild(u, m) \/ SendInvite(u, m)
        PROVE  Pending(u, m)
    BY <2>1 DEF Send, SendInGuild, SendInvite, SendNow
  <2>2. ASSUME NEW m \in Messages, SendReply(m) \/ FailureReply(m) \/ InviteReply(m)
        PROVE  \E stage \in {"sent", "failed"} : Answered(m, stage)
    BY <2>2 DEF SendReply, FailureReply, InviteReply
  <2> QED
    BY <1>3, <1>4, <1>5, <2>1, <2>2 DEF Next, UserStep, SendStep
<1> QED
  BY <1>1, <1>2, <1>6

\* What becomes of a list in a step.
LEMMA ListAfter ==
    ASSUME TypeOK, Next, NEW u \in Users
    PROVE  \/ list'[u] \in {list[u], NoList, << >>}
           \/ \E m \in Messages : Pending(u, m) /\ list[u] # NoList
           \/ FetchReply(u)
           \/ \E m \in Messages : SendReply(m) /\ sender[m] = u /\ list[u] # NoList
           \/ \E i \in DOMAIN inbox[u] : Receive(u, i) /\ Loaded(u) /\ list[u] # NoList
<1>1. ASSUME NEW w \in Users, NEW entries, Cache(w, entries)
      PROVE  list'[u] = IF u = w THEN entries ELSE list[u]
  BY <1>1 DEF Cache, TypeOK
<1>2. ASSUME NEW w \in Users,
             Load(w) \/ Open(w) \/ Close(w) \/ LoadStep(w) \/ FetchRead(w)
      PROVE  list'[u] = list[u]
  BY <1>2 DEF Load, Open, Close, LoadStep, LoadRow, LoadState, LoadCount, FetchRead, client
<1>3. ASSUME NEW w \in Users, Collect(w) \/ FetchFails(w)
      PROVE  list'[u] \in {list[u], NoList, << >>}
  BY <1>1, <1>3 DEF Collect, FetchFails
<1>4. ASSUME NEW w \in Users, FetchReply(w)
      PROVE  list'[u] = list[u] \/ FetchReply(u)
  BY <1>1, <1>4 DEF FetchReply
<1>5. ASSUME NEW w \in Users, NEW m \in Messages,
             Send(w, m) \/ SendInGuild(w, m) \/ SendInvite(w, m)
      PROVE  list'[u] \in {list[u], << >>} \/ (Pending(u, m) /\ list[u] # NoList)
  <2>1. Pending(w, m)
    BY <1>5 DEF Send, SendInGuild, SendInvite, SendNow
  <2> QED
    BY <1>1, <2>1 DEF Pending, CacheChanged
<1>6. ASSUME NEW m \in Messages, SendReply(m)
      PROVE  \/ list'[u] \in {list[u], << >>}
             \/ sender[m] = u /\ list[u] # NoList
  <2>1. sender[m] \in Users
    BY MessagesAssumption
  <2> QED
    BY <1>1, <1>6, <2>1 DEF SendReply, CacheChanged
<1>7. ASSUME NEW m \in Messages, FailureReply(m) \/ InviteReply(m)
      PROVE  list'[u] \in {list[u], << >>}
  <2>1. sender[m] \in Users
    BY MessagesAssumption
  <2>2. CASE FailureReply(m)
    <3>1. Cache(sender[m], << >>) \/ UNCHANGED list
      BY <2>2 DEF FailureReply
    <3> QED
      BY <1>1, <2>1, <3>1
  <2>3. CASE InviteReply(m)
    BY <2>1, <2>3 DEF InviteReply, TypeOK
  <2> QED
    BY <1>7, <2>2, <2>3
<1>8. ASSUME NEW w \in Users, ReceiveStep(w)
      PROVE  \/ list'[u] \in {list[u], << >>}
             \/ \E i \in DOMAIN inbox[u] : Receive(u, i) /\ Loaded(u) /\ list[u] # NoList
  <2>1. PICK i \in DOMAIN inbox[w] : TakeSnapshot(w, i) \/ Receive(w, i)
    BY <1>8 DEF ReceiveStep
  <2>2. CASE TakeSnapshot(w, i)
    BY <2>2 DEF TakeSnapshot
  <2>3. CASE Receive(w, i) /\ ~Loaded(w)
    BY <2>3 DEF Receive
  <2>4. CASE Receive(w, i) /\ Loaded(w)
    BY <1>1, <2>1, <2>4 DEF Receive, CacheChanged
  <2> QED
    BY <2>1, <2>2, <2>3, <2>4
<1>9. ASSUME NEW m \in Messages, Save(m) \/ FailSave(m) \/ Publish(m) \/ FailUpload(m) \/ CountStep(m)
      PROVE  list' = list
  BY <1>9 DEF Save, FailSave, Publish, FailUpload, CountStep, CountGet, CountSet, CountRow,
              CountFails, client
<1>10. ASSUME AckStep
       PROVE  list' = list
  BY <1>10 DEF AckStep, AckSave, AckReset, client
<1>11. CASE \E w \in Users : UserStep(w)
  BY <1>2, <1>3, <1>5, <1>11 DEF UserStep
<1>12. CASE \E w \in Users : LoadStep(w) \/ FetchStep(w) \/ ReceiveStep(w)
  BY <1>2, <1>3, <1>4, <1>8, <1>12 DEF FetchStep
<1>13. CASE \E m \in Messages : SendStep(m) \/ CountStep(m)
  BY <1>6, <1>7, <1>9, <1>13 DEF SendStep
<1> QED
  BY <1>10, <1>11, <1>12, <1>13 DEF Next

\* Every list keeps its numbers.
LEMMA ListsStayNumbered ==
    ASSUME TypeOK, TypeOK', ListInv, Next
    PROVE  ListsAreNumbered'
<1> SUFFICES ASSUME NEW u \in Users, list'[u] # NoList
             PROVE  Numbered(u, list'[u], sending', slot', reused')
  BY DEF ListsAreNumbered
<1>1. CASE list'[u] = << >>
  BY <1>1 DEF Numbered
<1>2. CASE list'[u] = list[u]
  <2>1. list[u] \in Seq(Entry) /\ Numbered(u, list[u], sending, slot, reused)
    BY <1>2 DEF TypeOK, ListInv, ListsAreNumbered
  <2>2. \A m \in Messages : sender[m] = u /\ sending[m] # "new" =>
           sending'[m] # "new" /\ slot'[m] \in {slot[m], 0}
    BY SendingAfter, NumbersAfter
  <2>3. reused \subseteq reused'
    BY NumbersAfter
  <2>4. Numbered(u, list[u], sending', slot', reused')
    BY <2>1, <2>2, <2>3, NumberedStays
  <2> QED
    BY <1>2, <2>4
<1>3. CASE \E m \in Messages : Pending(u, m) /\ list[u] # NoList
  BY <1>3, PendingIsNumbered DEF ListInv, ListsAreNumbered
<1>4. CASE FetchReply(u)
  <2>1. fetch[u].stage = "read" /\ fetch[u] \in Request
    BY <1>4 DEF FetchReply, TypeOK
  <2>2. fetch[u].found \in Seq(Messages)
    BY <2>1, Stages
  <2>3. EachOnce(fetch[u].found) /\ \A m \in ToSet(fetch[u].found) : sending[m] # "new"
    BY <2>1 DEF ListInv, FetchedOnce
  <2>4. /\ list'[u] = [i \in DOMAIN fetch[u].found |-> Shown(fetch[u].found[i])]
        /\ UNCHANGED <<sending, slot, reused>>
    BY <1>4 DEF FetchReply, Cache, server, TypeOK
  <2>5. Numbered(u, list'[u], sending, slot, reused)
    BY <2>2, <2>3, <2>4, FetchedIsNumbered
  <2> QED
    BY <2>4, <2>5
<1>5. CASE \E m \in Messages : SendReply(m) /\ sender[m] = u /\ list[u] # NoList
  BY <1>5, ReplyIsNumbered DEF ListInv, ListsAreNumbered
<1>6. CASE \E i \in DOMAIN inbox[u] : Receive(u, i) /\ Loaded(u) /\ list[u] # NoList
  <2>1. PICK i \in DOMAIN inbox[u] : Receive(u, i) /\ Loaded(u) /\ list[u] # NoList
    BY <1>6
  <2>2. PICK event : event = inbox[u][i]
    OBVIOUS
  <2>3. event \in ToSet(inbox[u]) /\ "msg" \in DOMAIN event /\ event \in Event
    <3>1. inbox[u] \in Seq(Event) /\ i \in 1..Len(inbox[u])
      BY LenProperties DEF TypeOK
    <3>2. event \in Event
      BY <2>2, <3>1, ElementOfSeq
    <3> QED
      BY <2>1, <2>2, <3>2 DEF Receive, ToSet
  <2>4. event.msg \in Messages /\ event.msg \in Arriving(u)
    BY <2>3, Stages DEF Arriving
  <2>5. sender[event.msg] # u
    BY <2>4 DEF ListInv, OthersArrive
  <2>6. /\ list'[u] = Append(list[u], Shown(event.msg))
        /\ UNCHANGED <<sending, slot, reused>>
    BY <2>1, <2>2 DEF Receive, CacheChanged, Cache, server, TypeOK
  <2>7. list[u] \in Seq(Entry) /\ Numbered(u, list[u], sending, slot, reused)
    BY <2>1 DEF TypeOK, ListInv, ListsAreNumbered
  <2>8. Numbered(u, Append(list[u], Shown(event.msg)), sending, slot, reused)
    BY <2>4, <2>5, <2>7, ReceivedIsNumbered
  <2> QED
    BY <2>6, <2>8
<1> QED
  BY <1>1, <1>2, <1>3, <1>4, <1>5, <1>6, ListAfter

\* What is stored stays there once.
LEMMA StoredStaysOnce ==
    ASSUME TypeOK, StoredOnce, Next
    PROVE  StoredOnce'
<1>1. saved \in Seq(Messages) /\ EachOnce(saved) /\ \A m \in ToSet(saved) : m \in Messages
  <2>1. \A i \in 1..Len(saved) : saved[i] \in Messages
    BY ElementOfSeq DEF TypeOK
  <2> QED
    BY <2>1, LenProperties DEF StoredOnce, TypeOK, ToSet
<1>2. ASSUME NEW m \in ToSet(saved)
      PROVE  sending'[m] \notin {"new", "asked"}
  BY <1>1, SendingAfter DEF StoredOnce
<1>3. CASE UNCHANGED saved
  BY <1>1, <1>2, <1>3 DEF StoredOnce
<1>4. ASSUME NEW m \in Messages, Save(m)
      PROVE  StoredOnce'
  <2>1. saved' = Append(saved, m) /\ m \notin ToSet(saved) /\ sending'[m] = "saved"
    BY <1>4 DEF Save, To, StoredOnce, TypeOK
  <2>2. ToSet(saved') = ToSet(saved) \cup {m}
    BY <1>1, <2>1, AppendAdds
  <2>3. EachOnce(saved')
    <3>1. PICK new \in Seq(Messages) : new = saved'
      BY <1>1, <2>1, AppendAdds
    <3>2. /\ Len(saved) \in Nat /\ Len(new) = Len(saved) + 1
          /\ \A i \in 1..Len(saved) : new[i] = saved[i] /\ saved[i] \in ToSet(saved)
          /\ new[Len(saved) + 1] = m
      BY <1>1, <2>1, <3>1, AppendProperties, LenProperties DEF ToSet
    <3>3. \A i \in 1..Len(new) : i \in 1..Len(saved) \/ i = Len(saved) + 1
      BY <3>2
    <3> QED
      BY <1>1, <2>1, <3>1, <3>2, <3>3 DEF EachOnce
  <2> QED
    BY <1>2, <2>1, <2>2, <2>3 DEF StoredOnce
<1>5. ASSUME NEW m \in Messages, FailUpload(m)
      PROVE  StoredOnce'
  <2>1. PICK i \in DOMAIN saved : saved' = RemoveAt(saved, i)
    BY <1>5 DEF FailUpload
  <2>2. EachOnce(saved') /\ ToSet(saved') \subseteq ToSet(saved)
    BY <1>1, <2>1, RemovalShortens
  <2> QED
    BY <1>2, <2>2 DEF StoredOnce
<1> QED
  BY <1>3, <1>4, <1>5, Writers

\* What is fetched is what was stored.
LEMMA FetchAfter ==
    ASSUME TypeOK, Next, NEW u \in Users
    PROVE  \/ fetch'[u] = fetch[u]
           \/ fetch'[u].stage # "read"
           \/ fetch'[u] = [stage |-> "read", found |-> saved]
<1>1. ASSUME NEW w \in Users, NEW stage \in {"none", "asked"}, Fetching(w, stage)
      PROVE  fetch'[u] = fetch[u] \/ fetch'[u].stage # "read"
  BY <1>1 DEF Fetching, TypeOK
<1>2. ASSUME NEW w \in Users,
             Load(w) \/ Close(w) \/ Collect(w) \/ LoadStep(w) \/ ReceiveStep(w)
      PROVE  fetch' = fetch
  BY <1>2 DEF Load, Close, Collect, LoadStep, LoadRow, LoadState, LoadCount, ReceiveStep,
              TakeSnapshot, Receive, client
<1>3. ASSUME NEW w \in Users, Open(w) \/ FetchReply(w) \/ FetchFails(w)
      PROVE  fetch' = fetch \/ \E stage \in {"none", "asked"} : Fetching(w, stage)
  BY <1>3 DEF Open, FetchReply, FetchFails
<1>4. ASSUME NEW w \in Users, FetchRead(w)
      PROVE  fetch'[u] = fetch[u] \/ fetch'[u] = [stage |-> "read", found |-> saved]
  BY <1>4 DEF FetchRead, TypeOK
<1>5. ASSUME NEW w \in Users, NEW m \in Messages,
             Send(w, m) \/ SendInGuild(w, m) \/ SendInvite(w, m)
      PROVE  fetch' = fetch
  BY <1>5 DEF Send, SendInGuild, SendInvite, SendNow, Pending
<1>6. ASSUME NEW m \in Messages, SendReply(m) \/ FailureReply(m)
      PROVE  fetch' = fetch
  BY <1>6 DEF SendReply, FailureReply
<1>7. ASSUME NEW m \in Messages, InviteReply(m)
      PROVE  fetch' = fetch \/ Fetching(sender[m], "asked")
  BY <1>7 DEF InviteReply
<1>8. ASSUME NEW m \in Messages, Save(m) \/ FailSave(m) \/ Publish(m) \/ FailUpload(m) \/ CountStep(m)
      PROVE  fetch' = fetch
  BY <1>8 DEF Save, FailSave, Publish, FailUpload, CountStep, CountGet, CountSet, CountRow,
              CountFails, client
<1>9. CASE AckStep
  BY <1>9 DEF AckStep, AckSave, AckReset, client
<1>10. CASE \E w \in Users : UserStep(w) \/ LoadStep(w) \/ FetchStep(w) \/ ReceiveStep(w)
  BY <1>1, <1>2, <1>3, <1>4, <1>5, <1>10 DEF UserStep, FetchStep
<1>11. CASE \E m \in Messages : SendStep(m) \/ CountStep(m)
  <2>1. \A m \in Messages : sender[m] \in Users
    BY MessagesAssumption
  <2> QED
    BY <1>1, <1>6, <1>7, <1>8, <1>11, <2>1 DEF SendStep
<1> QED
  BY <1>9, <1>10, <1>11 DEF Next

LEMMA FetchedStaysOnce ==
    ASSUME TypeOK, ListInv, Next
    PROVE  FetchedOnce'
<1> SUFFICES ASSUME NEW u \in Users, fetch'[u].stage = "read"
             PROVE  /\ EachOnce(fetch'[u].found)
                    /\ \A m \in ToSet(fetch'[u].found) : sending'[m] # "new"
  BY DEF FetchedOnce
<1>1. ASSUME NEW found \in Seq(Messages), \A m \in ToSet(found) : sending[m] # "new"
      PROVE  \A m \in ToSet(found) : sending'[m] # "new"
  <2>1. \A m \in ToSet(found) : m \in Messages
    BY ElementOfSeq, LenProperties DEF ToSet
  <2> QED
    BY <1>1, <2>1, SendingAfter
<1>2. CASE fetch'[u] = fetch[u]
  <2>1. fetch[u].found \in Seq(Messages)
    BY <1>2, Stages DEF TypeOK
  <2> QED
    BY <1>1, <1>2, <2>1 DEF ListInv, FetchedOnce
<1>3. CASE fetch'[u] = [stage |-> "read", found |-> saved]
  <2>1. saved \in Seq(Messages) /\ fetch'[u].found = saved
    BY <1>3 DEF TypeOK
  <2> QED
    BY <1>1, <2>1 DEF ListInv, StoredOnce
<1> QED
  BY <1>2, <1>3, FetchAfter

\* Nobody is ever sent a message of their own.
LEMMA OthersGoOnArriving ==
    ASSUME TypeOK, OthersArrive, Next
    PROVE  OthersArrive'
<1> SUFFICES ASSUME NEW u \in Users, NEW e \in ToSet(inbox'[u]), "msg" \in DOMAIN e
             PROVE  sender[e.msg] # u
  BY DEF OthersArrive, Arriving
<1>1. CASE e \in ToSet(inbox[u])
  BY <1>1 DEF OthersArrive, Arriving
<1>2. CASE \E m \in Messages : sender[m] # u /\ e = [msg |-> m]
  BY <1>2
<1>3. CASE \E known : e = [snapshot |-> known]
  BY <1>3
<1> QED
  BY <1>1, <1>2, <1>3, InboxAfter

\* A message keeps its number until it is answered.
LEMMA NumbersStayGiven ==
    ASSUME TypeOK, NumbersAreGiven, Next
    PROVE  NumbersAreGiven'
<1> SUFFICES ASSUME NEW m \in Messages, sending'[m] \notin {"new", "done"}
             PROVE  slot'[m] # 0
  BY DEF NumbersAreGiven
<1>1. ASSUME NEW u \in Users, Pending(u, m)
      PROVE  slot'[m] # 0
  <2>1. Place(u) # 0
    BY LenProperties DEF Place, TypeOK
  <2> QED
    BY <1>1, <2>1 DEF Pending, TypeOK
<1>2. CASE sending[m] \in {"new", "done"}
  <2>1. sending[m] = "new" /\ sending'[m] = "asked"
    BY <1>2, SendingAfter
  <2>2. ASSUME NEW n \in Messages, SendStep(n)
        PROVE  FALSE
    BY <2>1, <2>2 DEF SendStep, Save, FailSave, Publish, FailUpload, SendReply, FailureReply,
                      InviteReply, Answered, To, TypeOK
  <2>3. \E u \in Users, n \in Messages : Pending(u, n)
    BY <2>1, <2>2, Writers
  <2>4. ASSUME NEW u \in Users, NEW n \in Messages, Pending(u, n)
        PROVE  n = m
    BY <2>1, <2>4 DEF Pending, To, TypeOK
  <2> QED
    BY <1>1, <2>3, <2>4
<1>3. CASE sending[m] \notin {"new", "done"}
  BY <1>1, <1>3, NumbersAfter DEF NumbersAreGiven
<1> QED
  BY <1>2, <1>3

\* The sender's client lists a message of theirs once, however fetches, events, failures and
\* the replies to other messages come between sending it and its reply (mutations.ts:149-161),
\* as long as its number is not given to another while a fetch already shows it: a provisional
\* entry has the number of its place in the list, so that the reply finds at most one.
THEOREM OwnMessageIsListedOnce == Spec => []OwnMessageOnce
<1>1. Init => ListInv
  <2> SUFFICES ASSUME Init PROVE ListInv
    OBVIOUS
  <2>1. ListsAreNumbered /\ NumbersAreGiven /\ FetchedOnce
    BY DEF Init, ListsAreNumbered, NumbersAreGiven, FetchedOnce
  <2>2. StoredOnce /\ OthersArrive
    BY EmptySeq DEF Init, StoredOnce, EachOnce, OthersArrive, Arriving, ToSet
  <2> QED
    BY <2>1, <2>2 DEF ListInv
<1>2. TypeOK /\ TypeOK' /\ ListInv /\ [Next]_vars => ListInv'
  <2> SUFFICES ASSUME TypeOK, TypeOK', ListInv, [Next]_vars PROVE ListInv'
    OBVIOUS
  <2>1. CASE UNCHANGED vars
    <3>1. UNCHANGED <<list, sending, slot, reused, saved, fetch, inbox>>
      BY <2>1 DEF vars, server, client
    <3>2. UNCHANGED <<ListsAreNumbered, NumbersAreGiven>>
      BY <3>1 DEF ListsAreNumbered, NumbersAreGiven, Numbered
    <3>3. UNCHANGED <<StoredOnce, FetchedOnce, OthersArrive>>
      BY <3>1 DEF StoredOnce, FetchedOnce, OthersArrive, Arriving
    <3> QED
      BY <3>2, <3>3 DEF ListInv
  <2>2. CASE Next
    <3>1. StoredOnce' /\ OthersArrive' /\ NumbersAreGiven'
      BY <2>2, StoredStaysOnce, OthersGoOnArriving, NumbersStayGiven DEF ListInv
    <3>2. ListsAreNumbered' /\ FetchedOnce'
      BY <2>2, ListsStayNumbered, FetchedStaysOnce
    <3> QED
      BY <3>1, <3>2 DEF ListInv
  <2> QED
    BY <2>1, <2>2
<1>3. TypeOK /\ ListInv => OwnMessageOnce
  <2> SUFFICES ASSUME TypeOK, ListInv, NEW m \in Messages \ reused, list[sender[m]] # NoList
               PROVE  Cardinality({i \in DOMAIN list[sender[m]] : list[sender[m]][i].msg = m}) <= 1
    BY DEF OwnMessageOnce, TypeOK
  <2> DEFINE own == {i \in DOMAIN list[sender[m]] : list[sender[m]][i].msg = m}
  <2>1. PICK s \in Seq(Entry) : s = list[sender[m]]
    BY MessagesAssumption DEF TypeOK
  <2>2. DOMAIN s = 1..Len(s) /\ Numbered(sender[m], s, sending, slot, reused)
    BY <2>1, MessagesAssumption, LenProperties DEF ListInv, ListsAreNumbered
  <2>3. \A i, j \in own : i = j
    BY <2>1, <2>2 DEF Numbered
  <2> HIDE DEF own
  <2>4. Cardinality(own) <= 1
    <3>1. CASE own = {}
      BY <3>1, FS_EmptySet
    <3>2. CASE own # {}
      <4>1. PICK i \in own : TRUE
        BY <3>2
      <4>2. own = {i}
        BY <2>3, <4>1
      <4>3. Cardinality({i}) = 1
        BY FS_Singleton
      <4> QED
        BY <4>2, <4>3
    <3> QED
      BY <3>1, <3>2
  <2> QED
    BY <2>4 DEF own
<1> QED
  BY <1>1, <1>2, <1>3, TypeCorrect, PTL DEF Spec
=============================================================================
