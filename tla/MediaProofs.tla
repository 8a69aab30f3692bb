----------------------------- MODULE MediaProofs -----------------------------
(***************************************************************************)
(* Theorems about the media of calls, for every set of users, channels and *)
(* sockets and however often users click: the types, that a producer which *)
(* a room lists is on record with a peer of the room, that a client is     *)
(* connected to media while its user is in a call, and that a microphone   *)
(* is paused while its user is muted.                                      *)
(***************************************************************************)
EXTENDS Media, FiniteSetTheorems, SequenceTheorems, TLAPS

-----------------------------------------------------------------------------
(* Messages *)

\* The items of a finite set in some order are a sequence of them.
LEMMA SetToSeqType ==
    ASSUME NEW S, IsFiniteSet(S)
    PROVE  SetToSeq(S) \in Seq(S)
<1>1. Cardinality(S) \in Nat /\ ExistsBijection(1..Cardinality(S), S)
  BY FS_CardinalityType
<1>2. \E f \in [1..Cardinality(S) -> S] : IsInjective(f)
  BY <1>1 DEF ExistsBijection, Bijection, Injection
<1>3. SetToSeq(S) \in [1..Cardinality(S) -> S]
  BY <1>2 DEF SetToSeq
<1> QED
  BY <1>1, <1>3

LEMMA ProducersAreFinite ==
    ASSUME NEW S \in SUBSET Producers
    PROVE  IsFiniteSet(S)
<1>1. IsFiniteSet(Sockets)
  BY MediaAssumption, FS_Product DEF Sockets
<1>2. IsFiniteSet({"audio"}) /\ IsFiniteSet({"screen"})
  BY FS_Singleton
<1>3. IsFiniteSet({"audio"} \cup {"screen"})
  BY <1>2, FS_Union
<1>4. Kinds = {"audio"} \cup {"screen"}
  BY DEF Kinds
<1>5. IsFiniteSet(Producers)
  BY <1>1, <1>3, <1>4, FS_Product DEF Producers
<1> QED
  BY <1>5, FS_Subset

\* A message for each of a set of producers.
LEMMA MessagesType ==
    ASSUME NEW S \in SUBSET Producers, NEW T, NEW message \in [S -> T],
           NEW M, M = {message[p] : p \in S}
    PROVE  SetToSeq(M) \in Seq(T)
<1>1. message \in Surjection(S, M)
  BY DEF Surjection
<1>2. IsFiniteSet(M)
  BY <1>1, ProducersAreFinite, FS_Surjection
<1>3. SetToSeq(M) \in Seq(M) /\ M \subseteq T
  BY <1>2, SetToSeqType
<1> QED
  BY <1>3

\* Requests and messages that neither set a socket up nor close it.
PlainUp == {m \in ToServer : m.type \notin {"join", "close"}}
PlainDown == {m \in ToClient : m.type # "joined"}

LEMMA RequestsType ==
    ASSUME NEW S \in SUBSET Producers,
           NEW type \in {"pause", "resume", "closeProducer", "closeConsumer"}
    PROVE  Requests(type, S) \in Seq(PlainUp) /\ Requests(type, S) \in Seq(ToServer)
<1>1. PICK message : message = [p \in S |-> [type |-> type, producer |-> p]]
  OBVIOUS
<1>2. PICK M : M = {[type |-> type, producer |-> p] : p \in S}
  OBVIOUS
<1>3. \A p \in S : [type |-> type, producer |-> p] \in PlainUp
  BY DEF ToServer, PlainUp
<1>4. message \in [S -> PlainUp] /\ M = {message[p] : p \in S}
  BY <1>1, <1>2, <1>3
<1>5. SetToSeq(M) \in Seq(PlainUp)
  BY <1>4, MessagesType
<1>6. SetToSeq(M) \in Seq(ToServer)
  BY <1>5 DEF PlainUp
<1> QED
  BY <1>2, <1>5, <1>6 DEF Requests

LEMMA ClosingsType ==
    ASSUME NEW S \in SUBSET Producers
    PROVE  Closings(S) \in Seq(PlainDown) /\ Closings(S) \in Seq(ToClient)
<1>1. PICK message : message = [p \in S |-> [type |-> "closeProducer", producer |-> p]]
  OBVIOUS
<1>2. PICK M : M = {[type |-> "closeProducer", producer |-> p] : p \in S}
  OBVIOUS
<1>3. \A p \in S : [type |-> "closeProducer", producer |-> p] \in PlainDown
  BY DEF ToClient, PlainDown
<1>4. message \in [S -> PlainDown] /\ M = {message[p] : p \in S}
  BY <1>1, <1>2, <1>3
<1>5. SetToSeq(M) \in Seq(PlainDown)
  BY <1>4, MessagesType
<1>6. SetToSeq(M) \in Seq(ToClient)
  BY <1>5 DEF PlainDown
<1> QED
  BY <1>2, <1>5, <1>6 DEF Closings

-----------------------------------------------------------------------------
(* Types *)

ClientTypes ==
    /\ settings \in [Users -> [muted : BOOLEAN, deafened : BOOLEAN]]
    /\ store \in [Users -> Store]
    /\ calls \in [Users -> SUBSET Channels]
    /\ voice \in [Users -> Seq([type : {"join", "leave"}, channel : Channels])]
    /\ net \in [Sockets -> {"unused", "connecting", "open", "closed"}]
    /\ channelOf \in [Sockets -> Channels \cup {None}]
    /\ loading \subseteq Sockets
    /\ sending \in [Sockets -> Transport \cup {NoTransport}]
    /\ receiving \in [Sockets -> Room]

WireTypes == up \in [Sockets -> Seq(ToServer)] /\ down \in [Sockets -> Seq(ToClient)]

ServerTypes ==
    /\ rooms \in [Channels -> Room]
    /\ creating \subseteq Sockets
    /\ peers \subseteq Sockets
    /\ members \subseteq Sockets
    /\ listed \in [Sockets -> SUBSET Producers]
    /\ owned \in [Sockets -> SUBSET Producers]
    /\ served \in [Sockets -> SUBSET Producers]
    /\ running \in [Sockets -> SUBSET Producers]
    /\ paused \subseteq Producers
    /\ making \in [Producers -> Making \cup {None}]
    /\ consuming \subseteq Sockets \X Producers

HistoryTypes ==
    /\ clicks \in [Users -> Nat]
    /\ toggles \in [Users -> Nat]
    /\ hasty \subseteq Users
    /\ raced \subseteq Users
    /\ late \subseteq Producers

LEMMA TypeParts == TypeOK <=> ClientTypes /\ WireTypes /\ ServerTypes /\ HistoryTypes
BY DEF TypeOK, ClientTypes, WireTypes, ServerTypes, HistoryTypes

LEMMA ClientTypesKept ==
    ASSUME ClientTypes, UNCHANGED local
    PROVE  ClientTypes'
BY DEF ClientTypes, local, clientVars

LEMMA ServerTypesKept ==
    ASSUME ServerTypes, UNCHANGED serverVars
    PROVE  ServerTypes'
BY DEF ServerTypes, serverVars, seats, media, awaits

LEMMA HistoryTypesKept ==
    ASSUME HistoryTypes, UNCHANGED historyVars
    PROVE  HistoryTypes'
BY DEF HistoryTypes, historyVars

\* What the server takes from a socket, and what it sends.
LEMMA TakenType ==
    ASSUME WireTypes, NEW s \in Sockets, NEW type, Asked(s, type), Taken(s)
    PROVE  /\ up' \in [Sockets -> Seq(ToServer)]
           /\ Head(up[s]) \in ToServer /\ Head(up[s]).type = type
<1>1. up[s] \in Seq(ToServer) /\ up[s] # << >>
  BY DEF WireTypes, Asked
<1>2. Head(up[s]) \in ToServer /\ Tail(up[s]) \in Seq(ToServer)
  BY <1>1
<1> QED
  BY <1>2 DEF WireTypes, Taken, Asked

LEMMA ReplyType ==
    ASSUME WireTypes, NEW s \in Sockets, NEW messages \in Seq(ToClient)
    PROVE  Reply(s, messages) \in [Sockets -> Seq(ToClient)]
<1>1. down[s] \o messages \in Seq(ToClient) /\ down[s] \in Seq(ToClient)
  BY DEF WireTypes
<1> QED
  BY <1>1 DEF Reply, WireTypes

LEMMA BroadcastType ==
    ASSUME WireTypes, NEW s \in Sockets, NEW messages \in Seq(ToClient)
    PROVE  Broadcast(s, messages) \in [Sockets -> Seq(ToClient)]
<1>1. \A t \in Sockets : down[t] \o messages \in Seq(ToClient) /\ down[t] \in Seq(ToClient)
  BY DEF WireTypes
<1> QED
  BY <1>1 DEF Broadcast

\* What a client sends.
LEMMA SentType ==
    ASSUME WireTypes, NEW u \in Users, NEW messages \in Seq(ToServer)
    PROVE  Sent(u, messages) \in [Sockets -> Seq(ToServer)]
<1>1. \A s \in Sockets : up[s] \o messages \in Seq(ToServer) /\ up[s] \in Seq(ToServer)
  BY DEF WireTypes
<1> QED
  BY <1>1 DEF Sent

\* A socket that is in use was opened for a channel, and only such a socket is asked of,
\* makes a room, or is that of a client or of a transport.
SocketsInUse ==
    /\ \A s \in Sockets : net[s] = "unused" =>
          up[s] = << >> /\ s \notin creating /\ channelOf[s] = None
    /\ \A s \in Sockets : net[s] # "unused" => channelOf[s] \in Channels
    /\ \A u \in Users : store[u].socket # None => net[store[u].socket] # "unused"
    /\ \A u \in Users : store[u].send # None => sending[store[u].send].mic # "none"
    /\ \A s \in Sockets : sending[s].mic # "none" /\ sending[s].socket # None =>
          net[sending[s].socket] # "unused"

LEMMA RoomOfType ==
    ASSUME TypeOK, SocketsInUse, NEW s \in Sockets, up[s] # << >> \/ s \in creating
    PROVE  /\ channelOf[s] \in Channels /\ net[s] # "unused"
           /\ RoomOf(s) \in Room
           /\ RoomOf(s) # None => RoomOf(s) \in Sockets
<1>1. net[s] # "unused"
  BY DEF SocketsInUse
<1>2. channelOf[s] \in Channels
  BY <1>1 DEF SocketsInUse
<1>3. rooms[channelOf[s]] \in Room
  BY <1>2 DEF TypeOK
<1> QED
  BY <1>1, <1>2, <1>3 DEF RoomOf, Room

\* What sfu-service does keeps the types, ...
LEMMA SeatType ==
    ASSUME TypeOK, SocketsInUse, NEW s \in Sockets,
           \/ HandleJoinRoom(s) \/ RouterCreated(s) \/ HandleCreateTransport(s)
           \/ GetProducers(s) \/ HandleCloseClient(s) \/ Disconnected(s)
    PROVE  TypeOK'
<1>1. ClientTypes /\ WireTypes /\ ServerTypes /\ HistoryTypes
  BY TypeParts
<1>2. UNCHANGED <<local, historyVars>>
  BY DEF HandleJoinRoom, RouterCreated, HandleCreateTransport, GetProducers, HandleCloseClient,
         Disconnected
<1>3. ClientTypes' /\ HistoryTypes'
  BY <1>1, <1>2, ClientTypesKept, HistoryTypesKept
<1>4. ASSUME NEW message \in ToClient
      PROVE  Reply(s, <<message>>) \in [Sockets -> Seq(ToClient)]
  <2>1. <<message>> \in Seq(ToClient)
    OBVIOUS
  <2> QED
    BY <1>1, <2>1, ReplyType
<1>5. [type |-> "joined"] \in ToClient
  BY DEF ToClient
<1>6. down \in [Sockets -> Seq(ToClient)] /\ up \in [Sockets -> Seq(ToServer)]
  BY <1>1 DEF WireTypes
<1>7. CASE HandleJoinRoom(s)
  <2>1. WireTypes'
    BY <1>1, <1>4, <1>5, <1>6, <1>7, TakenType DEF HandleJoinRoom, WireTypes
  <2>2. ServerTypes'
    BY <1>1, <1>7 DEF HandleJoinRoom, ServerTypes, media, awaits
  <2> QED
    BY <1>3, <2>1, <2>2, TypeParts DEF TypeOK, ClientTypes, WireTypes, ServerTypes, HistoryTypes
<1>8. CASE RouterCreated(s)
  <2>1. WireTypes'
    BY <1>4, <1>5, <1>6, <1>8 DEF RouterCreated, WireTypes
  <2>2. ServerTypes'
    BY <1>1, <1>8 DEF RouterCreated, ServerTypes, media, awaits, Room
  <2> QED
    BY <1>3, <2>1, <2>2 DEF TypeOK, ClientTypes, WireTypes, ServerTypes, HistoryTypes
<1>9. CASE HandleCreateTransport(s)
  <2>1. PICK type \in {"send", "recv"} :
           /\ Asked(s, type) /\ Taken(s)
           /\ down' = IF InRoom(s) THEN Reply(s, <<[type |-> type, room |-> RoomOf(s)]>>) ELSE down
    BY <1>9 DEF HandleCreateTransport
  <2>2. InRoom(s) => [type |-> type, room |-> RoomOf(s)] \in ToClient
    BY <2>1, RoomOfType DEF InRoom, ToClient, Asked
  <2>3. WireTypes'
    BY <1>1, <1>4, <1>6, <2>1, <2>2, TakenType DEF WireTypes
  <2>4. ServerTypes'
    BY <1>1, <1>9, ServerTypesKept DEF HandleCreateTransport
  <2> QED
    BY <1>3, <2>3, <2>4 DEF TypeOK, ClientTypes, WireTypes, ServerTypes, HistoryTypes
<1>10. CASE GetProducers(s)
  <2>1. /\ Asked(s, "producers") /\ Taken(s)
        /\ down' = IF InRoom(s) THEN Reply(s, <<[type |-> "producers", producers |-> listed[RoomOf(s)]]>>) ELSE down
    BY <1>10 DEF GetProducers
  <2>2. InRoom(s) => listed[RoomOf(s)] \in SUBSET Producers
    BY <1>1, <2>1, RoomOfType DEF InRoom, Asked, ServerTypes
  <2>3. InRoom(s) => [type |-> "producers", producers |-> listed[RoomOf(s)]] \in ToClient
    BY <2>2 DEF ToClient
  <2>4. WireTypes'
    BY <1>1, <1>4, <1>6, <2>1, <2>3, TakenType DEF WireTypes
  <2>5. ServerTypes'
    BY <1>1, <1>10, ServerTypesKept DEF GetProducers
  <2> QED
    BY <1>3, <2>4, <2>5 DEF TypeOK, ClientTypes, WireTypes, ServerTypes, HistoryTypes
<1>11. CASE HandleCloseClient(s)
  <2>1. owned[s] \in SUBSET Producers
    BY <1>1 DEF ServerTypes
  <2>2. Broadcast(s, Closings(owned[s])) \in [Sockets -> Seq(ToClient)]
    BY <1>1, <2>1, ClosingsType, BroadcastType
  <2>3. WireTypes'
    <3>1. << >> \in Seq(ToServer)
      BY EmptySeq
    <3> QED
      BY <1>1, <1>6, <1>11, <2>2, <3>1, TakenType DEF HandleCloseClient, WireTypes
  <2>4. listed' \in [Sockets -> SUBSET Producers]
    BY <1>1, <1>11 DEF HandleCloseClient, ServerTypes, ListedOnceClosed
  <2>5. ServerTypes'
    BY <1>1, <1>11, <2>4 DEF HandleCloseClient, ServerTypes, awaits
  <2> QED
    BY <1>3, <2>3, <2>5 DEF TypeOK, ClientTypes, WireTypes, ServerTypes, HistoryTypes
<1>12. CASE Disconnected(s)
  <2>1. WireTypes'
    BY <1>1, <1>6, <1>12, TakenType DEF Disconnected, WireTypes
  <2>2. ServerTypes'
    BY <1>1, <1>12 DEF Disconnected, ServerTypes, media, awaits
  <2> QED
    BY <1>3, <2>1, <2>2 DEF TypeOK, ClientTypes, WireTypes, ServerTypes, HistoryTypes
<1> QED
  BY <1>7, <1>8, <1>9, <1>10, <1>11, <1>12

LEMMA MediaType ==
    ASSUME TypeOK, SocketsInUse, NEW s \in Sockets,
           \/ HandleProduce(s) \/ HandleConsume(s)
           \/ HandlePauseConsumer(s) \/ HandleResumeConsumer(s)
           \/ HandlePauseProducer(s) \/ HandleResumeProducer(s)
           \/ HandleCloseProducer(s) \/ HandleCloseConsumer(s)
    PROVE  TypeOK'
<1>1. ClientTypes /\ WireTypes /\ ServerTypes /\ HistoryTypes
  BY TypeParts
<1>2. UNCHANGED <<local, historyVars>>
  BY DEF HandleProduce, HandleConsume, HandlePauseConsumer, HandleResumeConsumer,
         HandlePauseProducer, HandleResumeProducer, HandleCloseProducer, HandleCloseConsumer
<1>3. ClientTypes' /\ HistoryTypes'
  BY <1>1, <1>2, ClientTypesKept, HistoryTypesKept
<1>4. down \in [Sockets -> Seq(ToClient)] /\ up \in [Sockets -> Seq(ToServer)]
  BY <1>1 DEF WireTypes
<1>5. PICK request : request = Head(up[s])
  OBVIOUS
<1>6. ASSUME WireTypes', ServerTypes'
      PROVE  TypeOK'
  BY <1>3, <1>6 DEF TypeOK, ClientTypes, WireTypes, ServerTypes, HistoryTypes
<1>7. ASSUME NEW type, Asked(s, type), Taken(s)
      PROVE  up' \in [Sockets -> Seq(ToServer)] /\ request \in ToServer /\ request.type = type
  BY <1>1, <1>5, <1>7, TakenType
<1>8. CASE HandleProduce(s)
  <2>1. /\ Asked(s, "produce") /\ Taken(s) /\ UNCHANGED <<down, seats, media, consuming>>
        /\ making' = IF InRoom(s) /\ request.room = RoomOf(s) /\ s \in peers
                     THEN [making EXCEPT ![request.producer] =
                               [room |-> request.room, paused |-> request.paused, socket |-> s]]
                     ELSE making
    BY <1>5, <1>8 DEF HandleProduce
  <2>2. /\ up' \in [Sockets -> Seq(ToServer)]
        /\ request.producer \in Producers /\ request.paused \in BOOLEAN
    BY <1>7, <2>1 DEF ToServer
  <2>3. InRoom(s) => RoomOf(s) \in Sockets
    BY <2>1, RoomOfType DEF InRoom, Asked
  <2>4. making' \in [Producers -> Making \cup {None}]
    BY <1>1, <2>1, <2>2, <2>3 DEF ServerTypes, Making
  <2>5. ServerTypes'
    BY <1>1, <2>1, <2>4 DEF ServerTypes, seats, media
  <2> QED
    BY <1>4, <1>6, <2>1, <2>2, <2>5 DEF WireTypes
<1>9. CASE HandleConsume(s)
  <2>1. /\ Asked(s, "consume") /\ Taken(s) /\ UNCHANGED <<down, seats, media, making>>
        /\ consuming' \in {consuming, consuming \cup {<<s, request.producer>>}}
    BY <1>5, <1>9 DEF HandleConsume
  <2>2. up' \in [Sockets -> Seq(ToServer)] /\ request.producer \in Producers
    BY <1>7, <2>1 DEF ToServer
  <2>3. ServerTypes'
    BY <1>1, <2>1, <2>2 DEF ServerTypes, seats, media
  <2> QED
    BY <1>4, <1>6, <2>1, <2>2, <2>3 DEF WireTypes
<1>10. CASE HandlePauseConsumer(s) \/ HandleResumeConsumer(s)
  <2>1. up' \in [Sockets -> Seq(ToServer)] /\ UNCHANGED down
    BY <1>7, <1>10 DEF HandlePauseConsumer, HandleResumeConsumer
  <2>2. ServerTypes'
    BY <1>1, <1>10 DEF HandlePauseConsumer, HandleResumeConsumer, ServerTypes, seats, awaits
  <2> QED
    BY <1>4, <1>6, <2>1, <2>2 DEF WireTypes
<1>11. CASE HandlePauseProducer(s) \/ HandleResumeProducer(s)
  <2>1. up' \in [Sockets -> Seq(ToServer)] /\ UNCHANGED down /\ request.producer \in Producers
    BY <1>7, <1>11 DEF HandlePauseProducer, HandleResumeProducer, ToServer
  <2>2. paused' \in {paused, paused \cup {request.producer}, paused \ {request.producer}}
    BY <1>5, <1>11 DEF HandlePauseProducer, HandleResumeProducer
  <2>3. ServerTypes'
    BY <1>1, <1>11, <2>1, <2>2 DEF HandlePauseProducer, HandleResumeProducer, ServerTypes, seats, awaits
  <2> QED
    BY <1>4, <1>6, <2>1, <2>3 DEF WireTypes
<1>12. CASE HandleCloseProducer(s)
  <2>1. PICK p : p = request.producer
    OBVIOUS
  <2>2. /\ Asked(s, "closeProducer") /\ Taken(s) /\ UNCHANGED <<seats, owned, paused, awaits>>
        /\ \/ /\ listed' = [listed EXCEPT ![RoomOf(s)] = @ \ {p}]
              /\ served' = [t \in Sockets |-> served[t] \ {p}]
              /\ running' = [t \in Sockets |-> running[t] \ {p}]
              /\ down' = Broadcast(s, <<[type |-> "closeProducer", producer |-> p]>>)
           \/ UNCHANGED <<listed, served, running, down>>
    BY <1>5, <1>12, <2>1 DEF HandleCloseProducer
  <2>3. up' \in [Sockets -> Seq(ToServer)] /\ p \in Producers
    BY <1>7, <2>1, <2>2 DEF ToServer
  <2>4. Broadcast(s, <<[type |-> "closeProducer", producer |-> p]>>) \in [Sockets -> Seq(ToClient)]
    <3>1. [type |-> "closeProducer", producer |-> p] \in ToClient
      BY <2>3 DEF ToClient
    <3>2. <<[type |-> "closeProducer", producer |-> p]>> \in Seq(ToClient)
      BY <3>1
    <3> QED
      BY <1>1, <3>2, BroadcastType
  <2>5. ServerTypes'
    BY <1>1, <2>2 DEF ServerTypes, seats, awaits
  <2> QED
    BY <1>4, <1>6, <2>2, <2>3, <2>4, <2>5 DEF WireTypes
<1>13. CASE HandleCloseConsumer(s)
  <2>1. up' \in [Sockets -> Seq(ToServer)] /\ UNCHANGED down
    BY <1>7, <1>13 DEF HandleCloseConsumer
  <2>2. ServerTypes'
    BY <1>1, <1>13 DEF HandleCloseConsumer, ServerTypes, seats, awaits
  <2> QED
    BY <1>4, <1>6, <2>1, <2>2 DEF WireTypes
<1> QED
  BY <1>8, <1>9, <1>10, <1>11, <1>12, <1>13

\* ... and so do the answers of mediasoup.
LEMMA MadeType ==
    ASSUME TypeOK, NEW p \in Producers,
           ProducerMade(p) \/ \E s \in Sockets : ConsumerMade(s, p)
    PROVE  TypeOK'
<1>1. ClientTypes /\ WireTypes /\ ServerTypes /\ HistoryTypes
  BY TypeParts
<1>2. UNCHANGED <<local, up>>
  BY DEF ProducerMade, ConsumerMade
<1>3. ClientTypes'
  BY <1>1, <1>2, ClientTypesKept
<1>4. /\ [type |-> "producerJoined", producer |-> p] \in ToClient
      /\ [type |-> "produced", producer |-> p] \in ToClient
      /\ [type |-> "consumer", producer |-> p] \in ToClient
  BY DEF ToClient
<1>5. CASE ProducerMade(p)
  <2>1. PICK s, room : s = making[p].socket /\ room = making[p].room
    OBVIOUS
  <2>2. s \in Sockets /\ room \in Sockets
    BY <1>1, <1>5, <2>1 DEF ProducerMade, ServerTypes, Making
  <2>3. PICK told, replied :
           /\ told = Broadcast(s, <<[type |-> "producerJoined", producer |-> p]>>)
           /\ replied = Reply(s, <<[type |-> "produced", producer |-> p]>>)
    OBVIOUS
  <2>4. told \in [Sockets -> Seq(ToClient)] /\ replied \in [Sockets -> Seq(ToClient)]
    <3>1. /\ <<[type |-> "producerJoined", producer |-> p]>> \in Seq(ToClient)
          /\ <<[type |-> "produced", producer |-> p]>> \in Seq(ToClient)
      BY <1>4
    <3> QED
      BY <1>1, <2>2, <2>3, <3>1, BroadcastType, ReplyType
  <2>5. down' = [told EXCEPT ![s] = replied[s]]
    BY <1>5, <2>1, <2>3 DEF ProducerMade
  <2>6. WireTypes'
    BY <1>1, <1>2, <2>2, <2>4, <2>5 DEF WireTypes
  <2>7. /\ making' = [making EXCEPT ![p] = None]
        /\ paused' \in {paused, paused \cup {p}}
        /\ listed' = [listed EXCEPT ![room] = @ \cup {p}]
        /\ owned' \in {owned, [owned EXCEPT ![s] = @ \cup {p}]}
        /\ late' \in {late, late \cup {p}}
        /\ UNCHANGED <<seats, served, running, consuming, clicks, toggles, hasty, raced>>
    <3>1. owned' = [owned EXCEPT ![s] = IF s \in peers THEN @ \cup {p} ELSE @]
      BY <1>5, <2>1 DEF ProducerMade
    <3>2. owned' \in {owned, [owned EXCEPT ![s] = @ \cup {p}]}
      BY <1>1, <3>1 DEF ServerTypes
    <3> QED
      BY <1>5, <2>1, <3>2 DEF ProducerMade, PausedOnceMade, awaits
  <2>8. listed' \in [Sockets -> SUBSET Producers] /\ owned' \in [Sockets -> SUBSET Producers]
    BY <1>1, <2>2, <2>7 DEF ServerTypes
  <2>9. making' \in [Producers -> Making \cup {None}]
    BY <1>1, <2>7 DEF ServerTypes
  <2>10. ServerTypes'
    BY <1>1, <2>7, <2>8, <2>9 DEF ServerTypes, seats
  <2>11. HistoryTypes'
    BY <1>1, <2>7 DEF HistoryTypes
  <2> QED
    BY <1>3, <2>6, <2>10, <2>11 DEF TypeOK, ClientTypes, WireTypes, ServerTypes, HistoryTypes
<1>6. ASSUME NEW s \in Sockets, ConsumerMade(s, p)
      PROVE  TypeOK'
  <2>1. Reply(s, <<[type |-> "consumer", producer |-> p]>>) \in [Sockets -> Seq(ToClient)]
    <3>1. <<[type |-> "consumer", producer |-> p]>> \in Seq(ToClient)
      BY <1>4
    <3> QED
      BY <1>1, <3>1, ReplyType
  <2>2. WireTypes'
    BY <1>1, <1>2, <1>6, <2>1 DEF ConsumerMade, WireTypes
  <2>3. served' \in [Sockets -> SUBSET Producers] /\ running' \in [Sockets -> SUBSET Producers]
    BY <1>1, <1>6 DEF ConsumerMade, ServerTypes
  <2>4. ServerTypes'
    BY <1>1, <1>6, <2>3 DEF ConsumerMade, ServerTypes, seats
  <2>5. HistoryTypes'
    BY <1>1, <1>6, HistoryTypesKept DEF ConsumerMade
  <2> QED
    BY <1>3, <2>2, <2>4, <2>5 DEF TypeOK, ClientTypes, WireTypes, ServerTypes, HistoryTypes
<1> QED
  BY <1>5, <1>6

\* A user acts: clicks on the buttons of a call, ...
LEMMA ClickType ==
    ASSUME TypeOK, NEW u \in Users,
           \/ \E c \in Channels : JoinCall(u, c) \/ JoinChannel(u, c) \/ LeaveCall(u, c)
           \/ HangUp(u)
    PROVE  TypeOK'
<1>1. ClientTypes /\ WireTypes /\ ServerTypes /\ HistoryTypes
  BY TypeParts
<1>2. store[u] \in Store
  BY <1>1 DEF ClientTypes
<1>3. store[u].channel # None => store[u].channel \in Channels
  BY <1>2 DEF Store
<1>4. PICK type \in {"join", "leave"}, c \in Channels \cup {None} :
         c \in Channels /\ Click(u, type, c)
  BY <1>3 DEF JoinCall, JoinChannel, LeaveCall, HangUp
<1>5. PICK Events, event :
         /\ Events = [type : {"join", "leave"}, channel : Channels]
         /\ event = [type |-> type, channel |-> c]
  OBVIOUS
<1>6. voice' \in [Users -> Seq(Events)]
  <2>1. event \in Events /\ voice \in [Users -> Seq(Events)]
    BY <1>1, <1>4, <1>5 DEF ClientTypes
  <2>2. Append(voice[u], event) \in Seq(Events)
    BY <2>1
  <2>3. voice' = [voice EXCEPT ![u] = Append(voice[u], event)]
    BY <1>4, <1>5 DEF Click
  <2> QED
    BY <2>1, <2>2, <2>3
<1>7. ClientTypes' /\ WireTypes' /\ HistoryTypes'
  <2>1. ClientTypes'
    BY <1>1, <1>4, <1>5, <1>6 DEF Click, ClientTypes
  <2>2. clicks' \in [Users -> Nat]
    BY <1>1, <1>4 DEF Click, HistoryTypes
  <2> QED
    BY <1>1, <1>4, <2>1, <2>2 DEF Click, WireTypes, HistoryTypes
<1>8. ServerTypes'
  BY <1>1, <1>4, ServerTypesKept DEF Click
<1> QED
  BY <1>7, <1>8 DEF TypeOK, ClientTypes, WireTypes, ServerTypes, HistoryTypes

\* ... mutes, deafens and undoes it, and shares the screen.
LEMMA SettingType ==
    ASSUME TypeOK, NEW u \in Users,
           SetMuted(u) \/ SetDeafened(u)
    PROVE  TypeOK'
<1>1. ClientTypes /\ WireTypes /\ ServerTypes /\ HistoryTypes
  BY TypeParts
<1>2. PICK st : st = store[u] /\ st \in Store
  BY <1>1 DEF ClientTypes
<1>3. settings[u] \in [muted : BOOLEAN, deafened : BOOLEAN]
  BY <1>1 DEF ClientTypes
<1>4. UNCHANGED <<calls, voice, net, channelOf, loading, sending, receiving, down, serverVars, clicks, hasty, late>>
  BY DEF SetMuted, SetDeafened
<1>5. ServerTypes'
  BY <1>1, <1>4, ServerTypesKept
<1>6. toggles' = [toggles EXCEPT ![u] = @ + 1]
  BY DEF SetMuted, SetDeafened
<1>7. /\ [type |-> "resumeConsumers"] \in ToServer
      /\ [type |-> "pauseConsumers"] \in ToServer
  BY DEF ToServer
<1>8. CASE SetMuted(u)
  <2>1. PICK heads, tails : /\ heads = FollowsMuted(u, ~settings[u].muted)
                            /\ tails = IF Undeafens(u) THEN <<[type |-> "resumeConsumers"]>> ELSE << >>
    OBVIOUS
  <2>2. Microphones(u) \in SUBSET Producers
    BY <1>2 DEF Microphones, Store
  <2>3. Requests("pause", Microphones(u)) \in Seq(ToServer) /\ Requests("resume", Microphones(u)) \in Seq(ToServer)
    BY <2>2, RequestsType
  <2>4. heads \in Seq(ToServer)
    BY <2>1, <2>3 DEF FollowsMuted
  <2>5. tails \in Seq(ToServer)
    BY <1>7, <2>1
  <2>6. heads \o tails \in Seq(ToServer)
    BY <2>4, <2>5
  <2>7. up' = Sent(u, heads \o tails)
    BY <1>8, <2>1 DEF SetMuted
  <2>8. WireTypes'
    BY <1>1, <1>4, <2>6, <2>7, SentType DEF WireTypes
  <2>9. store' = [store EXCEPT ![u] = [st EXCEPT !.silenced = IF Undeafens(u) THEN {} ELSE @]]
    BY <1>2, <1>8 DEF SetMuted
  <2>10. [st EXCEPT !.silenced = IF Undeafens(u) THEN {} ELSE @] \in Store
    BY <1>2 DEF Store
  <2>11. settings' \in [Users -> [muted : BOOLEAN, deafened : BOOLEAN]]
    BY <1>1, <1>3, <1>8 DEF SetMuted, ClientTypes
  <2>12. ClientTypes'
    BY <1>1, <1>4, <2>9, <2>10, <2>11 DEF ClientTypes
  <2>13. HistoryTypes'
    BY <1>1, <1>4, <1>6, <1>8 DEF HistoryTypes, SetMuted, Raced
  <2> QED
    BY <1>5, <2>8, <2>12, <2>13 DEF TypeOK, ClientTypes, WireTypes, ServerTypes, HistoryTypes
<1>9. CASE SetDeafened(u)
  <2>1. PICK message : message = [type |-> IF ~settings[u].deafened THEN "pauseConsumers" ELSE "resumeConsumers"]
    OBVIOUS
  <2>2. message \in ToServer
    BY <1>7, <2>1
  <2>3. <<message>> \in Seq(ToServer)
    BY <2>2
  <2>4. up' = Sent(u, <<message>>)
    BY <1>9, <2>1 DEF SetDeafened
  <2>5. WireTypes'
    BY <1>1, <1>4, <2>3, <2>4, SentType DEF WireTypes
  <2>6. PICK silent : silent = IF ~settings[u].deafened THEN {p \in Held(u) : IsAudio(p)} ELSE {}
    OBVIOUS
  <2>7. silent \in SUBSET Producers
    BY <2>6 DEF Held
  <2>8. store' = [store EXCEPT ![u] = [st EXCEPT !.silenced = silent]]
    BY <1>2, <1>9, <2>6 DEF SetDeafened
  <2>9. [st EXCEPT !.silenced = silent] \in Store
    BY <1>2, <2>7 DEF Store
  <2>10. settings' \in [Users -> [muted : BOOLEAN, deafened : BOOLEAN]]
    BY <1>1, <1>3, <1>9 DEF SetDeafened, ClientTypes
  <2>11. ClientTypes'
    BY <1>1, <1>4, <2>8, <2>9, <2>10 DEF ClientTypes
  <2>12. HistoryTypes'
    BY <1>1, <1>4, <1>6, <1>9 DEF HistoryTypes, SetDeafened
  <2> QED
    BY <1>5, <2>5, <2>11, <2>12 DEF TypeOK, ClientTypes, WireTypes, ServerTypes, HistoryTypes
<1> QED
  BY <1>8, <1>9

\* A transport sends its request to produce on the socket it was made for.
LEMMA ProduceType ==
    ASSUME TypeOK, NEW t \in Sockets, sending[t].mic # "none", NEW p \in Producers, NEW muted \in BOOLEAN,
           NEW k, k = sending[t].socket, k # None,
           NEW message, message = [type |-> "produce", producer |-> p, paused |-> muted, room |-> sending[t].room]
    PROVE  [up EXCEPT ![k] = Append(@, message)] \in [Sockets -> Seq(ToServer)]
<1>1. sending[t] \in Transport
  BY DEF TypeOK, NoTransport
<1>2. k \in Sockets /\ sending[t].room \in Sockets
  BY <1>1 DEF Transport, Room
<1>3. message \in ToServer
  BY <1>2 DEF ToServer, Room
<1>4. Append(up[k], message) \in Seq(ToServer)
  BY <1>2, <1>3 DEF TypeOK
<1> QED
  BY <1>2, <1>4 DEF TypeOK

LEMMA ScreenType ==
    ASSUME TypeOK, SocketsInUse, NEW u \in Users,
           StartScreenShare(u) \/ StopScreenShare(u)
    PROVE  TypeOK'
<1>1. ClientTypes /\ WireTypes /\ ServerTypes /\ HistoryTypes
  BY TypeParts
<1>2. PICK st : st = store[u] /\ st \in Store
  BY <1>1 DEF ClientTypes
<1>3. UNCHANGED <<settings, calls, voice, net, channelOf, loading, receiving, down, serverVars, historyVars>>
  BY DEF StartScreenShare, StopScreenShare, clientVars
<1>4. ServerTypes' /\ HistoryTypes'
  BY <1>1, <1>3, ServerTypesKept, HistoryTypesKept
<1>5. CASE StartScreenShare(u)
  <2>1. PICK t : t = st.send
    OBVIOUS
  <2>2. t \in Sockets /\ sending[t].mic # "none"
    BY <1>2, <1>5, <2>1 DEF StartScreenShare, Store, Room, SocketsInUse
  <2>3. sending[t] \in Transport
    BY <1>1, <2>2 DEF ClientTypes, NoTransport
  <2>4. PICK k, p, message :
           /\ k = sending[t].socket /\ p = <<t, "screen">>
           /\ message = [type |-> "produce", producer |-> p, paused |-> FALSE, room |-> sending[t].room]
    OBVIOUS
  <2>5. up' \in {up, [up EXCEPT ![k] = Append(@, message)]} /\ (k = None => up' = up)
    BY <1>2, <1>5, <2>1, <2>4 DEF StartScreenShare
  <2>6. p \in Producers
    BY <2>2, <2>4 DEF Producers, Kinds
  <2>7. up' \in [Sockets -> Seq(ToServer)]
    <3>1. k # None => [up EXCEPT ![k] = Append(@, message)] \in [Sockets -> Seq(ToServer)]
      BY <2>2, <2>4, <2>6, ProduceType
    <3> QED
      BY <1>1, <2>5, <3>1 DEF WireTypes
  <2>8. WireTypes'
    BY <1>1, <1>3, <2>7 DEF WireTypes
  <2>9. sending' = [sending EXCEPT ![t] = [sending[t] EXCEPT !.share = TRUE]] /\ UNCHANGED store
    BY <1>2, <1>5, <2>1 DEF StartScreenShare, clientVars
  <2>10. [sending[t] EXCEPT !.share = TRUE] \in Transport
    BY <2>3 DEF Transport
  <2>11. ClientTypes'
    BY <1>1, <1>3, <2>9, <2>10 DEF ClientTypes
  <2> QED
    BY <1>4, <2>8, <2>11 DEF TypeOK, ClientTypes, WireTypes, ServerTypes, HistoryTypes
<1>6. CASE StopScreenShare(u)
  <2>1. PICK p \in ScreenOf(u) :
           /\ up' = Sent(u, Requests("closeProducer", {p}))
           /\ store' = [store EXCEPT ![u].producers = @ \ {p}]
    BY <1>6 DEF StopScreenShare
  <2>2. {p} \in SUBSET Producers
    BY <1>2, <2>1 DEF ScreenOf, Store
  <2>3. Requests("closeProducer", {p}) \in Seq(ToServer)
    BY <2>2, RequestsType
  <2>4. WireTypes'
    BY <1>1, <1>3, <2>1, <2>3, SentType DEF WireTypes
  <2>5. store' = [store EXCEPT ![u] = [st EXCEPT !.producers = @ \ {p}]]
    BY <1>2, <2>1
  <2>6. [st EXCEPT !.producers = @ \ {p}] \in Store
    BY <1>2 DEF Store
  <2>7. ClientTypes'
    BY <1>1, <1>3, <1>6, <2>5, <2>6 DEF ClientTypes, StopScreenShare
  <2> QED
    BY <1>4, <2>4, <2>7 DEF TypeOK, ClientTypes, WireTypes, ServerTypes, HistoryTypes
<1> QED
  BY <1>5, <1>6

\* What a client takes from a socket.
LEMMA HeardType ==
    ASSUME WireTypes, NEW s \in Sockets, NEW type, Told(s, type), Heard(s)
    PROVE  /\ down' \in [Sockets -> Seq(ToClient)]
           /\ Head(down[s]) \in ToClient /\ Head(down[s]).type = type
<1>1. down[s] \in Seq(ToClient) /\ down[s] # << >>
  BY DEF WireTypes, Told
<1>2. Head(down[s]) \in ToClient /\ Tail(down[s]) \in Seq(ToClient)
  BY <1>1
<1> QED
  BY <1>2 DEF WireTypes, Heard, Told

LEMMA UserOfType ==
    ASSUME NEW s \in Sockets
    PROVE  UserOf(s) \in Users
BY DEF Sockets, UserOf

\* A request to consume each of a set of producers.
LEMMA ConsumptionsType ==
    ASSUME TypeOK, NEW u \in Users, NEW S \in SUBSET Producers
    PROVE  Consumptions(u, S) \in Seq(PlainUp) /\ Consumptions(u, S) \in Seq(ToServer)
<1>1. PICK room : room = receiving[store[u].recv]
  OBVIOUS
<1>2. PICK of : of = {q \in S : OwnerOf(q) # u}
  OBVIOUS
<1>3. PICK message : message = [p \in of |-> [type |-> "consume", producer |-> p, room |-> room]]
  OBVIOUS
<1>4. PICK M : M = {[type |-> "consume", producer |-> p, room |-> room] : p \in of}
  OBVIOUS
<1>5. CASE CanConsume(u)
  <2>1. store[u] \in Store
    BY DEF TypeOK
  <2>2. store[u].recv \in Sockets
    BY <1>5, <2>1 DEF CanConsume, Store, Room
  <2>3. room \in Room
    BY <1>1, <2>2 DEF TypeOK
  <2>4. \A p \in of : [type |-> "consume", producer |-> p, room |-> room] \in PlainUp
    BY <1>2, <2>3 DEF ToServer, PlainUp
  <2>5. of \in SUBSET Producers
    BY <1>2
  <2>6. message \in [of -> PlainUp] /\ M = {message[p] : p \in of}
    BY <1>3, <1>4, <2>4
  <2>7. SetToSeq(M) \in Seq(PlainUp)
    BY <2>5, <2>6, MessagesType
  <2>8. SetToSeq(M) \in Seq(ToServer)
    BY <2>7 DEF PlainUp
  <2> QED
    BY <1>1, <1>2, <1>4, <1>5, <2>7, <2>8 DEF Consumptions
<1>6. CASE ~CanConsume(u)
  <2>1. << >> \in Seq(ToServer) /\ << >> \in Seq(PlainUp)
    BY EmptySeq
  <2> QED
    BY <1>6, <2>1 DEF Consumptions
<1> QED
  BY <1>5, <1>6

\* The requests with which a client takes its leave.
LEMMA FarewellType ==
    ASSUME TypeOK, NEW u \in Users
    PROVE  Farewell(u) \in Seq(ToServer)
<1>1. PICK close, bye : close = [type |-> "close"] /\ bye = [type |-> "bye"]
  OBVIOUS
<1>2. close \in ToServer /\ bye \in ToServer
  BY <1>1 DEF ToServer
<1>3. <<close>> \in Seq(ToServer) /\ <<bye>> \in Seq(ToServer)
  BY <1>2
<1>4. PICK screens : screens = IF ScreenOf(u) = {} THEN << >>
                               ELSE Requests("closeProducer", {CHOOSE p \in ScreenOf(u) : TRUE})
  OBVIOUS
<1>5. screens \in Seq(ToServer)
  <2>1. store[u] \in Store
    BY DEF TypeOK
  <2>2. ScreenOf(u) \in SUBSET Producers
    BY <2>1 DEF ScreenOf, Store
  <2>3. CASE ScreenOf(u) = {}
    BY <1>4, <2>3, EmptySeq
  <2>4. CASE ScreenOf(u) # {}
    <3>1. {CHOOSE p \in ScreenOf(u) : TRUE} \in SUBSET Producers
      BY <2>2, <2>4
    <3>2. Requests("closeProducer", {CHOOSE p \in ScreenOf(u) : TRUE}) \in Seq(ToServer)
      BY <3>1, RequestsType
    <3> QED
      BY <1>4, <2>4, <3>2
  <2> QED
    BY <2>3, <2>4
<1>6. Farewell(u) = (<<close>> \o screens) \o <<bye>>
  BY <1>1, <1>4 DEF Farewell
<1>7. <<close>> \o screens \in Seq(ToServer)
  BY <1>3, <1>5
<1> QED
  BY <1>3, <1>6, <1>7

\* A client that closes its socket.
LEMMA SwapType ==
    ASSUME TypeOK, SocketsInUse, NEW u \in Users, NEW closes \in BOOLEAN, NEW new, SwapSocket(u, closes, new)
    PROVE  /\ net' \in [Sockets -> {"unused", "connecting", "open", "closed"}]
           /\ up' \in [Sockets -> Seq(ToServer)] /\ down' \in [Sockets -> Seq(ToClient)]
           /\ sending' \in [Sockets -> Transport \cup {NoTransport}]
<1>1. PICK st, farewell : st = store[u] /\ farewell = Farewell(u)
  OBVIOUS
<1>2. farewell \in Seq(ToServer) /\ st \in Store
  BY <1>1, FarewellType DEF TypeOK
<1>3. /\ net' = [s \in Sockets |-> IF closes /\ s = st.socket THEN "closed"
                                   ELSE IF s \in new THEN "connecting" ELSE net[s]]
      /\ up' = [s \in Sockets |-> IF ~(closes /\ s = st.socket) THEN up[s]
                                  ELSE IF Reaches(s) THEN up[s] \o farewell ELSE << >>]
      /\ down' = [s \in Sockets |-> IF closes /\ s = st.socket THEN << >> ELSE down[s]]
      /\ sending' = [s \in Sockets |-> IF closes /\ s = st.send
                                       THEN [sending[s] EXCEPT !.mic = "closed"] ELSE sending[s]]
  BY <1>1 DEF SwapSocket
<1>4. net' \in [Sockets -> {"unused", "connecting", "open", "closed"}]
  BY <1>3 DEF TypeOK
<1>5. << >> \in Seq(ToServer) /\ << >> \in Seq(ToClient)
  BY EmptySeq
<1>6. up' \in [Sockets -> Seq(ToServer)]
  <2>1. \A s \in Sockets : up[s] \in Seq(ToServer) /\ up[s] \o farewell \in Seq(ToServer)
    BY <1>2 DEF TypeOK
  <2> QED
    BY <1>3, <1>5, <2>1
<1>7. down' \in [Sockets -> Seq(ToClient)]
  BY <1>3, <1>5 DEF TypeOK
<1>8. sending' \in [Sockets -> Transport \cup {NoTransport}]
  <2>1. ASSUME NEW s \in Sockets, s = st.send
        PROVE  [sending[s] EXCEPT !.mic = "closed"] \in Transport
    <3>1. s # None
      BY MediaAssumption DEF Sockets
    <3>2. sending[s].mic # "none"
      BY <1>1, <2>1, <3>1 DEF SocketsInUse
    <3>3. sending[s] \in Transport
      BY <3>2 DEF TypeOK, NoTransport
    <3> QED
      BY <3>3 DEF Transport
  <2>2. \A s \in Sockets : sending[s] \in Transport \cup {NoTransport}
    BY DEF TypeOK
  <2> QED
    BY <1>3, <2>1, <2>2
<1> QED
  BY <1>4, <1>6, <1>7, <1>8

LEMMA VoiceType ==
    ASSUME TypeOK, SocketsInUse, NEW u \in Users, OnVoiceJoin(u) \/ OnVoiceLeave(u)
    PROVE  TypeOK'
<1>1. ClientTypes /\ WireTypes /\ ServerTypes /\ HistoryTypes
  BY TypeParts
<1>2. PICK st : st = store[u] /\ st \in Store
  BY <1>1 DEF ClientTypes
<1>3. UNCHANGED <<settings, loading, receiving, serverVars, clicks, toggles, raced, late>>
  BY DEF OnVoiceJoin, OnVoiceLeave
<1>4. ServerTypes' /\ HistoryTypes'
  <2>1. hasty' \subseteq Users
    BY <1>1 DEF HistoryTypes, OnVoiceJoin, OnVoiceLeave, Hasty
  <2> QED
    BY <1>1, <1>3, <2>1, ServerTypesKept DEF HistoryTypes
<1>5. PICK Events, event, rest :
         /\ Events = [type : {"join", "leave"}, channel : Channels]
         /\ event = Head(voice[u]) /\ rest = Tail(voice[u])
  OBVIOUS
<1>6. voice \in [Users -> Seq(Events)] /\ voice[u] \in Seq(Events) /\ voice[u] # << >>
  BY <1>1, <1>5 DEF ClientTypes, OnVoiceJoin, OnVoiceLeave
<1>7. event \in Events /\ rest \in Seq(Events)
  <2>1. PICK S, events : S = Events /\ events = voice[u] /\ events \in Seq(S) /\ events # << >>
    BY <1>6
  <2>2. Head(events) \in S /\ Tail(events) \in Seq(S)
    BY <2>1
  <2> QED
    BY <1>5, <2>1, <2>2
<1>8. event.channel \in Channels
  BY <1>5, <1>7
<1>9. NoStore \in Store
  BY DEF NoStore, Store, Room
<1>10. CASE OnVoiceJoin(u)
  <2>1. PICK switches, c : switches = (st.channel \notin {None, c}) /\ c = event.channel
    OBVIOUS
  <2>2. PICK s \in SocketsOf(u) :
           /\ SwapSocket(u, switches, {s})
           /\ channelOf' = [channelOf EXCEPT ![s] = c]
           /\ store' = [store EXCEPT ![u] = [(IF switches THEN NoStore ELSE st) EXCEPT !.socket = s]]
    BY <1>2, <1>5, <1>10, <2>1 DEF OnVoiceJoin
  <2>3. s \in Sockets /\ switches \in BOOLEAN
    BY <2>1 DEF SocketsOf, Sockets
  <2>4. /\ net' \in [Sockets -> {"unused", "connecting", "open", "closed"}]
        /\ up' \in [Sockets -> Seq(ToServer)] /\ down' \in [Sockets -> Seq(ToClient)]
        /\ sending' \in [Sockets -> Transport \cup {NoTransport}]
    BY <2>2, <2>3, SwapType
  <2>5. [(IF switches THEN NoStore ELSE st) EXCEPT !.socket = s] \in Store
    BY <1>2, <1>9, <2>3 DEF Store, Room
  <2>6. store' \in [Users -> Store] /\ channelOf' \in [Sockets -> Channels \cup {None}]
    BY <1>1, <1>8, <2>1, <2>2, <2>5 DEF ClientTypes
  <2>7. voice' \in [Users -> Seq(Events)]
    <3>1. PICK leave : leave = [type |-> "leave", channel |-> st.channel]
      OBVIOUS
    <3>2. PICK after : after = IF switches THEN <<leave>> ELSE << >>
      OBVIOUS
    <3>3. switches => leave \in Events
      BY <1>2, <1>5, <2>1, <3>1 DEF Store
    <3>4. after \in Seq(Events)
      BY <3>2, <3>3
    <3>5. rest \o after \in Seq(Events)
      BY <1>7, <3>4
    <3>6. voice' = [voice EXCEPT ![u] = rest \o after]
      BY <1>2, <1>5, <1>10, <2>1, <3>1, <3>2 DEF OnVoiceJoin
    <3> QED
      BY <1>6, <3>5, <3>6
  <2>8. calls' \in [Users -> SUBSET Channels]
    BY <1>1, <1>5, <1>8, <1>10 DEF ClientTypes, OnVoiceJoin
  <2>9. ClientTypes'
    BY <1>1, <1>3, <1>5, <2>4, <2>6, <2>7, <2>8 DEF ClientTypes
  <2> QED
    BY <1>4, <2>4, <2>9 DEF TypeOK, ClientTypes, WireTypes, ServerTypes, HistoryTypes
<1>11. CASE OnVoiceLeave(u)
  <2>1. PICK closes : closes = ClosesOnLeave(u)
    OBVIOUS
  <2>2. closes \in BOOLEAN
    BY <2>1 DEF ClosesOnLeave
  <2>3. SwapSocket(u, closes, {})
    BY <1>11, <2>1 DEF OnVoiceLeave
  <2>4. /\ net' \in [Sockets -> {"unused", "connecting", "open", "closed"}]
        /\ up' \in [Sockets -> Seq(ToServer)] /\ down' \in [Sockets -> Seq(ToClient)]
        /\ sending' \in [Sockets -> Transport \cup {NoTransport}]
    BY <2>2, <2>3, SwapType
  <2>5. store' = [store EXCEPT ![u] = IF closes THEN NoStore ELSE @] /\ UNCHANGED channelOf
    BY <1>11, <2>1 DEF OnVoiceLeave
  <2>6. store' \in [Users -> Store]
    BY <1>1, <1>9, <2>5 DEF ClientTypes
  <2>7. voice' \in [Users -> Seq(Events)]
    BY <1>5, <1>6, <1>7, <1>11 DEF OnVoiceLeave
  <2>8. calls' \in [Users -> SUBSET Channels]
    BY <1>1, <1>11 DEF ClientTypes, OnVoiceLeave
  <2>9. ClientTypes'
    BY <1>1, <1>3, <1>5, <2>4, <2>5, <2>6, <2>7, <2>8 DEF ClientTypes
  <2> QED
    BY <1>4, <2>4, <2>9 DEF TypeOK, ClientTypes, WireTypes, ServerTypes, HistoryTypes
<1> QED
  BY <1>10, <1>11

\* The client sets up its socket: connected, joined, its device loaded, its transports made.
LEMMA SetUpType ==
    ASSUME TypeOK, SocketsInUse, NEW s \in Sockets,
           \/ Connect(s) \/ OnRoomJoined(s) \/ DeviceLoaded(s)
           \/ OnCreateSendTransport(s) \/ OnCreateRecvTransport(s)
    PROVE  TypeOK'
<1>1. ClientTypes /\ WireTypes /\ ServerTypes /\ HistoryTypes
  BY TypeParts
<1>2. PICK u : u = UserOf(s) /\ u \in Users
  BY UserOfType
<1>3. PICK st : st = store[u] /\ st \in Store
  BY <1>1, <1>2 DEF ClientTypes
<1>4. UNCHANGED <<settings, calls, voice, channelOf, serverVars, historyVars>>
  BY DEF Connect, OnRoomJoined, DeviceLoaded, OnCreateSendTransport, OnCreateRecvTransport, clientVars
<1>5. ServerTypes' /\ HistoryTypes'
  BY <1>1, <1>4, ServerTypesKept, HistoryTypesKept
<1>6. ASSUME ClientTypes', WireTypes'
      PROVE  TypeOK'
  BY <1>5, <1>6 DEF TypeOK, ClientTypes, WireTypes, ServerTypes, HistoryTypes
<1>7. up[s] \in Seq(ToServer)
  BY <1>1 DEF WireTypes
<1>8. CASE Connect(s)
  <2>1. PICK join : join = [type |-> "join"]
    OBVIOUS
  <2>2. join \in ToServer
    BY <2>1 DEF ToServer
  <2>3. Append(up[s], join) \in Seq(ToServer)
    BY <1>7, <2>2
  <2>4. up' = [up EXCEPT ![s] = Append(up[s], join)] /\ UNCHANGED down
    BY <1>8, <2>1 DEF Connect
  <2>5. WireTypes'
    BY <1>1, <2>3, <2>4 DEF WireTypes
  <2>6. ClientTypes'
    BY <1>1, <1>8 DEF Connect, ClientTypes, clientVars
  <2> QED
    BY <1>6, <2>5, <2>6
<1>9. CASE OnRoomJoined(s)
  <2>1. WireTypes'
    BY <1>1, <1>9, HeardType DEF OnRoomJoined, WireTypes
  <2>2. ClientTypes'
    BY <1>1, <1>9 DEF OnRoomJoined, ClientTypes, clientVars
  <2> QED
    BY <1>6, <2>1, <2>2
<1>10. CASE DeviceLoaded(s)
  <2>1. PICK send, recv : send = [type |-> "send"] /\ recv = [type |-> "recv"]
    OBVIOUS
  <2>2. send \in ToServer /\ recv \in ToServer
    BY <2>1 DEF ToServer
  <2>3. <<send, recv>> \in Seq(ToServer)
    BY <2>2
  <2>4. up[s] \o <<send, recv>> \in Seq(ToServer)
    BY <1>7, <2>3
  <2>5. up' \in {up, [up EXCEPT ![s] = up[s] \o <<send, recv>>]} /\ UNCHANGED down
    BY <1>10, <2>1 DEF DeviceLoaded
  <2>6. WireTypes'
    BY <1>1, <2>4, <2>5 DEF WireTypes
  <2>7. store' = [store EXCEPT ![u] = [st EXCEPT !.device = TRUE, !.channel = channelOf[s]]]
    BY <1>2, <1>3, <1>10 DEF DeviceLoaded
  <2>8. [st EXCEPT !.device = TRUE, !.channel = channelOf[s]] \in Store
    BY <1>1, <1>3 DEF Store, ClientTypes
  <2>9. ClientTypes'
    BY <1>1, <1>10, <2>7, <2>8 DEF DeviceLoaded, ClientTypes
  <2> QED
    BY <1>6, <2>6, <2>9
<1>11. CASE OnCreateSendTransport(s)
  <2>1. /\ down' \in [Sockets -> Seq(ToClient)]
        /\ Head(down[s]) \in ToClient /\ Head(down[s]).type = "send"
    BY <1>1, <1>11, HeardType DEF OnCreateSendTransport
  <2>2. Head(down[s]).room \in Sockets
    BY <2>1 DEF ToClient
  <2>3. PICK t : t = [mic |-> "asked", room |-> Head(down[s]).room, share |-> FALSE,
                      socket |-> st.socket, muted |-> settings[u].muted]
    OBVIOUS
  <2>4. t \in Transport
    BY <1>1, <1>2, <1>3, <2>2, <2>3 DEF Transport, ClientTypes, Store
  <2>5. /\ sending' \in {sending, [sending EXCEPT ![s] = t]}
        /\ store' \in {store, [store EXCEPT ![u] = [st EXCEPT !.send = s]]}
        /\ UNCHANGED <<net, loading, receiving, up>>
    BY <1>2, <1>3, <1>11, <2>3 DEF OnCreateSendTransport
  <2>6. [st EXCEPT !.send = s] \in Store
    BY <1>3 DEF Store, Room
  <2>7. ClientTypes'
    BY <1>1, <1>4, <2>4, <2>5, <2>6 DEF ClientTypes
  <2>8. WireTypes'
    BY <1>1, <2>1, <2>5 DEF WireTypes
  <2> QED
    BY <1>6, <2>7, <2>8
<1>12. CASE OnCreateRecvTransport(s)
  <2>1. /\ down' \in [Sockets -> Seq(ToClient)]
        /\ Head(down[s]) \in ToClient /\ Head(down[s]).type = "recv"
    BY <1>1, <1>12, HeardType DEF OnCreateRecvTransport
  <2>2. PICK room : room = Head(down[s]).room
    OBVIOUS
  <2>3. room \in Room
    BY <2>1, <2>2 DEF ToClient, Room
  <2>4. PICK message : message = [type |-> "producers"]
    OBVIOUS
  <2>5. message \in ToServer
    BY <2>4 DEF ToServer
  <2>6. <<message>> \in Seq(ToServer)
    BY <2>5
  <2>7. Sent(u, <<message>>) \in [Sockets -> Seq(ToServer)]
    BY <1>1, <1>2, <2>6, SentType
  <2>8. /\ receiving' \in {receiving, [receiving EXCEPT ![s] = room]}
        /\ store' \in {store, [store EXCEPT ![u] = [st EXCEPT !.recv = s]]}
        /\ up' \in {up, Sent(u, <<message>>)}
        /\ UNCHANGED <<net, loading, sending>>
    BY <1>2, <1>3, <1>12, <2>2, <2>4 DEF OnCreateRecvTransport
  <2>9. [st EXCEPT !.recv = s] \in Store
    BY <1>3 DEF Store, Room
  <2>10. ClientTypes'
    BY <1>1, <1>4, <2>3, <2>8, <2>9 DEF ClientTypes
  <2>11. WireTypes'
    BY <1>1, <2>1, <2>7, <2>8 DEF WireTypes
  <2> QED
    BY <1>6, <2>10, <2>11
<1> QED
  BY <1>8, <1>9, <1>10, <1>11, <1>12

\* It produces, and learns of producers and of consumers.
LEMMA ExchangeType ==
    ASSUME TypeOK, NEW s \in Sockets,
           \/ Produce(s) \/ OnProduced(s) \/ OnGetChannelProducers(s)
           \/ OnProducerJoined(s) \/ OnConsumerCreated(s) \/ OnCloseProducer(s)
    PROVE  TypeOK'
<1>1. ClientTypes /\ WireTypes /\ ServerTypes /\ HistoryTypes
  BY TypeParts
<1>2. PICK u : u = UserOf(s) /\ u \in Users
  BY UserOfType
<1>3. PICK st : st = store[u] /\ st \in Store
  BY <1>1, <1>2 DEF ClientTypes
<1>4. UNCHANGED <<settings, calls, voice, net, channelOf, loading, receiving, serverVars, historyVars>>
  BY DEF Produce, OnProduced, OnGetChannelProducers, OnProducerJoined, OnConsumerCreated, OnCloseProducer,
         clientVars, local
<1>5. ServerTypes' /\ HistoryTypes'
  BY <1>1, <1>4, ServerTypesKept, HistoryTypesKept
<1>6. ASSUME ClientTypes', WireTypes'
      PROVE  TypeOK'
  BY <1>5, <1>6 DEF TypeOK, ClientTypes, WireTypes, ServerTypes, HistoryTypes
<1>7. ASSUME NEW new \in Store, store' \in {store, [store EXCEPT ![u] = new]}, UNCHANGED sending
      PROVE  ClientTypes'
  BY <1>1, <1>4, <1>7 DEF ClientTypes
<1>8. PICK p : p = Head(down[s]).producer
  OBVIOUS
<1>9. ASSUME NEW type \in {"produced", "producerJoined", "consumer", "closeProducer"}, Told(s, type), Heard(s)
      PROVE  down' \in [Sockets -> Seq(ToClient)] /\ p \in Producers
  <2>1. Head(down[s]) \in ToClient /\ Head(down[s]).type = type /\ down' \in [Sockets -> Seq(ToClient)]
    BY <1>1, <1>9, HeardType
  <2> QED
    BY <1>8, <2>1 DEF ToClient
<1>10. CASE Produce(s)
  <2>1. PICK k, message :
           /\ k = sending[s].socket
           /\ message = [type |-> "produce", producer |-> <<s, "audio">>,
                         paused |-> sending[s].muted, room |-> sending[s].room]
    OBVIOUS
  <2>2. sending[s] \in Transport /\ sending[s].mic # "none"
    BY <1>1, <1>10 DEF Produce, ClientTypes, NoTransport
  <2>3. sending[s].muted \in BOOLEAN /\ <<s, "audio">> \in Producers
    BY <2>2 DEF Transport, Producers, Kinds
  <2>4. k # None => [up EXCEPT ![k] = Append(@, message)] \in [Sockets -> Seq(ToServer)]
    BY <2>1, <2>2, <2>3, ProduceType
  <2>5. up' \in {up, [up EXCEPT ![k] = Append(@, message)]} /\ (k = None => up' = up) /\ UNCHANGED down
    BY <1>10, <2>1 DEF Produce
  <2>6. WireTypes'
    BY <1>1, <2>4, <2>5 DEF WireTypes
  <2>7. sending' = [sending EXCEPT ![s] = [sending[s] EXCEPT !.mic = "given"]] /\ UNCHANGED store
    BY <1>10 DEF Produce, clientVars
  <2>8. [sending[s] EXCEPT !.mic = "given"] \in Transport
    BY <2>2 DEF Transport
  <2>9. ClientTypes'
    BY <1>1, <1>4, <2>7, <2>8 DEF ClientTypes
  <2> QED
    BY <1>6, <2>6, <2>9
<1>11. CASE OnProduced(s)
  <2>1. down' \in [Sockets -> Seq(ToClient)] /\ p \in Producers
    BY <1>9, <1>11 DEF OnProduced
  <2>2. store' \in {store, [store EXCEPT ![u] = [st EXCEPT !.producers = @ \cup {p}]]} /\ UNCHANGED <<sending, up>>
    BY <1>2, <1>3, <1>8, <1>11 DEF OnProduced
  <2>3. [st EXCEPT !.producers = @ \cup {p}] \in Store
    BY <1>3, <2>1 DEF Store
  <2>4. WireTypes'
    BY <1>1, <2>1, <2>2 DEF WireTypes
  <2> QED
    BY <1>6, <1>7, <2>2, <2>3, <2>4
<1>12. CASE OnGetChannelProducers(s)
  <2>1. /\ down' \in [Sockets -> Seq(ToClient)]
        /\ Head(down[s]) \in ToClient /\ Head(down[s]).type = "producers"
    BY <1>1, <1>12, HeardType DEF OnGetChannelProducers
  <2>2. Head(down[s]).producers \in SUBSET Producers
    BY <2>1 DEF ToClient
  <2>3. Consumptions(u, Head(down[s]).producers) \in Seq(ToServer)
    BY <1>2, <2>2, ConsumptionsType
  <2>4. up' = Sent(u, Consumptions(u, Head(down[s]).producers)) /\ UNCHANGED <<store, sending>>
    BY <1>2, <1>12 DEF OnGetChannelProducers, local, clientVars
  <2>5. WireTypes'
    BY <1>1, <1>2, <2>1, <2>3, <2>4, SentType DEF WireTypes
  <2> QED
    BY <1>3, <1>6, <1>7, <2>4, <2>5
<1>13. CASE OnProducerJoined(s)
  <2>1. down' \in [Sockets -> Seq(ToClient)] /\ p \in Producers
    BY <1>9, <1>13 DEF OnProducerJoined
  <2>2. Consumptions(u, {p}) \in Seq(ToServer)
    BY <1>2, <2>1, ConsumptionsType
  <2>3. up' \in {up, Sent(u, Consumptions(u, {p}))} /\ UNCHANGED <<store, sending>>
    BY <1>2, <1>8, <1>13 DEF OnProducerJoined, local, clientVars
  <2>4. WireTypes'
    BY <1>1, <1>2, <2>1, <2>2, <2>3, SentType DEF WireTypes
  <2> QED
    BY <1>3, <1>6, <1>7, <2>3, <2>4
<1>14. CASE OnConsumerCreated(s)
  <2>1. down' \in [Sockets -> Seq(ToClient)] /\ p \in Producers
    BY <1>9, <1>14 DEF OnConsumerCreated
  <2>2. PICK message : message = [type |-> "resumeConsumers"]
    OBVIOUS
  <2>3. message \in ToServer
    BY <2>2 DEF ToServer
  <2>4. <<message>> \in Seq(ToServer)
    BY <2>3
  <2>5. PICK new : new = [st EXCEPT !.consumers[p] = @ + 1, !.silenced = @ \ {p}]
    OBVIOUS
  <2>6. new \in Store
    <3>1. st.consumers \in [Producers -> Nat] /\ st.silenced \in SUBSET Producers
      BY <1>3 DEF Store
    <3>2. PICK counts : counts = [st.consumers EXCEPT ![p] = @ + 1]
      OBVIOUS
    <3>3. counts \in [Producers -> Nat]
      BY <2>1, <3>1, <3>2
    <3>4. new = [st EXCEPT !.consumers = counts, !.silenced = @ \ {p}]
      BY <1>3, <2>5, <3>2 DEF Store
    <3> QED
      BY <1>3, <3>1, <3>3, <3>4 DEF Store
  <2>7. store' \in {store, [store EXCEPT ![u] = new]}
    BY <1>2, <1>3, <1>8, <1>14, <2>5 DEF OnConsumerCreated
  <2>8. up' \in {up, Sent(u, <<message>>)} /\ UNCHANGED sending
    BY <1>2, <1>14, <2>2 DEF OnConsumerCreated
  <2>9. WireTypes'
    BY <1>1, <1>2, <2>1, <2>4, <2>8, SentType DEF WireTypes
  <2> QED
    BY <1>6, <1>7, <2>6, <2>7, <2>8, <2>9
<1>15. CASE OnCloseProducer(s)
  <2>1. down' \in [Sockets -> Seq(ToClient)] /\ p \in Producers
    BY <1>9, <1>15 DEF OnCloseProducer
  <2>2. Requests("closeConsumer", {p}) \in Seq(ToServer)
    BY <2>1, RequestsType
  <2>3. PICK new : new = [st EXCEPT !.consumers[p] = @ - 1]
    OBVIOUS
  <2>4. \/ UNCHANGED <<store, up>>
        \/ /\ HasConsumer(u, p) /\ up' = Sent(u, Requests("closeConsumer", {p}))
           /\ store' = [store EXCEPT ![u] = new]
    BY <1>2, <1>3, <1>8, <1>15, <2>3 DEF OnCloseProducer
  <2>5. HasConsumer(u, p) => new \in Store
    <3>1. st.consumers \in [Producers -> Nat]
      BY <1>3 DEF Store
    <3>2. HasConsumer(u, p) => st.consumers[p] - 1 \in Nat
      BY <1>3, <2>1, <3>1 DEF HasConsumer
    <3> QED
      BY <1>3, <2>1, <2>3, <3>1, <3>2 DEF Store
  <2>6. WireTypes'
    BY <1>1, <1>2, <2>1, <2>2, <2>4, SentType DEF WireTypes
  <2>7. UNCHANGED sending
    BY <1>15 DEF OnCloseProducer
  <2> QED
    BY <1>3, <1>6, <1>7, <2>4, <2>5, <2>6, <2>7
<1> QED
  BY <1>10, <1>11, <1>12, <1>13, <1>14, <1>15

-----------------------------------------------------------------------------
(* Sockets in use *)

ServerActs == (\E s \in Sockets : ServerStep(s)) \/ \E p \in Producers : ProducerMade(p)

\* sfu-service takes from a socket, and has a router made for one that asked.
LEMMA ServerTakes ==
    ASSUME TypeOK, ServerActs
    PROVE  /\ UNCHANGED local
           /\ \A t \in Sockets : up[t] = << >> => up'[t] = << >>
           /\ \A t \in creating' : t \in creating \/ (t \in Sockets /\ up[t] # << >>)
<1>1. ASSUME NEW s \in Sockets, ServerStep(s)
      PROVE  /\ UNCHANGED local
             /\ up' \in {up, [up EXCEPT ![s] = Tail(@)], [up EXCEPT ![s] = << >>]}
             /\ up[s] = << >> => UNCHANGED up
             /\ \A t \in creating' : t \in creating \/ (t \in Sockets /\ up[t] # << >>)
  <2>1. UNCHANGED local
    BY <1>1 DEF ServerStep, HandleJoinRoom, RouterCreated, HandleCreateTransport, HandleProduce, GetProducers,
                HandleConsume, HandlePauseConsumer, HandleResumeConsumer, HandlePauseProducer,
                HandleResumeProducer, HandleCloseProducer, HandleCloseConsumer, HandleCloseClient,
                Disconnected, ConsumerMade
  <2>2. \/ UNCHANGED up
        \/ up[s] # << >> /\ up' \in {[up EXCEPT ![s] = Tail(@)], [up EXCEPT ![s] = << >>]}
    BY <1>1 DEF ServerStep, HandleJoinRoom, RouterCreated, HandleCreateTransport, HandleProduce, GetProducers,
                HandleConsume, HandlePauseConsumer, HandleResumeConsumer, HandlePauseProducer,
                HandleResumeProducer, HandleCloseProducer, HandleCloseConsumer, HandleCloseClient,
                Disconnected, ConsumerMade, Taken, Asked
  <2>3. \/ creating' \in {creating, creating \ {s}}
        \/ up[s] # << >> /\ creating' = creating \cup {s}
    BY <1>1 DEF ServerStep, HandleJoinRoom, RouterCreated, HandleCreateTransport, HandleProduce, GetProducers,
                HandleConsume, HandlePauseConsumer, HandleResumeConsumer, HandlePauseProducer,
                HandleResumeProducer, HandleCloseProducer, HandleCloseConsumer, HandleCloseClient,
                Disconnected, ConsumerMade, Asked, serverVars, seats
  <2> QED
    BY <2>1, <2>2, <2>3
<1>2. ASSUME NEW p \in Producers, ProducerMade(p)
      PROVE  UNCHANGED <<local, up, creating>>
  BY <1>2 DEF ProducerMade, seats
<1>3. up \in [Sockets -> Seq(ToServer)]
  BY DEF TypeOK
<1>4. CASE \E p \in Producers : ProducerMade(p)
  BY <1>2, <1>4
<1>5. CASE \E s \in Sockets : ServerStep(s)
  BY <1>1, <1>3, <1>5
<1> QED
  BY <1>4, <1>5 DEF ServerActs

\* A client sends on the socket of its store, or of a transport of its own.
LEMMA ClientSends ==
    ASSUME TypeOK, SocketsInUse, NEW u \in Users, NEW t \in Sockets, net[t] = "unused"
    PROVE  /\ \A messages : Sent(u, messages)[t] = << >>
           /\ \A k, message : k \in Sockets /\ net[k] # "unused" =>
                 [up EXCEPT ![k] = Append(@, message)][t] = << >>
           /\ \A k, messages : k \in Sockets /\ net[k] # "unused" => [up EXCEPT ![k] = @ \o messages][t] = << >>
<1>1. up \in [Sockets -> Seq(ToServer)] /\ up[t] = << >>
  BY DEF TypeOK, SocketsInUse
<1>2. t # store[u].socket
  <2>1. t # None
    BY MediaAssumption DEF Sockets
  <2> QED
    BY <2>1 DEF SocketsInUse
<1>3. \A messages : Sent(u, messages)[t] = << >>
  BY <1>1, <1>2 DEF Sent
<1>4. \A k, message : k \in Sockets /\ net[k] # "unused" => [up EXCEPT ![k] = Append(@, message)][t] = << >>
  BY <1>1
<1>5. \A k, messages : k \in Sockets /\ net[k] # "unused" => [up EXCEPT ![k] = @ \o messages][t] = << >>
  BY <1>1
<1> QED
  BY <1>3, <1>4, <1>5

LEMMA ServerKeepsSockets ==
    ASSUME TypeOK, SocketsInUse, ServerActs
    PROVE  SocketsInUse'
<1>1. UNCHANGED <<store, net, channelOf, sending>>
  BY ServerTakes DEF local, clientVars
<1>2. ASSUME NEW t \in Sockets, net[t] = "unused"
      PROVE  up'[t] = << >> /\ t \notin creating' /\ channelOf[t] = None
  BY <1>2, ServerTakes DEF SocketsInUse
<1> QED
  BY <1>1, <1>2 DEF SocketsInUse

\* What a user does keeps the sockets that are in use.
LEMMA UserKeepsSockets ==
    ASSUME TypeOK, SocketsInUse, NEW u \in Users, UserStep(u)
    PROVE  SocketsInUse'
<1>1. UNCHANGED <<net, channelOf, creating>>
  BY DEF UserStep, JoinCall, JoinChannel, LeaveCall, HangUp, Click, SetMuted, SetDeafened, StartScreenShare,
         StopScreenShare, serverVars, seats
<1>2. store[u] \in Store /\ store \in [Users -> Store]
  BY DEF TypeOK
<1>3. \A w \in Users : store'[w].socket = store[w].socket /\ store'[w].send = store[w].send
  <2>1. \/ UNCHANGED store
        \/ \E x : store' = [store EXCEPT ![u] = [@ EXCEPT !.silenced = x]]
        \/ \E x : store' = [store EXCEPT ![u] = [@ EXCEPT !.producers = x]]
    BY DEF UserStep, JoinCall, JoinChannel, LeaveCall, HangUp, Click, SetMuted, SetDeafened, StartScreenShare,
           StopScreenShare, clientVars
  <2>2. ASSUME NEW x
        PROVE  /\ [store[u] EXCEPT !.silenced = x].socket = store[u].socket
               /\ [store[u] EXCEPT !.silenced = x].send = store[u].send
               /\ [store[u] EXCEPT !.producers = x].socket = store[u].socket
               /\ [store[u] EXCEPT !.producers = x].send = store[u].send
    <3>1. PICK st : st = store[u] /\ st \in Store
      BY <1>2
    <3>2. {"socket", "send"} \subseteq DOMAIN st
      BY <3>1 DEF Store
    <3> QED
      BY <3>1, <3>2
  <2>3. ASSUME NEW new, new.socket = store[u].socket, new.send = store[u].send,
               store' = [store EXCEPT ![u] = new],
               NEW w \in Users
        PROVE  store'[w].socket = store[w].socket /\ store'[w].send = store[w].send
    BY <1>2, <2>3
  <2>4. ASSUME NEW x, store' = [store EXCEPT ![u] = [@ EXCEPT !.silenced = x]]
        PROVE  \A w \in Users : store'[w].socket = store[w].socket /\ store'[w].send = store[w].send
    BY <2>2, <2>3, <2>4
  <2>5. ASSUME NEW x, store' = [store EXCEPT ![u] = [@ EXCEPT !.producers = x]]
        PROVE  \A w \in Users : store'[w].socket = store[w].socket /\ store'[w].send = store[w].send
    BY <2>2, <2>3, <2>5
  <2> QED
    BY <2>1, <2>4, <2>5
<1>4. StartScreenShare(u) =>
         /\ store[u].send \in Sockets /\ sending[store[u].send] \in Transport
         /\ sending[store[u].send].socket \in Room
         /\ sending[store[u].send].socket # None => net[sending[store[u].send].socket] # "unused"
  <2>1. StartScreenShare(u) => store[u].send \in Sockets
    BY <1>2 DEF StartScreenShare, Store, Room
  <2>2. StartScreenShare(u) => sending[store[u].send].mic # "none"
    BY DEF SocketsInUse, StartScreenShare
  <2>3. StartScreenShare(u) => sending[store[u].send] \in Transport
    BY <2>1, <2>2 DEF TypeOK, NoTransport
  <2> QED
    BY <2>1, <2>2, <2>3 DEF SocketsInUse, Transport
<1>5. \A t \in Sockets : sending'[t].mic = sending[t].mic /\ (sending[t].mic # "none" => sending'[t].socket = sending[t].socket)
  <2>1. \/ UNCHANGED sending
        \/ StartScreenShare(u) /\ sending' = [sending EXCEPT ![store[u].send] = [@ EXCEPT !.share = TRUE]]
    BY DEF UserStep, JoinCall, JoinChannel, LeaveCall, HangUp, Click, SetMuted, SetDeafened, StartScreenShare,
           StopScreenShare
  <2>2. sending \in [Sockets -> Transport \cup {NoTransport}]
    BY DEF TypeOK
  <2>3. CASE UNCHANGED sending
    BY <2>3
  <2>4. CASE StartScreenShare(u) /\ sending' = [sending EXCEPT ![store[u].send] = [@ EXCEPT !.share = TRUE]]
    <3>1. PICK k : k = store[u].send /\ k \in Sockets
      BY <1>4, <2>4
    <3>2. PICK tr \in Transport : tr = sending[k]
      BY <1>4, <2>4, <3>1
    <3>3. [tr EXCEPT !.share = TRUE].mic = tr.mic /\ [tr EXCEPT !.share = TRUE].socket = tr.socket
      BY <3>2 DEF Transport
    <3>4. sending' = [sending EXCEPT ![k] = [tr EXCEPT !.share = TRUE]]
      BY <2>4, <3>1, <3>2
    <3> QED
      BY <2>2, <3>1, <3>2, <3>3, <3>4
  <2> QED
    BY <2>1, <2>3, <2>4
<1>6. ASSUME NEW t \in Sockets, net[t] = "unused"
      PROVE  up'[t] = << >>
  <2>1. \/ UNCHANGED up
        \/ \E messages : up' = Sent(u, messages)
        \/ StartScreenShare(u) /\ \E message : sending[store[u].send].socket # None
              /\ up' = [up EXCEPT ![sending[store[u].send].socket] = Append(@, message)]
    BY DEF UserStep, JoinCall, JoinChannel, LeaveCall, HangUp, Click, SetMuted, SetDeafened, StartScreenShare,
           StopScreenShare
  <2>2. up[t] = << >>
    BY <1>6 DEF SocketsInUse
  <2>3. \A messages : Sent(u, messages)[t] = << >>
    BY <1>6, ClientSends
  <2>4. ASSUME StartScreenShare(u), NEW message, sending[store[u].send].socket # None,
               up' = [up EXCEPT ![sending[store[u].send].socket] = Append(@, message)]
        PROVE  up'[t] = << >>
    <3>1. PICK k : k = sending[store[u].send].socket /\ k \in Sockets /\ net[k] # "unused"
      BY <1>4, <2>4 DEF Room
    <3>2. [up EXCEPT ![k] = Append(@, message)][t] = << >>
      BY <1>6, <3>1, ClientSends
    <3> QED
      BY <2>4, <3>1, <3>2
  <2> QED
    BY <2>1, <2>2, <2>3, <2>4
<1>7. ASSUME NEW t \in Sockets
      PROVE  /\ net'[t] = "unused" => up'[t] = << >> /\ t \notin creating' /\ channelOf'[t] = None
             /\ net'[t] # "unused" => channelOf'[t] \in Channels
             /\ sending'[t].mic # "none" /\ sending'[t].socket # None => net'[sending'[t].socket] # "unused"
  BY <1>1, <1>5, <1>6 DEF SocketsInUse
<1>8. ASSUME NEW w \in Users
      PROVE  /\ store'[w].socket # None => net'[store'[w].socket] # "unused"
             /\ store'[w].send # None => sending'[store'[w].send].mic # "none"
  <2>1. store[w].send # None => store[w].send \in Sockets
    BY <1>2 DEF Store, Room
  <2> QED
    BY <1>1, <1>3, <1>5, <2>1 DEF SocketsInUse
<1> QED
  BY <1>7, <1>8 DEF SocketsInUse

\* So do the steps of its client on a socket, ...
LEMMA ClientKeepsSockets ==
    ASSUME TypeOK, SocketsInUse, NEW s \in Sockets, ClientStep(s)
    PROVE  SocketsInUse'
<1>1. PICK u : u = UserOf(s) /\ u \in Users
  BY UserOfType
<1>2. PICK st : st = store[u] /\ st \in Store
  BY <1>1 DEF TypeOK
<1>3. store \in [Users -> Store] /\ sending \in [Sockets -> Transport \cup {NoTransport}]
      /\ up \in [Sockets -> Seq(ToServer)] /\ net \in [Sockets -> {"unused", "connecting", "open", "closed"}]
  BY DEF TypeOK
<1>4. /\ UNCHANGED <<channelOf, creating>>
      /\ \A t \in Sockets : net'[t] = "unused" <=> net[t] = "unused"
  <2>1. /\ UNCHANGED <<channelOf, creating>>
        /\ \/ UNCHANGED net
           \/ net[s] = "connecting" /\ net' = [net EXCEPT ![s] = "open"]
    BY DEF ClientStep, Connect, OnRoomJoined, DeviceLoaded, OnCreateSendTransport, Produce, OnProduced,
           OnCreateRecvTransport, OnGetChannelProducers, OnProducerJoined, OnConsumerCreated, OnCloseProducer,
           local, serverVars, seats
  <2> QED
    BY <1>3, <2>1
<1>5. /\ \A w \in Users : store'[w].socket = store[w].socket
      /\ \A w \in Users : store'[w].send = store[w].send \/ (OnCreateSendTransport(s) /\ store'[w].send = s
                             /\ sending'[s].mic = "asked")
  <2>1. \/ UNCHANGED store
        \/ \E x, y : store' = [store EXCEPT ![u] = [st EXCEPT !.device = x, !.channel = y]]
        \/ \E x : store' = [store EXCEPT ![u] = [st EXCEPT !.producers = x]]
        \/ \E x : store' = [store EXCEPT ![u] = [st EXCEPT !.recv = x]]
        \/ \E x, y : store' = [store EXCEPT ![u] = [st EXCEPT !.consumers = x, !.silenced = y]]
        \/ \E x : store' = [store EXCEPT ![u] = [st EXCEPT !.consumers = x]]
        \/ /\ OnCreateSendTransport(s) /\ store' = [store EXCEPT ![u] = [st EXCEPT !.send = s]]
           /\ sending'[s].mic = "asked"
    <3>1. CASE OnCreateSendTransport(s)
      <4>1. PICK tr : tr = [mic |-> "asked", room |-> Head(down[s]).room, share |-> FALSE,
                            socket |-> st.socket, muted |-> settings[u].muted]
        OBVIOUS
      <4>2. \/ UNCHANGED store
            \/ /\ store' = [store EXCEPT ![u] = [st EXCEPT !.send = s]]
               /\ sending' = [sending EXCEPT ![s] = tr]
        BY <1>1, <1>2, <1>3, <3>1, <4>1 DEF OnCreateSendTransport
      <4>3. sending' = [sending EXCEPT ![s] = tr] => sending'[s].mic = "asked"
        BY <1>3, <4>1
      <4> QED
        BY <3>1, <4>2, <4>3
    <3>2. CASE DeviceLoaded(s)
      BY <1>1, <1>2, <1>3, <3>2 DEF DeviceLoaded
    <3>3. CASE OnProduced(s)
      BY <1>1, <1>2, <1>3, <3>3 DEF OnProduced
    <3>4. CASE OnCreateRecvTransport(s)
      BY <1>1, <1>2, <1>3, <3>4 DEF OnCreateRecvTransport
    <3>5. CASE OnConsumerCreated(s)
      <4>1. PICK p : p = Head(down[s]).producer
        OBVIOUS
      <4>2. \/ UNCHANGED store
            \/ store' = [store EXCEPT ![u] = [st EXCEPT !.consumers = [st.consumers EXCEPT ![p] = @ + 1],
                                                        !.silenced = st.silenced \ {p}]]
        BY <1>1, <1>2, <1>3, <3>5, <4>1 DEF OnConsumerCreated, Store
      <4> QED
        BY <4>2
    <3>6. CASE OnCloseProducer(s)
      <4>1. PICK p : p = Head(down[s]).producer
        OBVIOUS
      <4>2. \/ UNCHANGED store
            \/ store' = [store EXCEPT ![u] = [st EXCEPT !.consumers = [st.consumers EXCEPT ![p] = @ - 1]]]
        BY <1>1, <1>2, <1>3, <3>6, <4>1 DEF OnCloseProducer, Store
      <4> QED
        BY <4>2
    <3> QED
      BY <3>1, <3>2, <3>3, <3>4, <3>5, <3>6
         DEF ClientStep, Connect, OnRoomJoined, Produce, OnGetChannelProducers, OnProducerJoined, local, clientVars
  <2>2. {"socket", "send"} \subseteq DOMAIN st
    BY <1>2 DEF Store
  <2>3. ASSUME NEW new, new.socket = st.socket, new.send = st.send, store' = [store EXCEPT ![u] = new],
               NEW w \in Users
        PROVE  store'[w].socket = store[w].socket /\ store'[w].send = store[w].send
    BY <1>2, <1>3, <2>3
  <2>5. CASE OnCreateSendTransport(s) /\ store' = [store EXCEPT ![u] = [st EXCEPT !.send = s]]
             /\ sending'[s].mic = "asked"
    <3>1. [st EXCEPT !.send = s].socket = st.socket /\ [st EXCEPT !.send = s].send = s
      BY <2>2
    <3> QED
      BY <1>2, <1>3, <2>5, <3>1
  <2>6. CASE UNCHANGED store
    BY <2>6
  <2>7. CASE \E new : store' = [store EXCEPT ![u] = new] /\ new.socket = st.socket /\ new.send = st.send
    BY <2>3, <2>7
  <2>8. \/ UNCHANGED store
        \/ \E new : store' = [store EXCEPT ![u] = new] /\ new.socket = st.socket /\ new.send = st.send
        \/ /\ OnCreateSendTransport(s) /\ store' = [store EXCEPT ![u] = [st EXCEPT !.send = s]]
           /\ sending'[s].mic = "asked"
    <3>1. ASSUME NEW new, store' = [store EXCEPT ![u] = new], new.socket = st.socket, new.send = st.send
          PROVE  \E n : store' = [store EXCEPT ![u] = n] /\ n.socket = st.socket /\ n.send = st.send
      BY <3>1
    <3>2. ASSUME NEW x, NEW y, store' = [store EXCEPT ![u] = [st EXCEPT !.device = x, !.channel = y]]
          PROVE  \E n : store' = [store EXCEPT ![u] = n] /\ n.socket = st.socket /\ n.send = st.send
      BY <2>2, <3>1, <3>2
    <3>3. ASSUME NEW x, store' = [store EXCEPT ![u] = [st EXCEPT !.producers = x]]
          PROVE  \E n : store' = [store EXCEPT ![u] = n] /\ n.socket = st.socket /\ n.send = st.send
      BY <2>2, <3>1, <3>3
    <3>4. ASSUME NEW x, store' = [store EXCEPT ![u] = [st EXCEPT !.recv = x]]
          PROVE  \E n : store' = [store EXCEPT ![u] = n] /\ n.socket = st.socket /\ n.send = st.send
      BY <2>2, <3>1, <3>4
    <3>5. ASSUME NEW x, NEW y, store' = [store EXCEPT ![u] = [st EXCEPT !.consumers = x, !.silenced = y]]
          PROVE  \E n : store' = [store EXCEPT ![u] = n] /\ n.socket = st.socket /\ n.send = st.send
      BY <2>2, <3>1, <3>5
    <3>6. ASSUME NEW x, store' = [store EXCEPT ![u] = [st EXCEPT !.consumers = x]]
          PROVE  \E n : store' = [store EXCEPT ![u] = n] /\ n.socket = st.socket /\ n.send = st.send
      BY <2>2, <3>1, <3>6
    <3> QED
      BY <2>1, <3>2, <3>3, <3>4, <3>5, <3>6
  <2> QED
    BY <2>5, <2>6, <2>7, <2>8
<1>6. ASSUME NEW t \in Sockets
      PROVE  /\ sending[t].mic # "none" => sending'[t].mic # "none"
             /\ sending'[t].mic # "none" =>
                   sending'[t].socket \in {sending[t].socket, st.socket} /\
                   (sending[t].mic = "none" => sending'[t].socket = st.socket)
  <2>1. CASE Produce(s)
    <3>1. PICK tr \in Transport : tr = sending[s]
      BY <1>3, <2>1 DEF Produce, NoTransport
    <3>2. [tr EXCEPT !.mic = "given"].mic = "given" /\ [tr EXCEPT !.mic = "given"].socket = tr.socket
      BY DEF Transport
    <3>3. sending' = [sending EXCEPT ![s] = [tr EXCEPT !.mic = "given"]] /\ tr.mic = "asked"
      BY <2>1, <3>1 DEF Produce
    <3> QED
      BY <1>3, <3>1, <3>2, <3>3
  <2>2. CASE OnCreateSendTransport(s)
    <3>1. PICK tr : tr = [mic |-> "asked", room |-> Head(down[s]).room, share |-> FALSE,
                          socket |-> st.socket, muted |-> settings[u].muted]
      OBVIOUS
    <3>2. tr.mic = "asked" /\ tr.socket = st.socket
      BY <3>1
    <3>3. UNCHANGED sending \/ sending' = [sending EXCEPT ![s] = tr]
      BY <1>1, <1>2, <2>2, <3>1 DEF OnCreateSendTransport
    <3> QED
      BY <1>3, <3>2, <3>3
  <2>3. CASE UNCHANGED sending
    BY <2>3
  <2> QED
    BY <2>1, <2>2, <2>3 DEF ClientStep, Connect, OnRoomJoined, DeviceLoaded, OnProduced, OnCreateRecvTransport,
           OnGetChannelProducers, OnProducerJoined, OnConsumerCreated, OnCloseProducer, local
<1>7. ASSUME NEW t \in Sockets, net[t] = "unused"
      PROVE  up'[t] = << >>
  <2>1. \/ UNCHANGED up
        \/ \E messages : up' = Sent(u, messages)
        \/ \E message : up' = [up EXCEPT ![s] = Append(@, message)] /\ net[s] # "unused"
        \/ \E messages : up' = [up EXCEPT ![s] = @ \o messages] /\ net[s] # "unused"
        \/ /\ Produce(s) /\ sending[s].socket # None
           /\ \E message : up' = [up EXCEPT ![sending[s].socket] = Append(@, message)]
    BY <1>1 DEF ClientStep, Connect, OnRoomJoined, DeviceLoaded, OnCreateSendTransport, Produce, OnProduced,
           OnCreateRecvTransport, OnGetChannelProducers, OnProducerJoined, OnConsumerCreated, OnCloseProducer
  <2>2. up[t] = << >>
    BY <1>7 DEF SocketsInUse
  <2>3. /\ \A messages : Sent(u, messages)[t] = << >>
        /\ \A message : net[s] # "unused" => [up EXCEPT ![s] = Append(@, message)][t] = << >>
        /\ \A messages : net[s] # "unused" => [up EXCEPT ![s] = @ \o messages][t] = << >>
    BY <1>1, <1>7, ClientSends
  <2>4. ASSUME Produce(s), NEW message, sending[s].socket # None,
               up' = [up EXCEPT ![sending[s].socket] = Append(@, message)]
        PROVE  up'[t] = << >>
    <3>1. sending[s] \in Transport /\ sending[s].mic # "none"
      BY <1>3, <2>4 DEF Produce, NoTransport
    <3>2. PICK k : k = sending[s].socket /\ k \in Sockets /\ net[k] # "unused"
      BY <2>4, <3>1 DEF Transport, Room, SocketsInUse
    <3>3. [up EXCEPT ![k] = Append(@, message)][t] = << >>
      BY <1>1, <1>7, <3>2, ClientSends
    <3> QED
      BY <2>4, <3>2, <3>3
  <2> QED
    BY <2>1, <2>2, <2>3, <2>4
<1>8. ASSUME NEW t \in Sockets
      PROVE  /\ net'[t] = "unused" => up'[t] = << >> /\ t \notin creating' /\ channelOf'[t] = None
             /\ net'[t] # "unused" => channelOf'[t] \in Channels
  BY <1>4, <1>7 DEF SocketsInUse
<1>9. ASSUME NEW t \in Sockets, sending'[t].mic # "none", sending'[t].socket # None
      PROVE  net'[sending'[t].socket] # "unused"
  <2>1. \A k \in Sockets : net[k] # "unused" => net'[k] # "unused"
    BY <1>4
  <2>2. CASE sending'[t].socket = st.socket
    BY <1>1, <1>2, <1>9, <2>1, <2>2 DEF SocketsInUse, Store, Room
  <2>3. CASE sending'[t].socket = sending[t].socket /\ sending[t].mic # "none"
    BY <1>3, <1>9, <2>1, <2>3 DEF SocketsInUse, Transport, Room, NoTransport
  <2> QED
    BY <1>6, <1>9, <2>2, <2>3
<1>10. ASSUME NEW w \in Users
      PROVE  /\ store'[w].socket # None => net'[store'[w].socket] # "unused"
             /\ store'[w].send # None => sending'[store'[w].send].mic # "none"
  <2>1. store[w].socket \in Room /\ store[w].send \in Room
    BY <1>3 DEF Store
  <2> QED
    BY <1>4, <1>5, <1>6, <2>1 DEF SocketsInUse, Room
<1> QED
  BY <1>8, <1>9, <1>10 DEF SocketsInUse

\* ... and its handling of a voice event, which opens a socket that was not.
LEMMA VoiceKeepsSockets ==
    ASSUME TypeOK, SocketsInUse, NEW u \in Users, OnVoiceJoin(u) \/ OnVoiceLeave(u)
    PROVE  SocketsInUse'
<1>1. PICK st : st = store[u] /\ st \in Store
  BY DEF TypeOK
<1>2. PICK closes \in BOOLEAN, new \in SUBSET Sockets :
         /\ SwapSocket(u, closes, new)
         /\ \A s \in new : net[s] = "unused" /\ channelOf'[s] \in Channels
         /\ \A s \in Sockets \ new : channelOf'[s] = channelOf[s]
         /\ store'[u].socket # None => store'[u].socket \in new \/ store'[u].socket = st.socket
         /\ store'[u].send # None => store'[u].send = st.send
         /\ \A w \in Users \ {u} : store'[w] = store[w]
         /\ UNCHANGED creating
  <2>1. voice[u] \in Seq([type : {"join", "leave"}, channel : Channels]) /\ voice[u] # << >>
    BY DEF TypeOK, OnVoiceJoin, OnVoiceLeave
  <2>2. PICK Events : Events = [type : {"join", "leave"}, channel : Channels]
    OBVIOUS
  <2>3. Head(voice[u]).channel \in Channels
    <3>1. PICK events \in Seq(Events) : events = voice[u] /\ events # << >>
      BY <2>1, <2>2
    <3>2. Head(events) \in Events
      BY <3>1
    <3> QED
      BY <2>2, <3>1, <3>2
  <2>4. store \in [Users -> Store] /\ channelOf \in [Sockets -> Channels \cup {None}]
    BY DEF TypeOK
  <2>5. CASE OnVoiceJoin(u)
    <3>1. PICK switches \in BOOLEAN, s \in SocketsOf(u) :
             /\ net[s] = "unused" /\ SwapSocket(u, switches, {s})
             /\ channelOf' = [channelOf EXCEPT ![s] = Head(voice[u]).channel]
             /\ store' = [store EXCEPT ![u] = [(IF switches THEN NoStore ELSE st) EXCEPT !.socket = s]]
      BY <1>1, <2>5 DEF OnVoiceJoin
    <3>2. s \in Sockets
      BY <3>1 DEF SocketsOf, Sockets
    <3>3. PICK old : old = (IF switches THEN NoStore ELSE st) /\ old \in Store /\ old.send \in {None, st.send}
      <4>1. NoStore \in Store /\ NoStore.send = None
        BY DEF NoStore, Store, Room
      <4> QED
        BY <1>1, <4>1
    <3>4. [old EXCEPT !.socket = s].socket = s /\ [old EXCEPT !.socket = s].send = old.send
      BY <3>3 DEF Store
    <3>5. store'[u] = [old EXCEPT !.socket = s] /\ \A w \in Users \ {u} : store'[w] = store[w]
      BY <2>4, <3>1, <3>3
    <3>6. UNCHANGED creating
      BY <2>5 DEF OnVoiceJoin, serverVars, seats
    <3>7. \A t \in {s} : net[t] = "unused" /\ channelOf'[t] \in Channels
      BY <2>3, <2>4, <3>1, <3>2
    <3>8. \A t \in Sockets \ {s} : channelOf'[t] = channelOf[t]
      BY <2>4, <3>1
    <3>9. /\ store'[u].socket \in {s}
          /\ store'[u].send # None => store'[u].send = st.send
      BY <3>3, <3>4, <3>5
    <3> QED
      BY <3>1, <3>2, <3>5, <3>6, <3>7, <3>8, <3>9
  <2>6. CASE OnVoiceLeave(u)
    <3>1. PICK closes \in BOOLEAN : closes = ClosesOnLeave(u)
      BY DEF ClosesOnLeave
    <3>2. /\ SwapSocket(u, closes, {}) /\ UNCHANGED <<channelOf, creating>>
          /\ store' = [store EXCEPT ![u] = IF closes THEN NoStore ELSE st]
      BY <1>1, <2>6, <3>1 DEF OnVoiceLeave, serverVars, seats
    <3>3. /\ store'[u].socket # None => store'[u].socket = st.socket
          /\ store'[u].send # None => store'[u].send = st.send
          /\ \A w \in Users \ {u} : store'[w] = store[w]
      BY <2>4, <3>2 DEF NoStore
    <3> QED
      BY <3>2, <3>3
  <2> QED
    BY <2>5, <2>6
<1>3. /\ net' = [s \in Sockets |-> IF closes /\ s = st.socket THEN "closed"
                                   ELSE IF s \in new THEN "connecting" ELSE net[s]]
      /\ \A s \in Sockets : ~(closes /\ s = st.socket) => up'[s] = up[s]
      /\ sending' = [s \in Sockets |-> IF closes /\ s = st.send
                                       THEN [sending[s] EXCEPT !.mic = "closed"] ELSE sending[s]]
  BY <1>1, <1>2 DEF SwapSocket
<1>4. \A s \in Sockets : net[s] # "unused" \/ s \in new => net'[s] # "unused"
  BY <1>3
<1>5. ASSUME NEW s \in Sockets, s = st.socket
      PROVE  net[s] # "unused"
  BY <1>1, <1>5, MediaAssumption DEF SocketsInUse, Sockets
<1>6. ASSUME NEW s \in Sockets
      PROVE  /\ net'[s] = "unused" => up'[s] = << >> /\ s \notin creating' /\ channelOf'[s] = None
             /\ net'[s] # "unused" => channelOf'[s] \in Channels
  BY <1>2, <1>3, <1>4, <1>5 DEF SocketsInUse
<1>7. ASSUME NEW s \in Sockets
      PROVE  /\ sending[s].mic # "none" => sending'[s].mic # "none"
             /\ sending'[s].mic # "none" => sending[s].mic # "none" /\ sending'[s].socket = sending[s].socket
  <2>1. CASE closes /\ s = st.send
    <3>1. s # None
      BY MediaAssumption DEF Sockets
    <3>2. sending[s].mic # "none" /\ sending[s] \in Transport \cup {NoTransport}
      BY <1>1, <2>1, <3>1 DEF SocketsInUse, TypeOK
    <3>3. PICK tr \in Transport : tr = sending[s]
      BY <3>2 DEF NoTransport
    <3>4. [tr EXCEPT !.mic = "closed"].mic = "closed" /\ [tr EXCEPT !.mic = "closed"].socket = tr.socket
      BY DEF Transport
    <3> QED
      BY <1>3, <2>1, <3>2, <3>3, <3>4
  <2>2. CASE ~(closes /\ s = st.send)
    BY <1>3, <2>2
  <2> QED
    BY <2>1, <2>2
<1>8. ASSUME NEW s \in Sockets, sending'[s].mic # "none", sending'[s].socket # None
      PROVE  net'[sending'[s].socket] # "unused"
  <2>1. sending[s] \in Transport
    BY <1>7, <1>8 DEF TypeOK, NoTransport
  <2>2. sending[s].socket \in Sockets /\ net[sending[s].socket] # "unused"
    BY <1>7, <1>8, <2>1 DEF SocketsInUse, Transport, Room
  <2> QED
    BY <1>4, <1>7, <1>8, <2>2
<1>9. ASSUME NEW w \in Users
      PROVE  /\ store'[w].socket # None => net'[store'[w].socket] # "unused"
             /\ store'[w].send # None => sending'[store'[w].send].mic # "none"
  <2>1. store[w] \in Store
    BY DEF TypeOK
  <2>2. store[w].socket \in Room /\ store[w].send \in Room
    BY <2>1 DEF Store
  <2> QED
    BY <1>1, <1>2, <1>4, <1>7, <2>2 DEF SocketsInUse, Room
<1> QED
  BY <1>6, <1>8, <1>9 DEF SocketsInUse

-----------------------------------------------------------------------------
(* Every step keeps the types *)

Typed == TypeOK /\ SocketsInUse

LEMMA InitTyped == Init => Typed
<1> SUFFICES ASSUME Init
             PROVE  Typed
  OBVIOUS
<1>1. NoStore \in Store
  BY DEF NoStore, Store, Room
<1>2. << >> \in Seq([type : {"join", "leave"}, channel : Channels])
      /\ << >> \in Seq(ToServer) /\ << >> \in Seq(ToClient)
  BY EmptySeq
<1>3. voice \in [Users -> Seq([type : {"join", "leave"}, channel : Channels])]
      /\ up \in [Sockets -> Seq(ToServer)] /\ down \in [Sockets -> Seq(ToClient)]
  BY <1>2 DEF Init
<1>4. store \in [Users -> Store]
  BY <1>1 DEF Init
<1>5. TypeOK
  BY <1>3, <1>4 DEF Init, TypeOK, Room
<1>6. SocketsInUse
  BY DEF Init, SocketsInUse, NoStore, NoTransport
<1> QED
  BY <1>5, <1>6 DEF Typed

LEMMA NextTyped == Typed /\ [Next]_vars => Typed'
<1> SUFFICES ASSUME Typed, [Next]_vars
             PROVE  Typed'
  OBVIOUS
<1> USE DEF Typed
<1>1. ASSUME NEW u \in Users, UserStep(u)
      PROVE  TypeOK' /\ SocketsInUse'
  BY <1>1, ClickType, SettingType, ScreenType, UserKeepsSockets DEF UserStep
<1>2. ASSUME NEW u \in Users, OnVoiceJoin(u) \/ OnVoiceLeave(u)
      PROVE  TypeOK' /\ SocketsInUse'
  BY <1>2, VoiceType, VoiceKeepsSockets
<1>3. ASSUME NEW s \in Sockets, ClientStep(s)
      PROVE  TypeOK' /\ SocketsInUse'
  BY <1>3, SetUpType, ExchangeType, ClientKeepsSockets DEF ClientStep
<1>4. ASSUME NEW s \in Sockets, ServerStep(s)
      PROVE  TypeOK' /\ SocketsInUse'
  <2>1. TypeOK'
    BY <1>4, SeatType, MediaType, MadeType DEF ServerStep
  <2> QED
    BY <1>4, <2>1, ServerKeepsSockets DEF ServerActs
<1>5. ASSUME NEW p \in Producers, ProducerMade(p)
      PROVE  TypeOK' /\ SocketsInUse'
  BY <1>5, MadeType, ServerKeepsSockets DEF ServerActs
<1>6. CASE UNCHANGED vars
  BY <1>6 DEF vars, local, clientVars, serverVars, seats, media, awaits, historyVars, TypeOK, SocketsInUse
<1> QED
  BY <1>1, <1>2, <1>3, <1>4, <1>5, <1>6 DEF Next, SystemStep

\* Every variable has its type: what a client sends and is sent, the rooms
\* and what mediasoup is making.
THEOREM TypeCorrect == Spec => []TypeOK
<1>1. Typed => TypeOK
  BY DEF Typed
<1> QED
  BY <1>1, InitTyped, NextTyped, PTL DEF Spec

-----------------------------------------------------------------------------
(* Producers on record *)

MakingAt(r) == \E p \in Producers : making[p] # None /\ making[p].room = r

\* The room of a channel is named after a socket of the channel, which has made it; ...
RoomsAreWhere ==
    \A c \in Channels : rooms[c] # None => channelOf[rooms[c]] = c /\ rooms[c] \notin creating

\* ... nothing is listed or made before there is a room, which is never the last of a channel to go; ...
RoomsInUse ==
    \A r \in Sockets : listed[r] # {} \/ MakingAt(r) =>
        /\ r \notin creating
        /\ channelOf[r] \in Channels
        /\ rooms[channelOf[r]] # None

\* ... a producer is made for a socket of the room's channel, ...
MadeForRoom ==
    \A p \in Producers : making[p] # None => channelOf[making[p].socket] = channelOf[making[p].room]

\* ... and what the room of a channel lists is on record with a peer of the channel.
OnRecord ==
    \A r \in Sockets : \A p \in listed[r] :
        (channelOf[r] \in Channels /\ rooms[channelOf[r]] = r) =>
            p \in late \/ \E s \in peers : p \in owned[s] /\ channelOf[s] = channelOf[r]

RoomInvariant == RoomsAreWhere /\ RoomsInUse /\ MadeForRoom /\ OnRecord

roomVars == <<rooms, creating, peers, listed, owned, making, late>>

LEMMA MakingType ==
    ASSUME TypeOK, NEW p \in Producers, making[p] # None
    PROVE  making[p].room \in Sockets /\ making[p].socket \in Sockets
BY DEF TypeOK, Making

\* What a client does: a socket gets its channel once.
LEMMA ChannelsKept ==
    ASSUME TypeOK, SocketsInUse,
           \/ \E u \in Users : UserStep(u) \/ OnVoiceJoin(u) \/ OnVoiceLeave(u)
           \/ \E s \in Sockets : ClientStep(s)
    PROVE  /\ UNCHANGED roomVars
           /\ \A s \in Sockets : channelOf[s] # None => channelOf'[s] = channelOf[s]
<1>1. ASSUME NEW u \in Users, UserStep(u)
      PROVE  UNCHANGED <<roomVars, channelOf>>
  BY <1>1 DEF UserStep, JoinCall, JoinChannel, LeaveCall, HangUp, Click, SetMuted, SetDeafened,
              StartScreenShare, StopScreenShare, serverVars, seats, media, awaits, historyVars, roomVars
<1>2. ASSUME NEW s \in Sockets, ClientStep(s)
      PROVE  UNCHANGED <<roomVars, channelOf>>
  BY <1>2 DEF ClientStep, Connect, OnRoomJoined, DeviceLoaded, OnCreateSendTransport, Produce, OnProduced,
              OnCreateRecvTransport, OnGetChannelProducers, OnProducerJoined, OnConsumerCreated, OnCloseProducer,
              local, serverVars, seats, media, awaits, historyVars, roomVars
<1>3. ASSUME NEW u \in Users, OnVoiceLeave(u)
      PROVE  UNCHANGED <<roomVars, channelOf>>
  BY <1>3 DEF OnVoiceLeave, serverVars, seats, media, awaits, roomVars
<1>4. ASSUME NEW u \in Users, OnVoiceJoin(u)
      PROVE  /\ UNCHANGED roomVars
             /\ \A s \in Sockets : channelOf[s] # None => channelOf'[s] = channelOf[s]
  <2>1. UNCHANGED roomVars
    BY <1>4 DEF OnVoiceJoin, serverVars, seats, media, awaits, roomVars
  <2>2. PICK s \in SocketsOf(u) : net[s] = "unused" /\ channelOf' = [channelOf EXCEPT ![s] = Head(voice[u]).channel]
    BY <1>4 DEF OnVoiceJoin
  <2>3. s \in Sockets
    BY <2>2 DEF SocketsOf, Sockets
  <2>4. channelOf[s] = None
    BY <2>2, <2>3 DEF SocketsInUse
  <2> QED
    BY <2>1, <2>2, <2>4 DEF TypeOK
<1> QED
  BY <1>1, <1>2, <1>3, <1>4

LEMMA ClientsKeepRooms ==
    ASSUME TypeOK, SocketsInUse, RoomInvariant,
           \/ \E u \in Users : UserStep(u) \/ OnVoiceJoin(u) \/ OnVoiceLeave(u)
           \/ \E s \in Sockets : ClientStep(s)
    PROVE  RoomInvariant'
<1>1. /\ UNCHANGED roomVars
      /\ \A s \in Sockets : channelOf[s] # None => channelOf'[s] = channelOf[s]
  BY ChannelsKept
<1>2. None \notin Channels /\ None \notin Sockets
  BY MediaAssumption DEF Sockets
<1>3. RoomsAreWhere'
  BY <1>1, <1>2 DEF RoomInvariant, RoomsAreWhere, roomVars, TypeOK, Room
<1>4. RoomsInUse'
  BY <1>1, <1>2 DEF RoomInvariant, RoomsInUse, MakingAt, roomVars
<1>5. MadeForRoom'
  <2>1. ASSUME NEW p \in Producers, making[p] # None
        PROVE  channelOf'[making[p].socket] = channelOf'[making[p].room]
    <3>1. making[p].room \in Sockets /\ making[p].socket \in Sockets
      BY <2>1, MakingType
    <3>2. channelOf[making[p].room] \in Channels
      BY <2>1, <3>1 DEF RoomInvariant, RoomsInUse, MakingAt
    <3> QED
      BY <1>1, <1>2, <2>1, <3>1, <3>2 DEF RoomInvariant, MadeForRoom
  <2> QED
    BY <1>1, <2>1 DEF MadeForRoom, roomVars
<1>6. OnRecord'
  <2>1. ASSUME NEW r \in Sockets, NEW p \in listed[r], rooms[channelOf[r]] = r
        PROVE  p \in late \/ \E s \in peers : p \in owned[s] /\ channelOf'[s] = channelOf'[r]
    <3>1. channelOf[r] \in Channels /\ channelOf'[r] = channelOf[r]
      BY <1>1, <1>2 DEF RoomInvariant, RoomsInUse
    <3>2. p \in late \/ \E s \in peers : p \in owned[s] /\ channelOf[s] = channelOf[r]
      BY <2>1, <3>1 DEF RoomInvariant, OnRecord
    <3>3. \A s \in peers : channelOf[s] = channelOf[r] => channelOf'[s] = channelOf[s]
      BY <1>1, <1>2, <3>1 DEF TypeOK
    <3> QED
      BY <3>1, <3>2, <3>3
  <2>2. \A r \in Sockets : listed[r] # {} => channelOf'[r] = channelOf[r]
    BY <1>1, <1>2 DEF RoomInvariant, RoomsInUse
  <2> QED
    BY <1>1, <2>1, <2>2 DEF OnRecord, roomVars
<1> QED
  BY <1>3, <1>4, <1>5, <1>6 DEF RoomInvariant

\* A socket that joins has its channel's room made if there is none, and none
\* is listed for it before it is.
LEMMA JoinKeepsRooms ==
    ASSUME TypeOK, SocketsInUse, RoomInvariant, NEW s \in Sockets,
           HandleJoinRoom(s) \/ RouterCreated(s)
    PROVE  RoomInvariant'
<1>1. UNCHANGED <<channelOf, listed, owned, making, late>>
  BY DEF HandleJoinRoom, RouterCreated, local, media, awaits, historyVars
<1>2. channelOf[s] \in Channels
  BY RoomOfType DEF HandleJoinRoom, RouterCreated, Asked
<1>3. MadeForRoom'
  BY <1>1 DEF RoomInvariant, MadeForRoom
<1>4. CASE HandleJoinRoom(s)
  <2>1. /\ UNCHANGED rooms /\ peers \subseteq peers'
        /\ \/ UNCHANGED creating
           \/ creating' = creating \cup {s} /\ rooms[channelOf[s]] = None
    BY <1>4 DEF HandleJoinRoom, RoomOf
  <2>2. RoomsAreWhere'
    BY <1>1, <1>2, <2>1 DEF RoomInvariant, RoomsAreWhere
  <2>3. RoomsInUse'
    BY <1>1, <2>1 DEF RoomInvariant, RoomsInUse, MakingAt
  <2>4. OnRecord'
    BY <1>1, <2>1 DEF RoomInvariant, OnRecord
  <2> QED
    BY <1>3, <2>2, <2>3, <2>4 DEF RoomInvariant
<1>5. CASE RouterCreated(s)
  <2>1. /\ s \in creating /\ creating' = creating \ {s} /\ peers' = peers \cup {s}
        /\ rooms' = [rooms EXCEPT ![channelOf[s]] = s]
    BY <1>5 DEF RouterCreated
  <2>2. rooms \in [Channels -> Room] /\ s # None
    BY MediaAssumption DEF TypeOK, Sockets
  <2>3. RoomsAreWhere'
    BY <1>1, <1>2, <2>1, <2>2 DEF RoomInvariant, RoomsAreWhere
  <2>4. RoomsInUse'
    BY <1>1, <1>2, <2>1, <2>2 DEF RoomInvariant, RoomsInUse, MakingAt
  <2>5. listed[s] = {}
    BY <2>1 DEF RoomInvariant, RoomsInUse
  <2>6. OnRecord'
    BY <1>1, <1>2, <2>1, <2>2, <2>5 DEF RoomInvariant, OnRecord
  <2> QED
    BY <1>3, <2>3, <2>4, <2>6 DEF RoomInvariant
<1> QED
  BY <1>4, <1>5

\* A producer is made in the room of its socket, and goes on record with the
\* peer of it; if the peer has gone by then, it is one made late.
LEMMA ProducingKeepsRooms ==
    ASSUME TypeOK, SocketsInUse, RoomInvariant,
           (\E s \in Sockets : HandleProduce(s)) \/ \E p \in Producers : ProducerMade(p)
    PROVE  RoomInvariant'
<1>1. UNCHANGED <<channelOf, rooms, creating, peers>>
  BY DEF HandleProduce, ProducerMade, local, seats
<1>2. RoomsAreWhere'
  BY <1>1 DEF RoomInvariant, RoomsAreWhere
<1>3. making \in [Producers -> Making \cup {None}] /\ rooms \in [Channels -> Room]
      /\ listed \in [Sockets -> SUBSET Producers] /\ owned \in [Sockets -> SUBSET Producers]
  BY DEF TypeOK
<1>4. ASSUME NEW s \in Sockets, HandleProduce(s)
      PROVE  RoomInvariant'
  <2>1. UNCHANGED <<listed, owned, late>>
    BY <1>4 DEF HandleProduce, media, historyVars
  <2>2. OnRecord'
    BY <1>1, <2>1 DEF RoomInvariant, OnRecord
  <2>3. PICK request : request = Head(up[s])
    OBVIOUS
  <2>4. \/ UNCHANGED making
        \/ /\ InRoom(s) /\ request.room = RoomOf(s)
           /\ making' = [making EXCEPT ![request.producer] =
                            [room |-> request.room, paused |-> request.paused, socket |-> s]]
    BY <1>4, <2>3 DEF HandleProduce
  <2>5. CASE UNCHANGED making
    BY <1>1, <1>2, <2>1, <2>2, <2>5 DEF RoomInvariant, RoomsInUse, MadeForRoom, MakingAt
  <2>6. CASE /\ InRoom(s) /\ request.room = RoomOf(s)
             /\ making' = [making EXCEPT ![request.producer] =
                              [room |-> request.room, paused |-> request.paused, socket |-> s]]
    <3>1. PICK r, m : /\ r = RoomOf(s) /\ m = [room |-> r, paused |-> request.paused, socket |-> s]
      OBVIOUS
    <3>2. channelOf[s] \in Channels /\ r \in Sockets
      BY <1>4, <2>6, <3>1, RoomOfType DEF HandleProduce, Asked, InRoom
    <3>3. r = rooms[channelOf[s]] /\ r # None
      BY <2>6, <3>1 DEF RoomOf, InRoom
    <3>4. channelOf[r] = channelOf[s] /\ r \notin creating
      BY <3>2, <3>3 DEF RoomInvariant, RoomsAreWhere
    <3>5. \A p \in Producers : making'[p] # None => making'[p] = making[p] \/ making'[p] = m
      BY <1>3, <2>6, <3>1
    <3>6. m.room = r /\ m.socket = s
      BY <3>1
    <3>7. ASSUME NEW q \in Sockets, listed[q] # {} \/ MakingAt(q)'
          PROVE  q \notin creating /\ channelOf[q] \in Channels /\ rooms[channelOf[q]] # None
      <4>1. listed[q] # {} \/ MakingAt(q) \/ q = r
        BY <3>5, <3>6, <3>7 DEF MakingAt
      <4> QED
        BY <3>2, <3>3, <3>4, <4>1 DEF RoomInvariant, RoomsInUse
    <3>8. RoomsInUse'
      BY <1>1, <2>1, <3>7 DEF RoomsInUse, MakingAt
    <3>9. MadeForRoom'
      BY <1>1, <3>4, <3>5, <3>6 DEF RoomInvariant, MadeForRoom
    <3> QED
      BY <1>2, <2>2, <3>8, <3>9 DEF RoomInvariant
  <2> QED
    BY <2>4, <2>5, <2>6
<1>5. ASSUME NEW p \in Producers, ProducerMade(p)
      PROVE  RoomInvariant'
  <2>1. PICK s, r : s = making[p].socket /\ r = making[p].room /\ making[p] # None
    BY <1>5 DEF ProducerMade
  <2>2. s \in Sockets /\ r \in Sockets
    BY <2>1, MakingType
  <2>3. /\ making' = [making EXCEPT ![p] = None]
        /\ listed' = [listed EXCEPT ![r] = @ \cup {p}]
        /\ owned' = [owned EXCEPT ![s] = IF s \in peers THEN @ \cup {p} ELSE @]
        /\ late' = IF s \in peers THEN late ELSE late \cup {p}
    BY <1>5, <2>1 DEF ProducerMade
  <2>4. \A q \in Producers : making'[q] # None => making[q] # None /\ making'[q] = making[q]
    BY <1>3, <2>3
  <2>5. \A q \in Sockets : MakingAt(q)' => MakingAt(q)
    BY <2>4 DEF MakingAt
  <2>6. MakingAt(r)
    BY <2>1 DEF MakingAt
  <2>7. \A q \in Sockets : listed'[q] # {} => listed[q] # {} \/ q = r
    BY <1>3, <2>3
  <2>8. RoomsInUse'
    <3>1. ASSUME NEW q \in Sockets, listed'[q] # {} \/ MakingAt(q)'
          PROVE  q \notin creating /\ channelOf[q] \in Channels /\ rooms[channelOf[q]] # None
      BY <2>5, <2>6, <2>7, <3>1 DEF RoomInvariant, RoomsInUse
    <3> QED
      BY <1>1, <3>1 DEF RoomsInUse
  <2>9. MadeForRoom'
    BY <1>1, <2>4 DEF RoomInvariant, MadeForRoom
  <2>10. OnRecord'
    <3>1. channelOf[s] = channelOf[r]
      BY <2>1 DEF RoomInvariant, MadeForRoom
    <3>2. \A t \in Sockets : owned[t] \subseteq owned'[t]
      BY <1>3, <2>3
    <3>3. late \subseteq late' /\ (s \notin peers => p \in late') /\ (s \in peers => p \in owned'[s])
      BY <1>3, <2>2, <2>3
    <3>4. ASSUME NEW q \in Sockets, NEW x \in listed'[q], channelOf[q] \in Channels, rooms[channelOf[q]] = q
          PROVE  x \in late' \/ \E t \in peers : x \in owned'[t] /\ channelOf[t] = channelOf[q]
      <4>1. CASE x \in listed[q]
        BY <3>2, <3>3, <3>4, <4>1 DEF RoomInvariant, OnRecord, TypeOK
      <4>2. CASE x = p /\ q = r
        BY <3>1, <3>3, <4>2
      <4> QED
        BY <1>3, <2>3, <3>4, <4>1, <4>2
    <3> QED
      BY <1>1, <3>4 DEF OnRecord
  <2> QED
    BY <1>2, <2>8, <2>9, <2>10 DEF RoomInvariant
<1> QED
  BY <1>4, <1>5

\* A client that closes takes what its peer has on record off the list of its room.
LEMMA ClosingKeepsRooms ==
    ASSUME TypeOK, SocketsInUse, RoomInvariant, NEW s \in Sockets,
           HandleCloseProducer(s) \/ HandleCloseClient(s)
    PROVE  RoomInvariant'
<1>1. UNCHANGED <<channelOf, rooms, creating, making, late>>
  BY DEF HandleCloseProducer, HandleCloseClient, local, seats, awaits, historyVars
<1>2. RoomsAreWhere' /\ MadeForRoom'
  BY <1>1 DEF RoomInvariant, RoomsAreWhere, MadeForRoom
<1>3. listed \in [Sockets -> SUBSET Producers] /\ owned \in [Sockets -> SUBSET Producers]
  BY DEF TypeOK
<1>4. \A r \in Sockets : listed'[r] \subseteq listed[r]
  BY <1>3 DEF HandleCloseProducer, HandleCloseClient, ListedOnceClosed
<1>5. RoomsInUse'
  BY <1>1, <1>4 DEF RoomInvariant, RoomsInUse, MakingAt
<1>6. OnRecord'
  <2>1. CASE UNCHANGED <<peers, owned>>
    BY <1>1, <1>4, <2>1 DEF RoomInvariant, OnRecord
  <2>2. CASE HandleCloseClient(s) /\ s \in peers
    <3>1. /\ listed' = [listed EXCEPT ![RoomOf(s)] = @ \ owned[s]]
          /\ peers' = peers \ {s} /\ owned' = [owned EXCEPT ![s] = {}]
      BY <2>2 DEF HandleCloseClient, ListedOnceClosed
    <3>2. ASSUME NEW r \in Sockets, NEW p \in listed'[r], channelOf[r] \in Channels, rooms[channelOf[r]] = r
          PROVE  p \in late \/ \E t \in peers' : p \in owned'[t] /\ channelOf[t] = channelOf[r]
      <4>1. p \in listed[r]
        BY <1>4, <3>2
      <4>2. p \in late \/ \E t \in peers : p \in owned[t] /\ channelOf[t] = channelOf[r]
        BY <3>2, <4>1 DEF RoomInvariant, OnRecord
      <4>3. ASSUME NEW t \in peers, p \in owned[t], channelOf[t] = channelOf[r]
            PROVE  t # s
        <5>1. SUFFICES ASSUME t = s
                       PROVE  FALSE
          OBVIOUS
        <5>2. RoomOf(s) = r
          BY <3>2, <4>3, <5>1 DEF RoomOf
        <5>3. p \notin listed'[r]
          BY <1>3, <3>1, <4>3, <5>1, <5>2
        <5> QED
          BY <3>2, <5>3
      <4> QED
        BY <1>3, <3>1, <4>2, <4>3 DEF TypeOK
    <3> QED
      BY <1>1, <3>2 DEF OnRecord
  <2> QED
    BY <2>1, <2>2 DEF HandleCloseProducer, HandleCloseClient, seats
<1> QED
  BY <1>2, <1>5, <1>6 DEF RoomInvariant

LEMMA RoomsKept ==
    ASSUME RoomInvariant, UNCHANGED <<roomVars, channelOf>>
    PROVE  RoomInvariant'
BY DEF RoomInvariant, RoomsAreWhere, RoomsInUse, MadeForRoom, OnRecord, MakingAt, roomVars

LEMMA NextKeepsRooms == Typed /\ RoomInvariant /\ [Next]_vars => RoomInvariant'
<1> SUFFICES ASSUME TypeOK, SocketsInUse, RoomInvariant, [Next]_vars
             PROVE  RoomInvariant'
  BY DEF Typed
<1>1. CASE \/ \E u \in Users : UserStep(u) \/ OnVoiceJoin(u) \/ OnVoiceLeave(u)
           \/ \E s \in Sockets : ClientStep(s)
  BY <1>1, ClientsKeepRooms
<1>2. ASSUME NEW s \in Sockets, ServerStep(s)
      PROVE  RoomInvariant'
  <2>1. CASE \/ HandleJoinRoom(s) \/ RouterCreated(s) \/ HandleProduce(s)
             \/ HandleCloseProducer(s) \/ HandleCloseClient(s)
    BY <2>1, JoinKeepsRooms, ProducingKeepsRooms, ClosingKeepsRooms
  <2>2. CASE \/ HandleCreateTransport(s) \/ GetProducers(s) \/ HandleConsume(s)
             \/ HandlePauseConsumer(s) \/ HandleResumeConsumer(s)
             \/ HandlePauseProducer(s) \/ HandleResumeProducer(s)
             \/ HandleCloseConsumer(s) \/ Disconnected(s)
             \/ \E p \in Producers : ConsumerMade(s, p)
    <3>1. UNCHANGED <<roomVars, channelOf>>
      BY <2>2 DEF HandleCreateTransport, GetProducers, HandleConsume, HandlePauseConsumer, HandleResumeConsumer,
                  HandlePauseProducer, HandleResumeProducer, HandleCloseConsumer, Disconnected, ConsumerMade,
                  roomVars, local, serverVars, seats, media, awaits, historyVars
    <3> QED
      BY <3>1, RoomsKept
  <2> QED
    BY <1>2, <2>1, <2>2 DEF ServerStep
<1>3. ASSUME NEW p \in Producers, ProducerMade(p)
      PROVE  RoomInvariant'
  BY <1>3, ProducingKeepsRooms
<1>4. CASE UNCHANGED vars
  <2>1. UNCHANGED <<roomVars, channelOf>>
    BY <1>4 DEF vars, local, serverVars, seats, media, awaits, historyVars, roomVars
  <2> QED
    BY <2>1, RoomsKept
<1> QED
  BY <1>1, <1>2, <1>3, <1>4 DEF Next, SystemStep

\* A producer that a room lists is on record with a peer, so that it goes when
\* the peer's client closes (Peer.close of sfu-service), unless it was made
\* when the peer had gone.
THEOREM ProducersAreOnRecord == Spec => []ListedHasPeer
<1>1. Init => RoomInvariant
  BY DEF Init, RoomInvariant, RoomsAreWhere, RoomsInUse, MadeForRoom, OnRecord, MakingAt
<1>2. Typed /\ RoomInvariant => ListedHasPeer
  <2> SUFFICES ASSUME TypeOK, RoomInvariant, NEW c \in Channels, rooms[c] # None, NEW p \in listed[rooms[c]]
               PROVE  p \in late \/ \E s \in peers : p \in owned[s]
    BY DEF Typed, ListedHasPeer
  <2>1. rooms[c] \in Sockets /\ channelOf[rooms[c]] = c
    BY DEF TypeOK, Room, RoomInvariant, RoomsAreWhere
  <2> QED
    BY <2>1 DEF RoomInvariant, OnRecord
<1> QED
  BY <1>1, <1>2, InitTyped, NextTyped, NextKeepsRooms, PTL DEF Spec

-----------------------------------------------------------------------------
(* What is under way on a socket *)

LEMMA CarriesConcat ==
    ASSUME NEW T, NEW q \in Seq(T), NEW r \in Seq(T), NEW type
    PROVE  Carries(q \o r, type) <=> Carries(q, type) \/ Carries(r, type)
<1>1. Len(q \o r) = Len(q) + Len(r) /\ DOMAIN (q \o r) = 1..(Len(q) + Len(r))
  OBVIOUS
<1>2. \A i \in 1..Len(q) : (q \o r)[i] = q[i]
  OBVIOUS
<1>3. \A i \in 1..Len(r) : (q \o r)[i + Len(q)] = r[i] /\ i + Len(q) \in DOMAIN (q \o r)
  OBVIOUS
<1>4. ASSUME NEW i \in DOMAIN (q \o r), i \notin 1..Len(q)
      PROVE  i - Len(q) \in 1..Len(r) /\ (q \o r)[i] = r[i - Len(q)]
  BY <1>1, <1>4
<1>5. DOMAIN q = 1..Len(q) /\ DOMAIN r = 1..Len(r) /\ DOMAIN q \subseteq DOMAIN (q \o r)
  BY <1>1
<1>6. ASSUME Carries(q \o r, type)
      PROVE  Carries(q, type) \/ Carries(r, type)
  <2>1. PICK i \in DOMAIN (q \o r) : (q \o r)[i].type = type
    BY <1>6 DEF Carries
  <2> QED
    BY <1>2, <1>4, <1>5, <2>1 DEF Carries
<1>7. Carries(q, type) \/ Carries(r, type) => Carries(q \o r, type)
  BY <1>2, <1>3, <1>5 DEF Carries
<1> QED
  BY <1>6, <1>7

\* Who takes the head of a queue takes nothing of another type.
LEMMA CarriesTail ==
    ASSUME NEW T, NEW q \in Seq(T), q # << >>, NEW type
    PROVE  /\ Carries(Tail(q), type) => Carries(q, type)
           /\ Carries(q, type) <=> Head(q).type = type \/ Carries(Tail(q), type)
<1>1. q = <<Head(q)>> \o Tail(q) /\ <<Head(q)>> \in Seq(T) /\ Tail(q) \in Seq(T)
  OBVIOUS
<1>2. Carries(<<Head(q)>>, type) <=> Head(q).type = type
  BY DEF Carries
<1>3. Carries(<<Head(q)>> \o Tail(q), type) <=> Carries(<<Head(q)>>, type) \/ Carries(Tail(q), type)
  BY <1>1, CarriesConcat
<1> QED
  BY <1>1, <1>2, <1>3

LEMMA CarriesPlain ==
    ASSUME NEW T, NEW q \in Seq(T), NEW P \in SUBSET T, NEW r \in Seq(P), NEW type, \A m \in P : m.type # type
    PROVE  Carries(q \o r, type) <=> Carries(q, type)
<1>1. \A i \in DOMAIN r : r[i] \in P
  OBVIOUS
<1>2. ~Carries(r, type)
  BY <1>1 DEF Carries
<1>3. r \in Seq(T)
  OBVIOUS
<1> QED
  BY <1>2, <1>3, CarriesConcat

\* A step keeps what sets a socket up or closes it: it adds no such request and no
\* such message, and takes none but from a socket that is closed.
UpKept ==
    \A t \in Sockets :
        /\ Carries(up'[t], "join") => Carries(up[t], "join")
        /\ Carries(up[t], "join") => Carries(up'[t], "join") \/ net[t] = "closed"
        /\ Carries(up'[t], "close") => Carries(up[t], "close")

DownKept == \A t \in Sockets : Carries(down'[t], "joined") <=> Carries(down[t], "joined")

LEMMA TakenKeeps ==
    ASSUME TypeOK, NEW s \in Sockets, NEW type, type # "join", Asked(s, type), Taken(s)
    PROVE  UpKept
<1>1. up[s] \in Seq(ToServer) /\ up[s] # << >> /\ Head(up[s]).type = type
  BY DEF TypeOK, Asked
<1>2. \A x : /\ Carries(Tail(up[s]), x) => Carries(up[s], x)
             /\ Carries(up[s], x) <=> Head(up[s]).type = x \/ Carries(Tail(up[s]), x)
  BY <1>1, CarriesTail
<1>3. \A t \in Sockets : up'[t] = IF t = s THEN Tail(up[s]) ELSE up[t]
  BY DEF Taken, TypeOK
<1> QED
  BY <1>1, <1>2, <1>3 DEF UpKept

LEMMA HeardKeeps ==
    ASSUME TypeOK, NEW s \in Sockets, NEW type, type # "joined", Told(s, type), Heard(s)
    PROVE  DownKept
<1>1. down[s] \in Seq(ToClient) /\ down[s] # << >> /\ Head(down[s]).type = type
  BY DEF TypeOK, Told
<1>2. Carries(down[s], "joined") <=> Head(down[s]).type = "joined" \/ Carries(Tail(down[s]), "joined")
  BY <1>1, CarriesTail
<1>3. \A t \in Sockets : down'[t] = IF t = s THEN Tail(down[s]) ELSE down[t]
  BY DEF Heard, TypeOK
<1> QED
  BY <1>1, <1>2, <1>3 DEF DownKept

LEMMA PlainKeeps ==
    ASSUME TypeOK, NEW t \in Sockets
    PROVE  /\ \A messages \in Seq(PlainUp) : \A type \in {"join", "close"} :
                 Carries(up[t] \o messages, type) <=> Carries(up[t], type)
           /\ \A messages \in Seq(PlainDown) : Carries(down[t] \o messages, "joined") <=> Carries(down[t], "joined")
<1>1. up[t] \in Seq(ToServer) /\ down[t] \in Seq(ToClient)
  BY DEF TypeOK
<1>2. /\ PlainUp \in SUBSET ToServer /\ \A m \in PlainUp : m.type # "join" /\ m.type # "close"
      /\ PlainDown \in SUBSET ToClient /\ \A m \in PlainDown : m.type # "joined"
  BY DEF PlainUp, PlainDown
<1>3. ASSUME NEW messages \in Seq(PlainUp), NEW type \in {"join", "close"}
      PROVE  Carries(up[t] \o messages, type) <=> Carries(up[t], type)
  BY <1>1, <1>2, CarriesPlain
<1>4. ASSUME NEW messages \in Seq(PlainDown)
      PROVE  Carries(down[t] \o messages, "joined") <=> Carries(down[t], "joined")
  BY <1>1, <1>2, CarriesPlain
<1> QED
  BY <1>3, <1>4

LEMMA SentKeeps ==
    ASSUME TypeOK, NEW u \in Users, NEW messages \in Seq(PlainUp), up' = Sent(u, messages)
    PROVE  UpKept
BY PlainKeeps DEF Sent, UpKept

LEMMA AskedKeeps ==
    ASSUME TypeOK, NEW k \in Sockets, NEW message \in PlainUp, up' = [up EXCEPT ![k] = Append(@, message)]
    PROVE  UpKept
<1>1. Append(up[k], message) = up[k] \o <<message>> /\ <<message>> \in Seq(PlainUp)
  BY DEF TypeOK, PlainUp
<1>2. \A t \in Sockets : up'[t] = IF t = k THEN up[k] \o <<message>> ELSE up[t]
  BY <1>1 DEF TypeOK
<1> QED
  BY <1>1, <1>2, PlainKeeps DEF UpKept

LEMMA ReplyKeeps ==
    ASSUME TypeOK, NEW s \in Sockets, NEW messages \in Seq(PlainDown), NEW t \in Sockets
    PROVE  /\ Carries(Reply(s, messages)[t], "joined") <=> Carries(down[t], "joined")
           /\ Carries(Broadcast(s, messages)[t], "joined") <=> Carries(down[t], "joined")
<1>1. Reply(s, messages)[t] \in {down[t], down[t] \o messages}
  BY DEF Reply, TypeOK
<1>2. Broadcast(s, messages)[t] \in {down[t], down[t] \o messages}
  BY DEF Broadcast
<1> QED
  BY <1>1, <1>2, PlainKeeps

\* A client asks to be closed when it closes its socket.
ClosesLast == \A s \in Sockets : Carries(up[s], "close") => net[s] = "closed"

\* What sfu-service does but to let a socket join keeps what sets a socket up.
LEMMA ServerKeepsWires ==
    ASSUME TypeOK, SocketsInUse, ClosesLast,
           \/ \E s \in Sockets : ServerStep(s) /\ ~HandleJoinRoom(s) /\ ~RouterCreated(s)
           \/ \E p \in Producers : ProducerMade(p)
    PROVE  UpKept /\ DownKept /\ UNCHANGED creating
<1>1. /\ UNCHANGED up => UpKept
      /\ UNCHANGED down => DownKept
  BY DEF UpKept, DownKept
<1>2. /\ \A p \in Producers : \A type \in {"produced", "producerJoined", "consumer", "closeProducer"} :
            <<[type |-> type, producer |-> p]>> \in Seq(PlainDown)
      /\ \A r \in Sockets : \A type \in {"send", "recv"} : <<[type |-> type, room |-> r]>> \in Seq(PlainDown)
      /\ \A S \in SUBSET Producers : <<[type |-> "producers", producers |-> S]>> \in Seq(PlainDown)
  <2>1. /\ \A p \in Producers : \A type \in {"produced", "producerJoined", "consumer", "closeProducer"} :
              [type |-> type, producer |-> p] \in PlainDown
        /\ \A r \in Sockets : \A type \in {"send", "recv"} : [type |-> type, room |-> r] \in PlainDown
        /\ \A S \in SUBSET Producers : [type |-> "producers", producers |-> S] \in PlainDown
    BY DEF PlainDown, ToClient
  <2> QED
    BY <2>1
<1>3. ASSUME NEW s \in Sockets, NEW messages \in Seq(PlainDown),
             down' \in {down, Reply(s, messages), Broadcast(s, messages)}
      PROVE  DownKept
  BY <1>3, ReplyKeeps DEF DownKept
<1>4. ASSUME NEW p \in Producers, ProducerMade(p)
      PROVE  UpKept /\ DownKept /\ UNCHANGED creating
  <2>1. PICK s, told, replied :
           /\ s = making[p].socket
           /\ told = Broadcast(s, <<[type |-> "producerJoined", producer |-> p]>>)
           /\ replied = Reply(s, <<[type |-> "produced", producer |-> p]>>)
    OBVIOUS
  <2>2. s \in Sockets
    BY <1>4, <2>1, MakingType DEF ProducerMade
  <2>3. down' = [told EXCEPT ![s] = replied[s]]
    BY <1>4, <2>1 DEF ProducerMade
  <2>4. \A t \in Sockets : down'[t] \in {told[t], replied[t]}
    BY <2>1, <2>2, <2>3 DEF Broadcast
  <2>5. \A t \in Sockets : /\ Carries(told[t], "joined") <=> Carries(down[t], "joined")
                           /\ Carries(replied[t], "joined") <=> Carries(down[t], "joined")
    BY <1>2, <2>1, <2>2, ReplyKeeps
  <2> QED
    BY <1>1, <1>4, <2>4, <2>5 DEF ProducerMade, seats, DownKept
<1>5. ASSUME NEW s \in Sockets, ServerStep(s), ~HandleJoinRoom(s), ~RouterCreated(s)
      PROVE  UpKept /\ DownKept /\ UNCHANGED creating
  <2>1. UNCHANGED creating
    BY <1>5 DEF ServerStep, HandleCreateTransport, HandleProduce, GetProducers,
                HandleConsume, HandlePauseConsumer, HandleResumeConsumer, HandlePauseProducer,
                HandleResumeProducer, HandleCloseProducer, HandleCloseConsumer, HandleCloseClient,
                Disconnected, ConsumerMade, serverVars, seats
  <2>2. PICK request : request = Head(up[s])
    OBVIOUS
  <2>3. ASSUME NEW type \in {"produce", "consume", "pauseConsumers", "resumeConsumers", "pause", "resume",
                             "closeProducer", "closeConsumer", "send", "recv", "producers", "bye"},
               Asked(s, type), Taken(s)
        PROVE  UpKept
    BY <2>3, TakenKeeps
  <2>4. CASE HandleCreateTransport(s)
    <3>1. PICK type \in {"send", "recv"} :
             /\ Asked(s, type) /\ Taken(s)
             /\ down' = IF InRoom(s) THEN Reply(s, <<[type |-> type, room |-> RoomOf(s)]>>) ELSE down
      BY <2>4 DEF HandleCreateTransport
    <3>2. InRoom(s) => RoomOf(s) \in Sockets
      BY <3>1, RoomOfType DEF InRoom, Asked
    <3>3. DownKept
      BY <1>1, <1>2, <1>3, <3>1, <3>2
    <3> QED
      BY <2>1, <2>3, <3>1, <3>3
  <2>5. CASE GetProducers(s)
    <3>1. /\ Asked(s, "producers") /\ Taken(s)
          /\ down' = IF InRoom(s) THEN Reply(s, <<[type |-> "producers", producers |-> listed[RoomOf(s)]]>>) ELSE down
      BY <2>5 DEF GetProducers
    <3>2. InRoom(s) => listed[RoomOf(s)] \in SUBSET Producers
      BY <3>1, RoomOfType DEF InRoom, Asked, TypeOK
    <3>3. DownKept
      BY <1>1, <1>2, <1>3, <3>1, <3>2
    <3> QED
      BY <2>1, <2>3, <3>1, <3>3
  <2>6. CASE \/ HandleProduce(s) \/ HandleConsume(s) \/ HandlePauseConsumer(s) \/ HandleResumeConsumer(s)
             \/ HandlePauseProducer(s) \/ HandleResumeProducer(s) \/ HandleCloseConsumer(s) \/ Disconnected(s)
    BY <1>1, <2>1, <2>3, <2>6 DEF HandleProduce, HandleConsume, HandlePauseConsumer, HandleResumeConsumer,
        HandlePauseProducer, HandleResumeProducer, HandleCloseConsumer, Disconnected
  <2>7. CASE HandleCloseProducer(s)
    <3>1. PICK p : p = Head(up[s]).producer
      OBVIOUS
    <3>2. /\ Asked(s, "closeProducer") /\ Taken(s)
          /\ down' \in {down, Broadcast(s, <<[type |-> "closeProducer", producer |-> p]>>)}
      BY <2>7, <3>1 DEF HandleCloseProducer
    <3>3. Head(up[s]) \in ToServer /\ Head(up[s]).type = "closeProducer"
      BY <3>2, TakenType, TypeParts
    <3>4. p \in Producers
      BY <3>1, <3>3 DEF ToServer
    <3>5. DownKept
      BY <1>2, <1>3, <3>2, <3>4
    <3> QED
      BY <2>1, <2>3, <3>2, <3>5
  <2>8. CASE HandleCloseClient(s)
    <3>1. Asked(s, "close") /\ owned[s] \in SUBSET Producers /\ up \in [Sockets -> Seq(ToServer)]
      BY <2>8 DEF HandleCloseClient, TypeOK
    <3>2. CASE s \notin peers
      <4>1. Taken(s) /\ UNCHANGED down
        BY <2>8, <3>2 DEF HandleCloseClient
      <4> QED
        BY <1>1, <2>1, <3>1, <4>1, TakenKeeps
    <3>3. CASE s \in peers
      <4>1. up' = [up EXCEPT ![s] = << >>] /\ down' = Broadcast(s, Closings(owned[s]))
        BY <2>8, <3>3 DEF HandleCloseClient
      <4>2. Closings(owned[s]) \in Seq(PlainDown)
        BY <3>1, ClosingsType
      <4>3. DownKept
        BY <1>3, <4>1, <4>2
      <4>4. Carries(up[s], "close")
        <5>1. up[s] \in Seq(ToServer) /\ up[s] # << >> /\ Head(up[s]).type = "close"
          BY <3>1 DEF Asked
        <5> QED
          BY <5>1, CarriesTail
      <4>5. \A type : ~Carries(<< >>, type)
        BY DEF Carries
      <4>6. \A t \in Sockets : up'[t] = IF t = s THEN << >> ELSE up[t]
        BY <3>1, <4>1
      <4>7. UpKept
        BY <4>4, <4>5, <4>6 DEF UpKept, ClosesLast
      <4> QED
        BY <2>1, <4>3, <4>7
    <3> QED
      BY <3>2, <3>3
  <2>9. ASSUME NEW p \in Producers, ConsumerMade(s, p)
        PROVE  UpKept /\ DownKept
    BY <1>1, <1>2, <1>3, <2>9 DEF ConsumerMade
  <2> QED
    BY <1>5, <2>1, <2>4, <2>5, <2>6, <2>7, <2>8, <2>9 DEF ServerStep
<1> QED
  BY <1>4, <1>5

\* A user who acts, and a client that exchanges media, change neither the socket nor
\* the channel of a client, and no user asks for less.
SameCall ==
    /\ \A u \in Users : store'[u].socket = store[u].socket /\ store'[u].channel = store[u].channel
    /\ \A u \in Users : voice'[u] = voice[u] \/ \E e : voice'[u] = Append(voice[u], e)
    /\ UNCHANGED <<calls, net, channelOf, loading, creating, hasty>>

LEMMA UserKeepsWires ==
    ASSUME TypeOK, SocketsInUse, NEW u \in Users, UserStep(u)
    PROVE  UpKept /\ DownKept /\ SameCall
<1>1. PICK st : st = store[u] /\ st \in Store
  BY DEF TypeOK
<1>2. /\ UNCHANGED up => UpKept
      /\ UNCHANGED down => DownKept
  BY DEF UpKept, DownKept
<1>3. UNCHANGED <<calls, net, channelOf, loading, creating, hasty, down>>
  BY DEF UserStep, JoinCall, JoinChannel, LeaveCall, HangUp, Click, SetMuted, SetDeafened, StartScreenShare,
         StopScreenShare, serverVars, seats, clientVars, historyVars
<1>4. ASSUME NEW new, new.socket = st.socket, new.channel = st.channel, store' \in {store, [store EXCEPT ![u] = new]},
             UNCHANGED voice
      PROVE  SameCall
  <2>1. \A w \in Users : store'[w] = store[w] \/ (w = u /\ store'[w] = new)
    BY <1>4 DEF TypeOK
  <2> QED
    BY <1>1, <1>3, <1>4, <2>1 DEF SameCall
<1>5. /\ [type |-> "resumeConsumers"] \in PlainUp /\ [type |-> "pauseConsumers"] \in PlainUp
  BY DEF PlainUp, ToServer
<1>6. ASSUME NEW type, NEW c, Click(u, type, c)
      PROVE  UpKept /\ DownKept /\ SameCall
  <2>1. UNCHANGED <<store, up>> /\ voice' = [voice EXCEPT ![u] = Append(@, [type |-> type, channel |-> c])]
    BY <1>6 DEF Click
  <2>2. \A w \in Users : voice'[w] = voice[w] \/ \E e : voice'[w] = Append(voice[w], e)
    BY <2>1 DEF TypeOK
  <2> QED
    BY <1>2, <1>3, <2>1, <2>2 DEF SameCall
<1>7. CASE SetMuted(u)
  <2>1. PICK heads, tails : /\ heads = FollowsMuted(u, ~settings[u].muted)
                            /\ tails = IF Undeafens(u) THEN <<[type |-> "resumeConsumers"]>> ELSE << >>
    OBVIOUS
  <2>2. Microphones(u) \in SUBSET Producers
    BY <1>1 DEF Microphones, Store
  <2>3. heads \in Seq(PlainUp) /\ tails \in Seq(PlainUp)
    BY <1>5, <2>1, <2>2, RequestsType DEF FollowsMuted
  <2>4. heads \o tails \in Seq(PlainUp) /\ up' = Sent(u, heads \o tails)
    BY <1>7, <2>1, <2>3 DEF SetMuted
  <2>5. PICK new : new = [st EXCEPT !.silenced = IF Undeafens(u) THEN {} ELSE @]
    OBVIOUS
  <2>6. store' = [store EXCEPT ![u] = new] /\ UNCHANGED voice
    BY <1>1, <1>7, <2>5 DEF SetMuted
  <2>7. new.socket = st.socket /\ new.channel = st.channel
    BY <1>1, <2>5 DEF Store
  <2> QED
    BY <1>2, <1>3, <1>4, <2>4, <2>6, <2>7, SentKeeps
<1>8. CASE SetDeafened(u)
  <2>1. PICK message : message = [type |-> IF ~settings[u].deafened THEN "pauseConsumers" ELSE "resumeConsumers"]
    OBVIOUS
  <2>2. <<message>> \in Seq(PlainUp) /\ up' = Sent(u, <<message>>)
    BY <1>5, <1>8, <2>1 DEF SetDeafened
  <2>3. PICK silent, new : /\ silent = IF ~settings[u].deafened THEN {p \in Held(u) : IsAudio(p)} ELSE {}
                           /\ new = [st EXCEPT !.silenced = silent]
    OBVIOUS
  <2>4. store' = [store EXCEPT ![u] = new] /\ UNCHANGED voice
    BY <1>1, <1>8, <2>3 DEF SetDeafened
  <2>5. new.socket = st.socket /\ new.channel = st.channel
    BY <1>1, <2>3 DEF Store
  <2> QED
    BY <1>2, <1>3, <1>4, <2>2, <2>4, <2>5, SentKeeps
<1>9. CASE StartScreenShare(u)
  <2>1. PICK t : t = st.send
    OBVIOUS
  <2>2. t \in Sockets /\ sending[t].mic # "none"
    BY <1>1, <1>9, <2>1 DEF StartScreenShare, Store, Room, SocketsInUse
  <2>3. sending[t] \in Transport
    BY <2>2 DEF TypeOK, NoTransport
  <2>4. PICK k, message :
           /\ k = sending[t].socket
           /\ message = [type |-> "produce", producer |-> <<t, "screen">>, paused |-> FALSE, room |-> sending[t].room]
    OBVIOUS
  <2>5. up' \in {up, [up EXCEPT ![k] = Append(@, message)]} /\ (k = None => up' = up) /\ UNCHANGED <<store, voice>>
    BY <1>1, <1>9, <2>1, <2>4 DEF StartScreenShare, clientVars
  <2>6. k # None => k \in Sockets /\ message \in PlainUp
    <3>1. k \in Room /\ sending[t].room \in Room /\ <<t, "screen">> \in Producers
      BY <2>2, <2>3, <2>4 DEF Transport, Room, Producers, Kinds
    <3> QED
      BY <2>4, <3>1 DEF PlainUp, ToServer, Room
  <2> QED
    BY <1>2, <1>3, <1>4, <2>5, <2>6, AskedKeeps
<1>10. CASE StopScreenShare(u)
  <2>1. PICK p \in ScreenOf(u) :
           /\ up' = Sent(u, Requests("closeProducer", {p}))
           /\ store' = [store EXCEPT ![u].producers = @ \ {p}]
    BY <1>10 DEF StopScreenShare
  <2>2. {p} \in SUBSET Producers
    BY <1>1 DEF ScreenOf, Store
  <2>3. Requests("closeProducer", {p}) \in Seq(PlainUp)
    BY <2>2, RequestsType
  <2>4. PICK new : new = [st EXCEPT !.producers = @ \ {p}]
    OBVIOUS
  <2>5. store' = [store EXCEPT ![u] = new] /\ UNCHANGED voice
    BY <1>1, <1>10, <2>1, <2>4 DEF StopScreenShare
  <2>6. new.socket = st.socket /\ new.channel = st.channel
    BY <1>1, <2>4 DEF Store
  <2> QED
    BY <1>2, <1>3, <1>4, <2>1, <2>3, <2>5, <2>6, SentKeeps
<1> QED
  BY <1>6, <1>7, <1>8, <1>9, <1>10 DEF UserStep, JoinCall, JoinChannel, LeaveCall, HangUp

LEMMA ExchangeKeepsWires ==
    ASSUME TypeOK, SocketsInUse, NEW s \in Sockets,
           \/ OnCreateSendTransport(s) \/ OnCreateRecvTransport(s)
           \/ Produce(s) \/ OnProduced(s) \/ OnGetChannelProducers(s)
           \/ OnProducerJoined(s) \/ OnConsumerCreated(s) \/ OnCloseProducer(s)
    PROVE  UpKept /\ DownKept /\ SameCall
<1>1. PICK u : u = UserOf(s) /\ u \in Users
  BY UserOfType
<1>2. PICK st : st = store[u] /\ st \in Store
  BY <1>1 DEF TypeOK
<1>3. /\ UNCHANGED up => UpKept
      /\ UNCHANGED down => DownKept
  BY DEF UpKept, DownKept
<1>4. UNCHANGED <<calls, voice, net, channelOf, loading, creating, hasty>>
  BY DEF OnCreateSendTransport, OnCreateRecvTransport, Produce, OnProduced, OnGetChannelProducers,
         OnProducerJoined, OnConsumerCreated, OnCloseProducer, clientVars, local, serverVars, seats, historyVars
<1>5. ASSUME NEW new, new.socket = st.socket, new.channel = st.channel, store' \in {store, [store EXCEPT ![u] = new]}
      PROVE  SameCall
  <2>1. \A w \in Users : store'[w] = store[w] \/ (w = u /\ store'[w] = new)
    BY <1>5 DEF TypeOK
  <2> QED
    BY <1>2, <1>4, <1>5, <2>1 DEF SameCall
<1>6. PICK p : p = Head(down[s]).producer
  OBVIOUS
<1>7. ASSUME NEW type \in {"send", "recv", "produced", "producers", "producerJoined", "consumer", "closeProducer"},
             Told(s, type), Heard(s)
      PROVE  DownKept /\ Head(down[s]) \in ToClient /\ Head(down[s]).type = type
  <2>1. WireTypes
    BY TypeParts
  <2> QED
    BY <1>7, <2>1, HeardKeeps, HeardType
<1>8. CASE OnCreateSendTransport(s)
  <2>1. PICK new : new = [st EXCEPT !.send = s]
    OBVIOUS
  <2>2. new.socket = st.socket /\ new.channel = st.channel
    BY <1>2, <2>1 DEF Store
  <2>3. store' \in {store, [store EXCEPT ![u] = new]} /\ UNCHANGED up
    BY <1>1, <1>2, <1>8, <2>1 DEF OnCreateSendTransport
  <2> QED
    BY <1>3, <1>5, <1>7, <1>8, <2>2, <2>3 DEF OnCreateSendTransport
<1>9. CASE OnCreateRecvTransport(s)
  <2>1. PICK new, message : new = [st EXCEPT !.recv = s] /\ message = [type |-> "producers"]
    OBVIOUS
  <2>2. new.socket = st.socket /\ new.channel = st.channel
    BY <1>2, <2>1 DEF Store
  <2>3. store' \in {store, [store EXCEPT ![u] = new]} /\ up' \in {up, Sent(u, <<message>>)}
    BY <1>1, <1>2, <1>9, <2>1 DEF OnCreateRecvTransport
  <2>4. message \in PlainUp
    BY <2>1 DEF PlainUp, ToServer
  <2>5. <<message>> \in Seq(PlainUp)
    BY <2>4
  <2> QED
    BY <1>1, <1>3, <1>5, <1>7, <1>9, <2>2, <2>3, <2>5, SentKeeps DEF OnCreateRecvTransport
<1>10. CASE Produce(s)
  <2>1. PICK k, message :
           /\ k = sending[s].socket
           /\ message = [type |-> "produce", producer |-> <<s, "audio">>,
                         paused |-> sending[s].muted, room |-> sending[s].room]
    OBVIOUS
  <2>2. sending[s] \in Transport
    BY <1>10 DEF Produce, TypeOK, NoTransport
  <2>3. k \in Room /\ sending[s].room \in Room /\ sending[s].muted \in BOOLEAN /\ <<s, "audio">> \in Producers
    BY <2>1, <2>2 DEF Transport, Room, Producers, Kinds
  <2>4. k # None => k \in Sockets /\ message \in PlainUp
    BY <2>1, <2>3 DEF PlainUp, ToServer, Room
  <2>5. up' \in {up, [up EXCEPT ![k] = Append(@, message)]} /\ (k = None => up' = up) /\ UNCHANGED <<down, store>>
    BY <1>10, <2>1 DEF Produce, clientVars
  <2> QED
    BY <1>2, <1>3, <1>5, <2>4, <2>5, AskedKeeps
<1>11. CASE OnProduced(s)
  <2>1. PICK new : new = [st EXCEPT !.producers = @ \cup {p}]
    OBVIOUS
  <2>2. new.socket = st.socket /\ new.channel = st.channel
    BY <1>2, <2>1 DEF Store
  <2>3. store' \in {store, [store EXCEPT ![u] = new]} /\ UNCHANGED up
    BY <1>1, <1>2, <1>6, <1>11, <2>1 DEF OnProduced
  <2> QED
    BY <1>3, <1>5, <1>7, <1>11, <2>2, <2>3 DEF OnProduced
<1>12. CASE OnGetChannelProducers(s)
  <2>1. DownKept /\ Head(down[s]) \in ToClient /\ Head(down[s]).type = "producers"
    BY <1>7, <1>12 DEF OnGetChannelProducers
  <2>2. Head(down[s]).producers \in SUBSET Producers
    BY <2>1 DEF ToClient
  <2>3. up' = Sent(u, Consumptions(u, Head(down[s]).producers)) /\ UNCHANGED store
    BY <1>1, <1>12 DEF OnGetChannelProducers, local, clientVars
  <2>4. Consumptions(u, Head(down[s]).producers) \in Seq(PlainUp)
    BY <1>1, <2>2, ConsumptionsType
  <2> QED
    BY <1>1, <1>2, <1>5, <2>1, <2>3, <2>4, SentKeeps
<1>13. CASE OnProducerJoined(s)
  <2>1. DownKept /\ p \in Producers
    BY <1>6, <1>7, <1>13 DEF OnProducerJoined, ToClient
  <2>2. up' \in {up, Sent(u, Consumptions(u, {p}))} /\ UNCHANGED store
    BY <1>1, <1>6, <1>13 DEF OnProducerJoined, local, clientVars
  <2>3. Consumptions(u, {p}) \in Seq(PlainUp)
    BY <1>1, <2>1, ConsumptionsType
  <2> QED
    BY <1>1, <1>2, <1>3, <1>5, <2>1, <2>2, <2>3, SentKeeps
<1>14. CASE OnConsumerCreated(s)
  <2>1. PICK new, message : /\ new = [st EXCEPT !.consumers[p] = @ + 1, !.silenced = @ \ {p}]
                            /\ message = [type |-> "resumeConsumers"]
    OBVIOUS
  <2>2. new.socket = st.socket /\ new.channel = st.channel
    BY <1>2, <2>1 DEF Store
  <2>3. store' \in {store, [store EXCEPT ![u] = new]} /\ up' \in {up, Sent(u, <<message>>)}
    BY <1>1, <1>2, <1>6, <1>14, <2>1 DEF OnConsumerCreated
  <2>4. message \in PlainUp
    BY <2>1 DEF PlainUp, ToServer
  <2>5. <<message>> \in Seq(PlainUp)
    BY <2>4
  <2> QED
    BY <1>1, <1>3, <1>5, <1>7, <1>14, <2>2, <2>3, <2>5, SentKeeps DEF OnConsumerCreated
<1>15. CASE OnCloseProducer(s)
  <2>1. PICK new : new = [st EXCEPT !.consumers[p] = @ - 1]
    OBVIOUS
  <2>2. new.socket = st.socket /\ new.channel = st.channel
    BY <1>2, <2>1 DEF Store
  <2>3. DownKept /\ p \in Producers
    BY <1>6, <1>7, <1>15 DEF OnCloseProducer, ToClient
  <2>4. /\ store' \in {store, [store EXCEPT ![u] = new]}
        /\ up' \in {up, Sent(u, Requests("closeConsumer", {p}))}
    BY <1>1, <1>2, <1>6, <1>15, <2>1 DEF OnCloseProducer
  <2>5. Requests("closeConsumer", {p}) \in Seq(PlainUp)
    BY <2>3, RequestsType
  <2> QED
    BY <1>1, <1>3, <1>5, <2>2, <2>3, <2>4, <2>5, SentKeeps
<1> QED
  BY <1>8, <1>9, <1>10, <1>11, <1>12, <1>13, <1>14, <1>15

-----------------------------------------------------------------------------
(* The client is connected to the call its user is in *)

\* A user's leave of a channel is asked for.
IsLeaving(u, c) == \E i \in DOMAIN voice[u] : voice[u][i] = [type |-> "leave", channel |-> c]

\* A socket is being set up.
Awaited(s) == net[s] = "connecting" \/ s \in loading \/ JoinUnderWay(s)

OwnSocket(u) == store[u].socket \in SocketsOf(u) \cup {None}

\* What is set up is the socket of the client, for a call that its user is in.
SetUpForCall(u) ==
    \A s \in SocketsOf(u) : Awaited(s) =>
        net[s] \in {"connecting", "open"} /\ store[u].socket = s /\ channelOf[s] \in calls[u]

ConnectedInCall(u) == store[u].channel # None => store[u].channel \in calls[u]

\* The user is in the call the client has a socket for, and about to leave any other.
CallHasSocket(u) ==
    \A c \in calls[u] : IsLeaving(u, c) \/ (store[u].socket # None /\ channelOf[store[u].socket] = c)

\* A socket that is set up has set the channel.
ConnectedOnceSetUp(u) ==
    store[u].socket # None /\ ~Awaited(store[u].socket) => store[u].channel = channelOf[store[u].socket]

FollowsCall(u) == SetUpForCall(u) /\ ConnectedInCall(u) /\ CallHasSocket(u) /\ ConnectedOnceSetUp(u)

CallInvariant == ClosesLast /\ \A u \in Users : OwnSocket(u) /\ (u \notin hasty => FollowsCall(u))

\* A step that changes neither what a client is connected to nor the calls it shows.
CallKept ==
    /\ \A u \in Users : store'[u].socket = store[u].socket /\ store'[u].channel = store[u].channel
    /\ \A u \in Users : voice'[u] = voice[u] \/ \E e : voice'[u] = Append(voice[u], e)
    /\ UNCHANGED <<calls, net, channelOf, hasty>>

LEMMA LeavesStay ==
    ASSUME TypeOK, NEW u \in Users, NEW c, IsLeaving(u, c),
           voice'[u] = voice[u] \/ \E e : voice'[u] = Append(voice[u], e)
    PROVE  IsLeaving(u, c)'
<1>1. PICK T, q : q = voice[u] /\ q \in Seq(T)
  BY DEF TypeOK
<1>2. PICK i \in DOMAIN q : q[i] = [type |-> "leave", channel |-> c]
  BY <1>1 DEF IsLeaving
<1>3. \A e : i \in DOMAIN Append(q, e) /\ Append(q, e)[i] = q[i]
  BY <1>1, <1>2
<1>4. i \in DOMAIN voice'[u] /\ voice'[u][i] = q[i]
  BY <1>1, <1>2, <1>3
<1> QED
  BY <1>2, <1>4 DEF IsLeaving

LEMMA CallIsKept ==
    ASSUME TypeOK, CallInvariant, ClosesLast', CallKept,
           \A u \in Users \ hasty : \A s \in SocketsOf(u) : Awaited(s)' <=> Awaited(s)
    PROVE  CallInvariant'
<1>1. ASSUME NEW u \in Users
      PROVE  OwnSocket(u)'
  BY DEF CallInvariant, OwnSocket, CallKept
<1>2. ASSUME NEW u \in Users, u \notin hasty
      PROVE  FollowsCall(u)'
  <2>1. /\ FollowsCall(u) /\ OwnSocket(u)
        /\ \A s \in SocketsOf(u) : Awaited(s)' <=> Awaited(s)
    BY <1>2 DEF CallInvariant
  <2>2. /\ store'[u].socket = store[u].socket /\ store'[u].channel = store[u].channel
        /\ UNCHANGED <<calls, net, channelOf>>
        /\ \A c : IsLeaving(u, c) => IsLeaving(u, c)'
    BY LeavesStay DEF CallKept
  <2>3. SetUpForCall(u)'
    BY <2>1, <2>2 DEF FollowsCall, SetUpForCall
  <2>4. ConnectedInCall(u)'
    BY <2>1, <2>2 DEF FollowsCall, ConnectedInCall
  <2>5. CallHasSocket(u)'
    BY <2>1, <2>2 DEF FollowsCall, CallHasSocket
  <2>6. ConnectedOnceSetUp(u)'
    <3>1. PICK k : k = store[u].socket
      OBVIOUS
    <3>2. k = store'[u].socket /\ (k # None => (Awaited(k)' <=> Awaited(k)))
      BY <2>1, <2>2, <3>1 DEF OwnSocket
    <3>3. k # None /\ ~Awaited(k)' => store'[u].channel = channelOf'[k]
      BY <2>1, <2>2, <3>1, <3>2 DEF FollowsCall, ConnectedOnceSetUp
    <3> QED
      BY <3>2, <3>3 DEF ConnectedOnceSetUp
  <2> QED
    BY <2>3, <2>4, <2>5, <2>6 DEF FollowsCall
<1>3. UNCHANGED hasty
  BY DEF CallKept
<1> QED
  BY <1>1, <1>2, <1>3 DEF CallInvariant

\* What is under way for a user who was not hasty is so on a socket that is not closed.
LEMMA WiresKeepCall ==
    ASSUME TypeOK, CallInvariant, UpKept, DownKept, SameCall
    PROVE  CallInvariant'
<1>1. ClosesLast'
  BY DEF CallInvariant, ClosesLast, UpKept, SameCall
<1>2. ASSUME NEW u \in Users \ hasty, NEW s \in SocketsOf(u)
      PROVE  Awaited(s)' <=> Awaited(s)
  <2>1. s \in Sockets /\ (Awaited(s) => net[s] # "closed")
    BY DEF CallInvariant, FollowsCall, SetUpForCall, SocketsOf, Sockets
  <2>2. UNCHANGED <<net, loading, creating>>
    BY DEF SameCall
  <2> QED
    BY <2>1, <2>2 DEF Awaited, JoinUnderWay, UpKept, DownKept
<1>3. CallKept
  BY DEF SameCall, CallKept
<1> QED
  BY <1>1, <1>2, <1>3, CallIsKept

\* A request to join is answered, at once or when there is a router.
LEMMA JoinKeepsCall ==
    ASSUME TypeOK, CallInvariant, NEW s \in Sockets, HandleJoinRoom(s) \/ RouterCreated(s)
    PROVE  CallInvariant'
<1>1. CallKept /\ UNCHANGED <<net, loading>>
  BY DEF HandleJoinRoom, RouterCreated, local, clientVars, historyVars, CallKept
<1>2. PICK message : message = [type |-> "joined"]
  OBVIOUS
<1>3. message \in ToClient
  BY <1>2 DEF ToClient
<1>4. Reply(s, <<message>>) = [down EXCEPT ![s] = IF Reaches(s) THEN @ \o <<message>> ELSE @]
  BY DEF Reply
<1>5. \A t \in Sockets : Reply(s, <<message>>)[t] = IF t = s /\ Reaches(s) THEN down[s] \o <<message>> ELSE down[t]
  BY <1>4 DEF TypeOK
<1>6. Carries(down[s] \o <<message>>, "joined")
  <2>1. down[s] \in Seq(ToClient) /\ <<message>> \in Seq(ToClient) /\ Carries(<<message>>, "joined")
    BY <1>2, <1>3 DEF TypeOK, Carries
  <2> QED
    BY <2>1, CarriesConcat
<1>7. CASE HandleJoinRoom(s)
  <2>1. up[s] \in Seq(ToServer) /\ up[s] # << >> /\ Head(up[s]).type = "join"
    BY <1>7 DEF HandleJoinRoom, Asked, TypeOK
  <2>2. /\ Carries(up[s], "join")
        /\ \A type : Carries(Tail(up[s]), type) => Carries(up[s], type)
    BY <2>1, CarriesTail
  <2>3. \A t \in Sockets : up'[t] = IF t = s THEN Tail(up[s]) ELSE up[t]
    BY <1>7 DEF HandleJoinRoom, Taken, TypeOK
  <2>4. ClosesLast'
    BY <1>1, <2>2, <2>3 DEF CallInvariant, ClosesLast
  <2>5. \/ down' = down /\ creating' = creating \cup {s}
        \/ down' = Reply(s, <<message>>) /\ creating' = creating
    BY <1>2, <1>7 DEF HandleJoinRoom
  <2>6. ASSUME NEW u \in Users \ hasty, NEW t \in SocketsOf(u)
        PROVE  Awaited(t)' <=> Awaited(t)
    <3>1. t \in Sockets /\ (Awaited(t) => net[t] \in {"connecting", "open"})
      BY DEF CallInvariant, FollowsCall, SetUpForCall, SocketsOf, Sockets
    <3>2. CASE t # s
      BY <1>1, <1>5, <2>3, <2>5, <3>1, <3>2 DEF Awaited, JoinUnderWay
    <3>3. CASE t = s
      <4>1. Awaited(s) /\ net[s] \in {"connecting", "open"}
        BY <2>2, <3>1, <3>3 DEF Awaited, JoinUnderWay
      <4>2. Awaited(s)'
        BY <1>1, <1>5, <1>6, <2>5, <4>1 DEF Awaited, JoinUnderWay, Reaches
      <4> QED
        BY <3>3, <4>1, <4>2
    <3> QED
      BY <3>2, <3>3
  <2> QED
    BY <1>1, <2>4, <2>6, CallIsKept
<1>8. CASE RouterCreated(s)
  <2>1. s \in creating /\ creating' = creating \ {s} /\ down' = Reply(s, <<message>>) /\ UNCHANGED up
    BY <1>2, <1>8 DEF RouterCreated
  <2>2. ClosesLast'
    BY <1>1, <2>1 DEF CallInvariant, ClosesLast
  <2>3. ASSUME NEW u \in Users \ hasty, NEW t \in SocketsOf(u)
        PROVE  Awaited(t)' <=> Awaited(t)
    <3>1. t \in Sockets /\ (Awaited(t) => net[t] \in {"connecting", "open"})
      BY DEF CallInvariant, FollowsCall, SetUpForCall, SocketsOf, Sockets
    <3>2. CASE t # s
      BY <1>1, <1>5, <2>1, <3>1, <3>2 DEF Awaited, JoinUnderWay
    <3>3. CASE t = s
      <4>1. Awaited(s) /\ net[s] \in {"connecting", "open"}
        BY <2>1, <3>1, <3>3 DEF Awaited, JoinUnderWay
      <4>2. Awaited(s)'
        BY <1>1, <1>5, <1>6, <2>1, <4>1 DEF Awaited, JoinUnderWay, Reaches
      <4> QED
        BY <3>3, <4>1, <4>2
    <3> QED
      BY <3>2, <3>3
  <2> QED
    BY <1>1, <2>2, <2>3, CallIsKept
<1> QED
  BY <1>7, <1>8

\* A socket connects and joins, and its device is loaded.
LEMMA SetUpKeepsCall ==
    ASSUME TypeOK, SocketsInUse, CallInvariant, NEW s \in Sockets,
           Connect(s) \/ OnRoomJoined(s) \/ DeviceLoaded(s)
    PROVE  CallInvariant'
<1>1. PICK u : u = UserOf(s) /\ u \in Users /\ s \in SocketsOf(u)
  <2>1. UserOf(s) \in Users /\ s \in SocketsOf(UserOf(s))
    BY DEF Sockets, SocketsOf, UserOf
  <2> QED
    BY <2>1
<1>2. \A w \in Users \ {u} : s \notin SocketsOf(w)
  BY <1>1 DEF SocketsOf, Sockets
<1>3. CASE Connect(s)
  <2>1. /\ net[s] = "connecting" /\ net' = [net EXCEPT ![s] = "open"]
        /\ UNCHANGED <<store, voice, calls, channelOf, loading, down, creating, hasty>>
        /\ up' = [up EXCEPT ![s] = Append(@, [type |-> "join"])]
    BY <1>3 DEF Connect, clientVars, serverVars, seats, historyVars
  <2>2. PICK message : message = [type |-> "join"] /\ message \in ToServer
    <3>1. [type |-> "join"] \in ToServer
      BY DEF ToServer
    <3> QED
      BY <3>1
  <2>3. \A t \in Sockets : /\ net'[t] = IF t = s THEN "open" ELSE net[t]
                           /\ up'[t] = IF t = s THEN up[s] \o <<message>> ELSE up[t]
    <3>1. up[s] \in Seq(ToServer)
      BY DEF TypeOK
    <3>2. Append(up[s], message) = up[s] \o <<message>>
      BY <2>2, <3>1
    <3>3. up' = [up EXCEPT ![s] = Append(@, message)]
      BY <2>1, <2>2
    <3> QED
      BY <2>1, <3>2, <3>3 DEF TypeOK
  <2>4. \A type : Carries(up[s] \o <<message>>, type) <=> Carries(up[s], type) \/ type = "join"
    <3>1. up[s] \in Seq(ToServer) /\ <<message>> \in Seq(ToServer)
      BY <2>2 DEF TypeOK
    <3>2. \A type : Carries(<<message>>, type) <=> type = "join"
      BY <2>2 DEF Carries
    <3> QED
      BY <3>1, <3>2, CarriesConcat
  <2>5. ClosesLast'
    BY <2>1, <2>3, <2>4 DEF CallInvariant, ClosesLast
  <2>6. \A t \in Sockets : Awaited(t)' <=> Awaited(t)
    BY <2>1, <2>3, <2>4 DEF Awaited, JoinUnderWay
  <2>7. ASSUME NEW w \in Users
        PROVE  OwnSocket(w)' /\ (w \notin hasty => FollowsCall(w)')
    <3>1. OwnSocket(w) /\ (w \notin hasty => FollowsCall(w)) /\ SocketsOf(w) \subseteq Sockets
      BY DEF CallInvariant, SocketsOf, Sockets
    <3>2. OwnSocket(w)'
      BY <2>1, <3>1 DEF OwnSocket
    <3>3. SetUpForCall(w) => SetUpForCall(w)'
      BY <2>1, <2>3, <2>6, <3>1 DEF SetUpForCall
    <3>4. ConnectedInCall(w) => ConnectedInCall(w)'
      BY <2>1 DEF ConnectedInCall
    <3>5. CallHasSocket(w) => CallHasSocket(w)'
      BY <2>1 DEF CallHasSocket, IsLeaving
    <3>6. ConnectedOnceSetUp(w) => ConnectedOnceSetUp(w)'
      <4>1. PICK k : k = store[w].socket /\ k = store'[w].socket
        BY <2>1
      <4>2. k # None => (Awaited(k)' <=> Awaited(k))
        BY <2>6, <3>1, <4>1 DEF OwnSocket
      <4> QED
        BY <2>1, <4>1, <4>2 DEF ConnectedOnceSetUp
    <3> QED
      BY <3>1, <3>2, <3>3, <3>4, <3>5, <3>6 DEF FollowsCall
  <2> QED
    BY <2>1, <2>5, <2>7 DEF CallInvariant
<1>4. CASE OnRoomJoined(s)
  <2>1. /\ Told(s, "joined") /\ Heard(s) /\ loading' = loading \cup {s}
        /\ UNCHANGED <<store, voice, calls, net, channelOf, up, creating, hasty>>
    BY <1>4 DEF OnRoomJoined, clientVars, serverVars, seats, historyVars
  <2>2. /\ Carries(down[s], "joined")
        /\ \A t \in Sockets \ {s} : down'[t] = down[t]
    <3>1. down[s] \in Seq(ToClient) /\ down[s] # << >> /\ Head(down[s]).type = "joined"
      BY <2>1 DEF Told, TypeOK
    <3> QED
      BY <2>1, <3>1, CarriesTail DEF Heard, TypeOK
  <2>3. \A t \in Sockets : Awaited(t)' <=> Awaited(t)
    BY <2>1, <2>2 DEF Awaited, JoinUnderWay
  <2>4. ClosesLast'
    BY <2>1 DEF CallInvariant, ClosesLast
  <2>5. CallKept
    BY <2>1 DEF CallKept
  <2> QED
    BY <2>3, <2>4, <2>5, CallIsKept DEF SocketsOf, Sockets
<1>5. CASE DeviceLoaded(s)
  <2>1. PICK st, new : st = store[u] /\ st \in Store /\ new = [st EXCEPT !.device = TRUE, !.channel = channelOf[s]]
    BY <1>1 DEF TypeOK
  <2>2. /\ s \in loading /\ loading' = loading \ {s} /\ store' = [store EXCEPT ![u] = new]
        /\ UNCHANGED <<voice, calls, net, channelOf, down, creating, hasty>>
    BY <1>1, <1>5, <2>1 DEF DeviceLoaded, serverVars, seats, historyVars
  <2>3. /\ \A w \in Users \ {u} : store'[w] = store[w]
        /\ store'[u].socket = store[u].socket /\ store'[u].channel = channelOf[s]
    BY <1>1, <2>1, <2>2 DEF TypeOK, Store
  <2>4. UpKept
    <3>1. PICK messages : messages = <<[type |-> "send"], [type |-> "recv"]>>
      OBVIOUS
    <3>2. [type |-> "send"] \in PlainUp /\ [type |-> "recv"] \in PlainUp
      BY DEF PlainUp, ToServer
    <3>3. messages \in Seq(PlainUp)
      BY <3>1, <3>2
    <3>4. up' = IF net[s] = "open" THEN [up EXCEPT ![s] = @ \o messages] ELSE up
      BY <1>5, <3>1 DEF DeviceLoaded
    <3>5. \A t \in Sockets : up'[t] \in {up[t], up[t] \o messages}
      BY <3>4 DEF TypeOK
    <3> QED
      BY <3>3, <3>5, PlainKeeps DEF UpKept
  <2>5. ClosesLast'
    BY <2>2, <2>4 DEF CallInvariant, ClosesLast, UpKept
  <2>6. \A t \in Sockets : /\ Awaited(t)' => Awaited(t)
                           /\ t # s /\ Awaited(t) => Awaited(t)' \/ net[t] = "closed"
    BY <2>2, <2>4 DEF Awaited, JoinUnderWay, UpKept
  <2>7. ASSUME NEW w \in Users
        PROVE  OwnSocket(w)' /\ (w \notin hasty => FollowsCall(w)')
    <3>1. /\ OwnSocket(w) /\ (w \notin hasty => FollowsCall(w)) /\ SocketsOf(w) \subseteq Sockets
          /\ store'[w].socket = store[w].socket
      BY <2>3 DEF CallInvariant, SocketsOf, Sockets
    <3>2. OwnSocket(w)'
      BY <3>1 DEF OwnSocket
    <3>3. ASSUME w \notin hasty
          PROVE  FollowsCall(w)'
      <4>1. /\ SetUpForCall(w) /\ ConnectedInCall(w) /\ CallHasSocket(w) /\ ConnectedOnceSetUp(w)
            /\ \A t \in SocketsOf(w) : Awaited(t) => net[t] # "closed"
        BY <3>1, <3>3 DEF FollowsCall, SetUpForCall
      <4>2. w = u => store[w].socket = s /\ channelOf[s] \in calls[w]
        BY <1>1, <2>2, <4>1 DEF SetUpForCall, Awaited
      <4>3. SetUpForCall(w)'
        BY <2>2, <2>6, <3>1, <4>1 DEF SetUpForCall
      <4>4. ConnectedInCall(w)'
        BY <2>2, <2>3, <4>1, <4>2 DEF ConnectedInCall
      <4>5. CallHasSocket(w)'
        BY <2>2, <3>1, <4>1 DEF CallHasSocket, IsLeaving
      <4>6. ConnectedOnceSetUp(w)'
        <5>1. PICK k : k = store[w].socket /\ k = store'[w].socket
          BY <3>1
        <5>2. CASE w = u
          BY <2>2, <2>3, <4>2, <5>1, <5>2 DEF ConnectedOnceSetUp
        <5>3. CASE w # u
          <6>1. k # None => k \in SocketsOf(w) /\ k # s
            BY <1>2, <3>1, <5>1, <5>3 DEF OwnSocket
          <6>2. k # None => (Awaited(k)' <=> Awaited(k))
            BY <2>6, <3>1, <4>1, <6>1
          <6> QED
            BY <2>2, <2>3, <4>1, <5>1, <5>3, <6>2 DEF ConnectedOnceSetUp
        <5> QED
          BY <5>2, <5>3
      <4> QED
        BY <4>3, <4>4, <4>5, <4>6 DEF FollowsCall
    <3> QED
      BY <3>2, <3>3
  <2> QED
    BY <2>2, <2>5, <2>7 DEF CallInvariant
<1> QED
  BY <1>3, <1>4, <1>5

\* A client that takes its leave does not ask to join.
LEMMA FarewellJoins ==
    ASSUME TypeOK, NEW u \in Users
    PROVE  Farewell(u) \in Seq(ToServer) /\ ~Carries(Farewell(u), "join")
<1>1. PICK close, bye : close = [type |-> "close"] /\ bye = [type |-> "bye"]
  OBVIOUS
<1>2. PICK OtherRequests : OtherRequests = {m \in ToServer : m.type # "join"}
  OBVIOUS
<1>3. close \in OtherRequests /\ bye \in OtherRequests
  BY <1>1, <1>2 DEF ToServer
<1>4. PICK screens : screens = IF ScreenOf(u) = {} THEN << >>
                               ELSE Requests("closeProducer", {CHOOSE p \in ScreenOf(u) : TRUE})
  OBVIOUS
<1>5. screens \in Seq(PlainUp)
  <2>1. store[u] \in Store
    BY DEF TypeOK
  <2>2. ScreenOf(u) \in SUBSET Producers
    BY <2>1 DEF ScreenOf, Store
  <2>3. CASE ScreenOf(u) = {}
    BY <1>4, <2>3, EmptySeq
  <2>4. CASE ScreenOf(u) # {}
    <3>1. {CHOOSE p \in ScreenOf(u) : TRUE} \in SUBSET Producers
      BY <2>2, <2>4
    <3>2. Requests("closeProducer", {CHOOSE p \in ScreenOf(u) : TRUE}) \in Seq(PlainUp)
      BY <3>1, RequestsType
    <3> QED
      BY <1>4, <2>4, <3>2
  <2> QED
    BY <2>3, <2>4
<1>6. PlainUp \in SUBSET OtherRequests
  BY <1>2 DEF PlainUp
<1>7. screens \in Seq(OtherRequests) /\ <<close>> \in Seq(OtherRequests) /\ <<bye>> \in Seq(OtherRequests)
  BY <1>3, <1>5, <1>6
<1>8. (<<close>> \o screens) \o <<bye>> \in Seq(OtherRequests)
  BY <1>7
<1>9. Farewell(u) = (<<close>> \o screens) \o <<bye>>
  BY <1>1, <1>4 DEF Farewell
<1>10. ASSUME NEW q \in Seq(OtherRequests)
       PROVE  ~Carries(q, "join")
  <2>1. \A i \in DOMAIN q : q[i] \in OtherRequests
    OBVIOUS
  <2> QED
    BY <1>2, <2>1 DEF Carries
<1> QED
  BY <1>8, <1>9, <1>10, FarewellType

\* Who swaps its socket closes none but the one in the store, and opens none but new ones.
LEMMA SwapKeeps ==
    ASSUME TypeOK, SocketsInUse, ClosesLast, NEW u \in Users, NEW closes \in BOOLEAN, NEW new,
           SwapSocket(u, closes, new), \A s \in new \cap Sockets : net[s] = "unused",
           UNCHANGED <<loading, creating>>
    PROVE  /\ ClosesLast'
           /\ \A t \in Sockets :
                 /\ net'[t] = IF closes /\ t = store[u].socket THEN "closed"
                              ELSE IF t \in new THEN "connecting" ELSE net[t]
                 /\ Awaited(t)' => Awaited(t) \/ t \in new
                 /\ t # store[u].socket /\ t \notin new => (Awaited(t)' <=> Awaited(t))
                 /\ t \in new => Awaited(t)' /\ t # store[u].socket
<1>1. PICK k : k = store[u].socket
  OBVIOUS
<1>2. ASSUME NEW t \in Sockets
      PROVE  /\ net'[t] = IF closes /\ t = k THEN "closed" ELSE IF t \in new THEN "connecting" ELSE net[t]
             /\ ~(closes /\ t = k) => up'[t] = up[t] /\ down'[t] = down[t]
             /\ closes /\ t = k => up'[t] \in {up[t] \o Farewell(u), << >>} /\ down'[t] = << >>
  BY <1>1 DEF SwapSocket
<1>3. \A type : ~Carries(<< >>, type)
  BY DEF Carries
<1>4. ASSUME NEW t \in Sockets
      PROVE  Carries(up'[t], "join") => Carries(up[t], "join")
  <2>1. up[t] \in Seq(ToServer)
    BY DEF TypeOK
  <2>2. Carries(up[t] \o Farewell(u), "join") <=> Carries(up[t], "join")
    BY <2>1, CarriesConcat, FarewellJoins
  <2> QED
    BY <1>2, <1>3, <2>2
<1>5. ClosesLast'
  <2>1. ASSUME NEW t \in Sockets, Carries(up'[t], "close")
        PROVE  net'[t] = "closed"
    <3>1. CASE closes /\ t = k
      BY <1>2, <3>1
    <3>2. CASE ~(closes /\ t = k)
      <4>1. Carries(up[t], "close") /\ net[t] = "closed"
        BY <1>2, <2>1, <3>2 DEF ClosesLast
      <4> QED
        BY <1>2, <3>2, <4>1
    <3> QED
      BY <3>1, <3>2
  <2> QED
    BY <2>1 DEF ClosesLast
<1>6. ASSUME NEW t \in Sockets, t \in new
      PROVE  t # k
  BY <1>1, <1>6, MediaAssumption DEF SocketsInUse, Sockets
<1>7. ASSUME NEW t \in Sockets
      PROVE  /\ Awaited(t)' => Awaited(t) \/ t \in new
             /\ t # k /\ t \notin new => (Awaited(t)' <=> Awaited(t))
             /\ t \in new => Awaited(t)' /\ t # k
  <2>1. Carries(down'[t], "joined") => Carries(down[t], "joined")
    BY <1>2, <1>3
  <2> QED
    BY <1>2, <1>4, <1>6, <2>1 DEF Awaited, JoinUnderWay
<1> QED
  BY <1>1, <1>2, <1>5, <1>7

\* What a client does about its own call is nothing to another.
LEMMA OthersKeepCall ==
    ASSUME NEW w \in Users, OwnSocket(w), UNCHANGED <<store[w], calls[w], voice[w]>>,
           \A t \in SocketsOf(w) : /\ UNCHANGED <<net[t], channelOf[t]>>
                                   /\ Awaited(t)' <=> Awaited(t)
    PROVE  OwnSocket(w)' /\ (FollowsCall(w) => FollowsCall(w)')
<1>1. OwnSocket(w)'
  BY DEF OwnSocket
<1>2. SetUpForCall(w) => SetUpForCall(w)'
  BY DEF SetUpForCall
<1>3. ConnectedInCall(w) => ConnectedInCall(w)'
  BY DEF ConnectedInCall
<1>4. CallHasSocket(w) => CallHasSocket(w)'
  BY DEF CallHasSocket, IsLeaving, OwnSocket
<1>5. ConnectedOnceSetUp(w) => ConnectedOnceSetUp(w)'
  <2>1. PICK k : k = store[w].socket
    OBVIOUS
  <2>2. k = store'[w].socket /\ (k # None => channelOf'[k] = channelOf[k] /\ (Awaited(k)' <=> Awaited(k)))
    BY <2>1 DEF OwnSocket
  <2>3. ConnectedOnceSetUp(w) /\ k # None /\ ~Awaited(k)' => store'[w].channel = channelOf'[k]
    BY <2>1, <2>2 DEF ConnectedOnceSetUp
  <2> QED
    BY <2>2, <2>3 DEF ConnectedOnceSetUp
<1> QED
  BY <1>1, <1>2, <1>3, <1>4, <1>5 DEF FollowsCall

\* The client takes the first of its voice events, and adds its own leave if it switches.
LEMMA VoiceTaken ==
    ASSUME TypeOK, NEW u \in Users, voice[u] # << >>, NEW after,
           after \in Seq([type : {"join", "leave"}, channel : Channels]),
           voice' = [voice EXCEPT ![u] = Tail(@) \o after]
    PROVE  /\ Head(voice[u]) \in [type : {"join", "leave"}, channel : Channels]
           /\ \A w \in Users \ {u} : voice'[w] = voice[w]
           /\ \A c : IsLeaving(u, c) /\ Head(voice[u]) # [type |-> "leave", channel |-> c] => IsLeaving(u, c)'
           /\ \A c : after = <<[type |-> "leave", channel |-> c]>> => IsLeaving(u, c)'
<1>1. PICK Events : Events = [type : {"join", "leave"}, channel : Channels]
  OBVIOUS
<1>2. PICK q \in Seq(Events) : q = voice[u] /\ q # << >>
  <2>1. voice[u] \in Seq([type : {"join", "leave"}, channel : Channels])
    BY DEF TypeOK
  <2> QED
    BY <1>1, <2>1
<1>3. Head(q) \in Events /\ Tail(q) \in Seq(Events) /\ after \in Seq(Events)
  <2>1. Head(q) \in Events /\ Tail(q) \in Seq(Events)
    BY <1>2
  <2> QED
    BY <1>1, <2>1
<1>4. PICK rest \in Seq(Events) : rest = Tail(q)
  BY <1>3
<1>5. voice'[u] = rest \o after /\ \A w \in Users \ {u} : voice'[w] = voice[w]
  BY <1>2, <1>4 DEF TypeOK
<1>6. ASSUME NEW c, IsLeaving(u, c), Head(q) # [type |-> "leave", channel |-> c]
      PROVE  IsLeaving(u, c)'
  <2>1. PICK i \in 1..Len(q) : q[i] = [type |-> "leave", channel |-> c]
    BY <1>2, <1>6 DEF IsLeaving
  <2>2. i # 1 /\ i \in Nat
    BY <1>2, <1>6, <2>1
  <2>3. i - 1 \in 1..Len(rest) /\ rest[i - 1] = q[i]
    BY <1>2, <1>4, <2>1, <2>2
  <2>4. i - 1 \in DOMAIN (rest \o after) /\ (rest \o after)[i - 1] = q[i]
    BY <1>3, <2>3
  <2> QED
    BY <1>5, <2>1, <2>4 DEF IsLeaving
<1>7. ASSUME NEW c, after = <<[type |-> "leave", channel |-> c]>>
      PROVE  IsLeaving(u, c)'
  <2>1. 1 \in DOMAIN after /\ after[1] = [type |-> "leave", channel |-> c]
    BY <1>7
  <2>2. 1 + Len(rest) \in DOMAIN (rest \o after) /\ (rest \o after)[1 + Len(rest)] = after[1]
    BY <1>3, <2>1
  <2> QED
    BY <1>5, <2>1, <2>2 DEF IsLeaving
<1> QED
  BY <1>1, <1>2, <1>3, <1>5, <1>6, <1>7

LEMMA VoiceKeepsCall ==
    ASSUME TypeOK, SocketsInUse, CallInvariant, NEW u \in Users, OnVoiceJoin(u) \/ OnVoiceLeave(u)
    PROVE  CallInvariant'
<1>1. PICK st, k, event : st = store[u] /\ st \in Store /\ k = st.socket /\ event = Head(voice[u])
  BY DEF TypeOK
<1>2. /\ ClosesLast /\ OwnSocket(u) /\ (u \notin hasty => FollowsCall(u))
      /\ voice[u] # << >> /\ SocketsOf(u) \subseteq Sockets
      /\ UNCHANGED <<loading, creating>>
  BY DEF CallInvariant, OnVoiceJoin, OnVoiceLeave, SocketsOf, Sockets, serverVars, seats
<1>3. /\ store \in [Users -> Store] /\ calls \in [Users -> SUBSET Channels]
      /\ channelOf \in [Sockets -> Channels \cup {None}]
  BY DEF TypeOK
<1>4. \A w \in Users \ {u} : \A t \in SocketsOf(w) : t \in Sockets /\ t \notin SocketsOf(u)
  BY DEF SocketsOf, Sockets
<1>5. hasty' = Hasty(u)
  BY DEF OnVoiceJoin, OnVoiceLeave
<1>6. u \notin hasty' => FollowsCall(u) /\ \A t \in SocketsOf(u) : ~Awaited(t)
  <2>1. ASSUME u \notin hasty'
        PROVE  FollowsCall(u) /\ ~SetsUp(u)
    BY <1>2, <1>5, <2>1 DEF Hasty
  <2> QED
    BY <2>1 DEF FollowsCall, SetUpForCall, SetsUp, IsSetUp, Awaited
<1>7. ASSUME NEW closes \in BOOLEAN, NEW new \in SUBSET SocketsOf(u), SwapSocket(u, closes, new),
             \A s \in new : net[s] = "unused",
             \A w \in Users \ {u} : UNCHANGED <<store[w], calls[w], voice[w]>>,
             \A t \in Sockets \ new : channelOf'[t] = channelOf[t]
      PROVE  /\ ClosesLast'
             /\ \A t \in Sockets :
                   /\ net'[t] = IF closes /\ t = k THEN "closed" ELSE IF t \in new THEN "connecting" ELSE net[t]
                   /\ Awaited(t)' => Awaited(t) \/ t \in new
                   /\ t \in new => Awaited(t)' /\ t # k
             /\ \A w \in Users \ {u} : OwnSocket(w)' /\ (w \notin hasty' => FollowsCall(w)')
  <2>1. /\ ClosesLast'
        /\ \A t \in Sockets :
              /\ net'[t] = IF closes /\ t = k THEN "closed" ELSE IF t \in new THEN "connecting" ELSE net[t]
              /\ Awaited(t)' => Awaited(t) \/ t \in new
              /\ t # k /\ t \notin new => (Awaited(t)' <=> Awaited(t))
              /\ t \in new => Awaited(t)' /\ t # k
    BY <1>1, <1>2, <1>7, SwapKeeps
  <2>2. ASSUME NEW w \in Users \ {u}
        PROVE  OwnSocket(w)' /\ (w \notin hasty' => FollowsCall(w)')
    <3>1. \A t \in SocketsOf(w) : t \in Sockets /\ t \notin new /\ t # k
      BY <1>1, <1>2, <1>4, MediaAssumption DEF OwnSocket, Sockets
    <3>2. \A t \in SocketsOf(w) : UNCHANGED <<net[t], channelOf[t]>> /\ (Awaited(t)' <=> Awaited(t))
      BY <1>7, <2>1, <3>1
    <3>3. OwnSocket(w) /\ (w \notin hasty' => FollowsCall(w))
      BY <1>5 DEF CallInvariant, Hasty
    <3>4. UNCHANGED <<store[w], calls[w], voice[w]>>
      BY <1>7
    <3> QED
      BY <3>2, <3>3, <3>4, OthersKeepCall
  <2> QED
    BY <2>1, <2>2
<1>8. CASE OnVoiceLeave(u)
  <2>1. PICK closes, c : closes = ClosesOnLeave(u) /\ c = event.channel
    OBVIOUS
  <2>2. /\ closes = (c = st.channel) /\ closes \in BOOLEAN
        /\ event.type = "leave" /\ voice' = [voice EXCEPT ![u] = Tail(@)]
        /\ calls' = [calls EXCEPT ![u] = @ \ {c}]
        /\ SwapSocket(u, closes, {}) /\ store' = [store EXCEPT ![u] = IF closes THEN NoStore ELSE st]
        /\ UNCHANGED channelOf
    BY <1>1, <1>8, <2>1 DEF OnVoiceLeave, ClosesOnLeave
  <2>3. /\ event \in [type : {"join", "leave"}, channel : Channels]
        /\ \A w \in Users \ {u} : voice'[w] = voice[w]
        /\ \A d : IsLeaving(u, d) /\ event # [type |-> "leave", channel |-> d] => IsLeaving(u, d)'
    <3>1. PICK after : after = << >>
      OBVIOUS
    <3>2. after \in Seq([type : {"join", "leave"}, channel : Channels])
      BY <3>1, EmptySeq
    <3>3. Tail(voice[u]) \o after = Tail(voice[u])
      <4>1. voice[u] \in Seq([type : {"join", "leave"}, channel : Channels])
        BY DEF TypeOK
      <4>2. PICK T, q : q \in Seq(T) /\ q = voice[u] /\ q # << >>
        BY <1>2, <4>1
      <4>3. Tail(q) \in Seq(T)
        BY <4>2
      <4> QED
        BY <3>1, <4>2, <4>3, ConcatEmptySeq
    <3>4. voice' = [voice EXCEPT ![u] = Tail(@) \o after]
      BY <2>2, <3>3
    <3> QED
      BY <1>1, <1>2, <3>2, <3>4, VoiceTaken
  <2>4. /\ ClosesLast'
        /\ \A t \in Sockets : /\ net'[t] = IF closes /\ t = k THEN "closed" ELSE net[t]
                              /\ Awaited(t)' => Awaited(t)
        /\ \A w \in Users \ {u} : OwnSocket(w)' /\ (w \notin hasty' => FollowsCall(w)')
    <3>1. PICK new \in SUBSET SocketsOf(u) : new = {}
      OBVIOUS
    <3>2. \A w \in Users \ {u} : UNCHANGED <<store[w], calls[w], voice[w]>>
      BY <1>3, <2>2, <2>3
    <3>3. SwapSocket(u, closes, new) /\ \A s \in new : net[s] = "unused"
      BY <2>2, <3>1
    <3>4. \A t \in Sockets \ new : channelOf'[t] = channelOf[t]
      BY <2>2
    <3> QED
      <4>1. /\ ClosesLast'
            /\ \A t \in Sockets :
                  /\ net'[t] = IF closes /\ t = k THEN "closed" ELSE IF t \in new THEN "connecting" ELSE net[t]
                  /\ Awaited(t)' => Awaited(t) \/ t \in new
            /\ \A w \in Users \ {u} : OwnSocket(w)' /\ (w \notin hasty' => FollowsCall(w)')
        BY <1>7, <2>2, <3>2, <3>3, <3>4
      <4> QED
        BY <3>1, <4>1
  <2>5. store'[u] = (IF closes THEN NoStore ELSE st) /\ calls'[u] = calls[u] \ {c}
    BY <1>3, <2>2
  <2>6. NoStore.socket = None /\ NoStore.channel = None
    BY DEF NoStore
  <2>7. OwnSocket(u)'
    BY <1>1, <1>2, <2>5, <2>6 DEF OwnSocket
  <2>8. ASSUME u \notin hasty'
        PROVE  FollowsCall(u)'
    <3>1. /\ SetUpForCall(u) /\ ConnectedInCall(u) /\ CallHasSocket(u) /\ ConnectedOnceSetUp(u)
          /\ \A t \in SocketsOf(u) : ~Awaited(t)
      BY <1>6, <2>8 DEF FollowsCall
    <3>2. SetUpForCall(u)'
      BY <1>2, <2>4, <3>1 DEF SetUpForCall
    <3>3. ConnectedInCall(u)'
      BY <1>1, <2>2, <2>5, <2>6, <3>1 DEF ConnectedInCall
    <3>4. k # None => st.channel = channelOf[k]
      BY <1>1, <1>2, <3>1 DEF ConnectedOnceSetUp, OwnSocket
    <3>5. CallHasSocket(u)'
      <4>1. ASSUME NEW d \in calls[u], d # c, ~IsLeaving(u, d)'
            PROVE  ~closes /\ k # None /\ channelOf[k] = d
        <5>1. ~IsLeaving(u, d)
          <6>1. [type |-> "leave", channel |-> d].channel = d
            OBVIOUS
          <6> QED
            BY <2>1, <2>3, <4>1, <6>1
        <5>2. k # None /\ channelOf[k] = d
          BY <1>1, <3>1, <5>1 DEF CallHasSocket
        <5> QED
          BY <2>2, <3>4, <4>1, <5>2
      <4>2. ~closes => store'[u].socket = k
        BY <1>1, <2>5
      <4> QED
        BY <2>2, <2>5, <4>1, <4>2 DEF CallHasSocket
    <3>6. ConnectedOnceSetUp(u)'
      BY <1>1, <2>2, <2>5, <2>6, <3>4 DEF ConnectedOnceSetUp
    <3> QED
      BY <3>2, <3>3, <3>5, <3>6 DEF FollowsCall
  <2> QED
    BY <2>4, <2>7, <2>8 DEF CallInvariant
<1>9. CASE OnVoiceJoin(u)
  <2>1. PICK switches, c : c = event.channel /\ switches = (st.channel \notin {None, c})
    OBVIOUS
  <2>2. PICK after : after = IF switches THEN <<[type |-> "leave", channel |-> st.channel]>> ELSE << >>
    OBVIOUS
  <2>3. /\ switches \in BOOLEAN /\ event.type = "join"
        /\ voice' = [voice EXCEPT ![u] = Tail(@) \o after]
        /\ calls' = [calls EXCEPT ![u] = @ \cup {c}]
    BY <1>1, <1>9, <2>1, <2>2 DEF OnVoiceJoin
  <2>4. PICK s \in SocketsOf(u) :
           /\ net[s] = "unused" /\ SwapSocket(u, switches, {s})
           /\ channelOf' = [channelOf EXCEPT ![s] = c]
           /\ store' = [store EXCEPT ![u] = [(IF switches THEN NoStore ELSE st) EXCEPT !.socket = s]]
    BY <1>1, <1>9, <2>1 DEF OnVoiceJoin
  <2>5. /\ event \in [type : {"join", "leave"}, channel : Channels]
        /\ \A w \in Users \ {u} : voice'[w] = voice[w]
        /\ \A d : IsLeaving(u, d) => IsLeaving(u, d)'
        /\ switches => IsLeaving(u, st.channel)'
    <3>1. PICK leave : leave = [type |-> "leave", channel |-> st.channel]
      OBVIOUS
    <3>2. switches => leave \in [type : {"join", "leave"}, channel : Channels]
      BY <1>1, <2>1, <3>1 DEF Store
    <3>3. after \in Seq([type : {"join", "leave"}, channel : Channels])
      <4>1. after = IF switches THEN <<leave>> ELSE << >>
        BY <2>2, <3>1
      <4>2. PICK Events : Events = [type : {"join", "leave"}, channel : Channels]
        OBVIOUS
      <4>3. switches => <<leave>> \in Seq(Events)
        BY <3>2, <4>2
      <4> QED
        BY <4>1, <4>2, <4>3, EmptySeq
    <3>4. \A d : event # [type |-> "leave", channel |-> d]
      <4>1. \A d : [type |-> "leave", channel |-> d].type = "leave"
        OBVIOUS
      <4> QED
        BY <2>3, <4>1
    <3>5. /\ event \in [type : {"join", "leave"}, channel : Channels]
          /\ \A w \in Users \ {u} : voice'[w] = voice[w]
          /\ \A d : IsLeaving(u, d) => IsLeaving(u, d)'
          /\ \A d : after = <<[type |-> "leave", channel |-> d]>> => IsLeaving(u, d)'
      <4>1. voice[u] # << >> /\ voice' = [voice EXCEPT ![u] = Tail(@) \o after]
        BY <1>2, <2>3
      <4>2. /\ Head(voice[u]) \in [type : {"join", "leave"}, channel : Channels]
            /\ \A w \in Users \ {u} : voice'[w] = voice[w]
            /\ \A d : IsLeaving(u, d) /\ Head(voice[u]) # [type |-> "leave", channel |-> d] => IsLeaving(u, d)'
            /\ \A d : after = <<[type |-> "leave", channel |-> d]>> => IsLeaving(u, d)'
        BY <3>3, <4>1, VoiceTaken
      <4> QED
        BY <1>1, <3>4, <4>2
    <3> QED
      BY <2>2, <3>5
  <2>6. \A t \in Sockets \ {s} : channelOf'[t] = channelOf[t]
    BY <1>3, <2>4
  <2>7. /\ ClosesLast'
        /\ \A t \in Sockets :
              /\ net'[t] = IF switches /\ t = k THEN "closed" ELSE IF t = s THEN "connecting" ELSE net[t]
              /\ Awaited(t)' => Awaited(t) \/ t = s
        /\ Awaited(s)' /\ s # k
        /\ \A w \in Users \ {u} : OwnSocket(w)' /\ (w \notin hasty' => FollowsCall(w)')
    <3>1. \A w \in Users \ {u} : UNCHANGED <<store[w], calls[w], voice[w]>>
      BY <1>3, <2>3, <2>4, <2>5
    <3>2. s \in Sockets /\ {s} \in SUBSET SocketsOf(u)
      BY <1>2, <2>4
    <3> QED
      BY <1>7, <2>3, <2>4, <2>6, <3>1, <3>2
  <2>8. PICK old : old = (IF switches THEN NoStore ELSE st) /\ old \in Store
    <3>1. NoStore \in Store
      BY DEF NoStore, Store, Room
    <3> QED
      BY <1>1, <3>1
  <2>9. /\ store'[u].socket = s /\ store'[u].channel \in {None, c}
        /\ calls'[u] = calls[u] \cup {c} /\ channelOf'[s] = c /\ c \in Channels /\ s \in Sockets
    <3>1. store'[u] = [old EXCEPT !.socket = s] /\ s \in Sockets
      BY <1>2, <1>3, <2>4, <2>8
    <3>2. store'[u].socket = s /\ store'[u].channel = old.channel
      BY <2>8, <3>1 DEF Store
    <3>3. old.channel \in {None, c}
      <4>1. NoStore.channel = None
        BY DEF NoStore
      <4> QED
        BY <2>1, <2>8, <4>1
    <3> QED
      BY <1>3, <2>1, <2>3, <2>4, <2>5, <3>1, <3>2, <3>3
  <2>10. OwnSocket(u)'
    BY <2>4, <2>9 DEF OwnSocket
  <2>11. ASSUME u \notin hasty'
         PROVE  FollowsCall(u)'
    <3>1. /\ CallHasSocket(u) /\ ConnectedOnceSetUp(u)
          /\ \A t \in SocketsOf(u) : ~Awaited(t)
      BY <1>6, <2>11 DEF FollowsCall
    <3>2. s # None
      BY <2>9, MediaAssumption DEF Sockets
    <3>3. SetUpForCall(u)'
      <4>1. ASSUME NEW t \in SocketsOf(u), Awaited(t)'
            PROVE  t = s /\ net'[t] = "connecting"
        BY <1>2, <2>7, <3>1, <4>1
      <4> QED
        BY <2>9, <4>1 DEF SetUpForCall
    <3>4. ConnectedInCall(u)'
      BY <2>9 DEF ConnectedInCall
    <3>5. k # None => st.channel = channelOf[k]
      BY <1>1, <1>2, <3>1 DEF ConnectedOnceSetUp, OwnSocket
    <3>6. CallHasSocket(u)'
      <4>1. ASSUME NEW d \in calls[u], d # c, ~IsLeaving(u, d)
            PROVE  IsLeaving(u, d)'
        <5>1. k # None /\ channelOf[k] = d /\ d # None
          BY <1>1, <1>3, <3>1, <4>1, MediaAssumption DEF CallHasSocket
        <5>2. switches /\ st.channel = d
          BY <2>1, <3>5, <4>1, <5>1
        <5> QED
          BY <2>5, <5>2
      <4> QED
        BY <2>5, <2>9, <3>2, <4>1 DEF CallHasSocket
    <3>7. ConnectedOnceSetUp(u)'
      BY <2>7, <2>9 DEF ConnectedOnceSetUp
    <3> QED
      BY <3>3, <3>4, <3>6, <3>7 DEF FollowsCall
  <2> QED
    BY <2>7, <2>10, <2>11 DEF CallInvariant
<1> QED
  BY <1>8, <1>9

LEMMA InitCall == Init => CallInvariant
<1> SUFFICES ASSUME Init
             PROVE  CallInvariant
  OBVIOUS
<1>1. /\ \A s \in Sockets : net[s] = "unused" /\ up[s] = << >> /\ down[s] = << >>
      /\ loading = {} /\ creating = {}
      /\ \A u \in Users : store[u].socket = None /\ store[u].channel = None /\ calls[u] = {}
  BY DEF Init, NoStore
<1>2. \A type : ~Carries(<< >>, type)
  BY DEF Carries
<1>3. \A s \in Sockets : ~Awaited(s)
  BY <1>1, <1>2 DEF Awaited, JoinUnderWay
<1>4. ASSUME NEW u \in Users
      PROVE  OwnSocket(u) /\ FollowsCall(u)
  <2>1. SocketsOf(u) \subseteq Sockets
    BY DEF SocketsOf, Sockets
  <2> QED
    BY <1>1, <1>3, <2>1 DEF OwnSocket, FollowsCall, SetUpForCall, ConnectedInCall, CallHasSocket, ConnectedOnceSetUp
<1> QED
  BY <1>1, <1>2, <1>4 DEF CallInvariant, ClosesLast

LEMMA NextKeepsCall == Typed /\ CallInvariant /\ [Next]_vars => CallInvariant'
<1> SUFFICES ASSUME TypeOK, SocketsInUse, CallInvariant, [Next]_vars
             PROVE  CallInvariant'
  BY DEF Typed
<1>1. ASSUME NEW u \in Users, UserStep(u)
      PROVE  CallInvariant'
  BY <1>1, UserKeepsWires, WiresKeepCall
<1>2. ASSUME NEW u \in Users, OnVoiceJoin(u) \/ OnVoiceLeave(u)
      PROVE  CallInvariant'
  BY <1>2, VoiceKeepsCall
<1>3. ASSUME NEW s \in Sockets, ClientStep(s)
      PROVE  CallInvariant'
  <2>1. CASE Connect(s) \/ OnRoomJoined(s) \/ DeviceLoaded(s)
    BY <2>1, SetUpKeepsCall
  <2>2. CASE \/ OnCreateSendTransport(s) \/ OnCreateRecvTransport(s)
             \/ Produce(s) \/ OnProduced(s) \/ OnGetChannelProducers(s)
             \/ OnProducerJoined(s) \/ OnConsumerCreated(s) \/ OnCloseProducer(s)
    BY <2>2, ExchangeKeepsWires, WiresKeepCall
  <2> QED
    BY <1>3, <2>1, <2>2 DEF ClientStep
<1>4. ASSUME \/ \E s \in Sockets : ServerStep(s) /\ ~HandleJoinRoom(s) /\ ~RouterCreated(s)
             \/ \E p \in Producers : ProducerMade(p)
      PROVE  CallInvariant'
  <2>1. UpKept /\ DownKept /\ UNCHANGED creating
    BY <1>4, ServerKeepsWires DEF CallInvariant
  <2>2. UNCHANGED <<local, hasty>>
    BY <1>4 DEF ServerStep, HandleCreateTransport, HandleProduce, GetProducers, HandleConsume,
                HandlePauseConsumer, HandleResumeConsumer, HandlePauseProducer, HandleResumeProducer,
                HandleCloseProducer, HandleCloseConsumer, HandleCloseClient, Disconnected, ConsumerMade,
                ProducerMade, historyVars
  <2>3. SameCall
    BY <2>1, <2>2 DEF SameCall, local, clientVars
  <2> QED
    BY <2>1, <2>3, WiresKeepCall
<1>5. ASSUME NEW s \in Sockets, HandleJoinRoom(s) \/ RouterCreated(s)
      PROVE  CallInvariant'
  BY <1>5, JoinKeepsCall
<1>6. CASE UNCHANGED vars
  <2>1. UNCHANGED <<up, down, creating, store, voice, calls, net, channelOf, loading, hasty>>
    BY <1>6 DEF vars, local, clientVars, serverVars, seats, historyVars
  <2>2. UpKept /\ DownKept /\ SameCall
    BY <2>1 DEF UpKept, DownKept, SameCall
  <2> QED
    BY <2>2, WiresKeepCall
<1> QED
  BY <1>1, <1>2, <1>3, <1>4, <1>5, <1>6 DEF Next, SystemStep

\* Once nothing is under way, the client of a user who did not join or leave
\* while its socket was set up (PeerConnectionManager, the mediasoup store) is
\* connected to media if and only if the user is in a call.
THEOREM MediaFollowsTheCall == Spec => []MediaFollowsCall
<1>1. CallInvariant => MediaFollowsCall
  <2> SUFFICES ASSUME CallInvariant, Quiet, NEW u \in Users \ hasty
               PROVE  /\ store[u].channel # None => store[u].channel \in calls[u]
                      /\ calls[u] # {} => store[u].socket # None
    BY DEF MediaFollowsCall
  <2>1. ConnectedInCall(u) /\ CallHasSocket(u)
    BY DEF CallInvariant, FollowsCall
  <2>2. \A c : ~IsLeaving(u, c)
    BY DEF Quiet, IsLeaving
  <2> QED
    BY <2>1, <2>2 DEF ConnectedInCall, CallHasSocket
<1> QED
  BY <1>1, InitTyped, NextTyped, InitCall, NextKeepsCall, PTL DEF Spec

-----------------------------------------------------------------------------
(* A microphone that is paused as its user is muted *)

Mic(t) == <<t, "audio">>

Has(queue, M) == \E i \in DOMAIN queue : queue[i] \in M
Once(queue, M) == \A i, j \in DOMAIN queue : queue[i] \in M /\ queue[j] \in M => i = j

\* What is said on the way from a socket to the producer of its microphone.
Joining == {[type |-> "join"]}
Parting == [type : {"close", "bye"}]
Joined == {[type |-> "joined"]}
SendAsked == {[type |-> "send"]}
SendMade == [type : {"send"}, room : Sockets]
Asking(t) == [type : {"produce"}, producer : {Mic(t)}, room : Room, paused : BOOLEAN]
Made(t) == {[type |-> "produced", producer |-> Mic(t)]}
Turning(t) == [type : {"pause", "resume"}, producer : {Mic(t)}]

InStore(t) == Mic(t) \in store[UserOf(t)].producers

\* The client of u has no socket open but the one in its store.
OneSocket(u) == \A k \in SocketsOf(u) : net[k] \in {"connecting", "open"} => k = store[u].socket

Near(k, t) == UserOf(k) = UserOf(t) /\ (OneSocket(UserOf(t)) => k = t)

Homeward(t) ==
    /\ \A v \in Users : Mic(t) \in store[v].producers =>
          v = UserOf(t) /\ (OneSocket(v) => store[v].socket = t)
    /\ \A k \in Sockets : Has(up[k], Asking(t)) \/ Has(up[k], Turning(t)) \/ Has(down[k], Made(t)) => Near(k, t)
    /\ making[Mic(t)] # None => Near(making[Mic(t)].socket, t)
    /\ sending[t].mic # "none" /\ sending[t].socket # None => UserOf(sending[t].socket) = UserOf(t)
    /\ sending[t].mic \in {"asked", "given"} /\ OneSocket(UserOf(t)) =>
          /\ sending[t].socket = t
          /\ store[UserOf(t)].socket = t /\ store[UserOf(t)].send = t

\* A socket is set up once.
SetUpOnce(t) ==
    /\ Once(up[t], Joining) /\ Once(down[t], Joined) /\ Once(up[t], SendAsked) /\ Once(down[t], SendMade)
    /\ Has(down[t], SendMade) => sending[t].mic = "none"
    /\ Has(up[t], SendAsked) => sending[t].mic = "none" /\ ~Has(down[t], SendMade)
    /\ t \in loading => sending[t].mic = "none" /\ ~Has(down[t], SendMade) /\ ~Has(up[t], SendAsked)
    /\ Has(down[t], Joined) =>
          /\ sending[t].mic = "none" /\ ~Has(down[t], SendMade) /\ ~Has(up[t], SendAsked) /\ t \notin loading
    /\ t \in creating =>
          /\ sending[t].mic = "none" /\ ~Has(down[t], SendMade) /\ ~Has(up[t], SendAsked) /\ t \notin loading
          /\ ~Has(down[t], Joined)
    /\ Has(up[t], Joining) =>
          /\ sending[t].mic = "none" /\ ~Has(down[t], SendMade) /\ ~Has(up[t], SendAsked) /\ t \notin loading
          /\ ~Has(down[t], Joined) /\ t \notin creating
    /\ net[t] \in {"unused", "connecting"} =>
          /\ sending[t].mic = "none" /\ ~Has(down[t], SendMade) /\ ~Has(up[t], SendAsked) /\ t \notin loading
          /\ ~Has(down[t], Joined) /\ t \notin creating /\ ~Has(up[t], Joining)

\* Its microphone is asked for once, and is turned on or off once it is in the store.
MadeOnce(t) ==
    /\ Once(up[t], Asking(t)) /\ Once(down[t], Made(t))
    /\ InStore(t) => sending[t].mic \in {"given", "closed"}
    /\ Has(up[t], Turning(t)) => sending[t].mic \in {"given", "closed"}
    /\ Has(down[t], Made(t)) => sending[t].mic \in {"given", "closed"} /\ ~InStore(t) /\ ~Has(up[t], Turning(t))
    /\ making[Mic(t)] # None =>
          /\ sending[t].mic \in {"given", "closed"} /\ ~InStore(t) /\ ~Has(up[t], Turning(t))
          /\ ~Has(down[t], Made(t))
    /\ Has(up[t], Asking(t)) =>
          /\ sending[t].mic \in {"given", "closed"} /\ ~InStore(t) /\ ~Has(up[t], Turning(t))
          /\ ~Has(down[t], Made(t)) /\ making[Mic(t)] = None

\* It is made as its user was muted when it was asked for.
MadeAsMuted(t) ==
    /\ sending[t].mic \in {"none", "asked"} => Mic(t) \notin paused
    /\ \A i \in DOMAIN up[t] : up[t][i] \in Asking(t) =>
          up[t][i].paused = sending[t].muted /\ Mic(t) \notin paused
    /\ making[Mic(t)] # None => making[Mic(t)].paused = sending[t].muted /\ Mic(t) \notin paused
    /\ Has(down[t], Made(t)) => (Mic(t) \in paused <=> sending[t].muted)

Turn(muted, t) == [type |-> IF muted THEN "pause" ELSE "resume", producer |-> Mic(t)]

\* Whether it is paused once what the queue says of it was done.
ComesToBe(muted, is, t, queue) ==
    \/ is = muted /\ ~Has(queue, Turning(t))
    \/ \E i \in DOMAIN queue :
          /\ queue[i] = Turn(muted, t)
          /\ \A j \in DOMAIN queue : j > i /\ queue[j] \in Turning(t) => queue[j] = Turn(muted, t)

\* The room of t lists its microphone.
IsHeard(t) == RoomOf(t) \in Sockets /\ Mic(t) \in listed[RoomOf(t)]

FollowsMute(t) ==
    LET u == UserOf(t) IN
    u \notin raced =>
        /\ IsBeingMade(t) => sending[t].muted = settings[u].muted
        /\ InStore(t) /\ IsHeard(t) =>
              ComesToBe(settings[u].muted, Mic(t) \in paused, t, up[t])

Seated(t) ==
    (making[Mic(t)] # None \/ Has(down[t], Made(t)) \/ InStore(t)) /\ net[t] # "closed" =>
        t \in members /\ RoomOf(t) # None

\* A client closes no socket that it keeps in its store, and is told nothing on one that it
\* closed, on which it has taken its leave.
SocketIsOpen(u) == store[u].socket # None => net[store[u].socket] # "closed"

WireInOrder(t) ==
    /\ down[t] # << >> => net[t] = "open"
    /\ Has(up[t], Parting) => net[t] = "closed"

MicInOrder(t) == OneSocket(UserOf(t)) => MadeOnce(t) /\ MadeAsMuted(t) /\ Seated(t) /\ FollowsMute(t)

SocketInOrder(t) == WireInOrder(t) /\ Homeward(t) /\ SetUpOnce(t) /\ MicInOrder(t)

\* q2 holds no more of M than q.
Lessens(q2, q, M) ==
    /\ \A i \in DOMAIN q2 : q2[i] \in M => \E j \in DOMAIN q : q[j] = q2[i]
    /\ Once(q, M) => Once(q2, M)

LEMMA TailLessens ==
    ASSUME NEW T, NEW q \in Seq(T), q # << >>, NEW M
    PROVE  /\ Lessens(Tail(q), q, M)
           /\ Head(q) \in T
           /\ Head(q) \in M => Has(q, M)
           /\ Head(q) \in M /\ Once(q, M) => ~Has(Tail(q), M)
<1>1. /\ DOMAIN q = 1..Len(q) /\ Len(q) \in Nat \ {0} /\ q[1] = Head(q)
      /\ DOMAIN Tail(q) = 1..(Len(q) - 1) /\ \A i \in 1..(Len(q) - 1) : Tail(q)[i] = q[i + 1]
  OBVIOUS
<1>2. \A i \in DOMAIN Tail(q) : i + 1 \in DOMAIN q /\ Tail(q)[i] = q[i + 1] /\ i \in Nat /\ i + 1 # 1
  BY <1>1
<1>3. 1 \in DOMAIN q
  BY <1>1
<1>4. \A i, j \in DOMAIN Tail(q) : i + 1 = j + 1 => i = j
  BY <1>1
<1> QED
  BY <1>1, <1>2, <1>3, <1>4 DEF Lessens, Once, Has

LEMMA ConcatHas ==
    ASSUME NEW T, NEW q \in Seq(T), NEW r \in Seq(T), NEW M
    PROVE  /\ Has(q \o r, M) <=> Has(q, M) \/ Has(r, M)
           /\ ~Has(r, M) => Lessens(q \o r, q, M)
           /\ Once(r, M) /\ ~Has(q, M) => Once(q \o r, M)
<1>1. /\ DOMAIN q = 1..Len(q) /\ DOMAIN r = 1..Len(r) /\ DOMAIN (q \o r) = 1..(Len(q) + Len(r))
      /\ Len(q) \in Nat /\ Len(r) \in Nat
  OBVIOUS
<1>2. \A i \in DOMAIN q : (q \o r)[i] = q[i] /\ i \in DOMAIN (q \o r)
  BY <1>1
<1>3. \A i \in DOMAIN r : (q \o r)[i + Len(q)] = r[i] /\ i + Len(q) \in DOMAIN (q \o r)
  BY <1>1
<1>4. \A i \in DOMAIN (q \o r) : i \notin DOMAIN q =>
         i - Len(q) \in DOMAIN r /\ (q \o r)[i] = r[i - Len(q)] /\ i \in Nat
  BY <1>1
<1>5. Has(q \o r, M) <=> Has(q, M) \/ Has(r, M)
  BY <1>2, <1>3, <1>4 DEF Has
<1>6. ASSUME ~Has(r, M)
      PROVE  Lessens(q \o r, q, M)
  <2>1. \A i \in DOMAIN (q \o r) : (q \o r)[i] \in M => i \in DOMAIN q /\ (q \o r)[i] = q[i]
    BY <1>2, <1>4, <1>6 DEF Has
  <2> QED
    BY <2>1 DEF Lessens, Once
<1>7. ASSUME Once(r, M), ~Has(q, M)
      PROVE  Once(q \o r, M)
  <2>1. \A i \in DOMAIN (q \o r) : (q \o r)[i] \in M =>
           i - Len(q) \in DOMAIN r /\ r[i - Len(q)] \in M /\ i \in Nat
    BY <1>2, <1>4, <1>7 DEF Has
  <2>2. \A i, j \in Nat : i - Len(q) = j - Len(q) => i = j
    BY <1>1
  <2> QED
    BY <1>7, <2>1, <2>2 DEF Once
<1> QED
  BY <1>5, <1>6, <1>7

LEMMA LessHas ==
    ASSUME NEW q2, NEW q, NEW M
    PROVE  /\ Lessens(q2, q, M) /\ Has(q2, M) => Has(q, M)
           /\ Lessens(q, q, M)
           /\ ~Has(<< >>, M) /\ Lessens(<< >>, q, M)
<1>1. DOMAIN << >> = {}
  OBVIOUS
<1> QED
  BY <1>1 DEF Lessens, Has, Once

LEMMA OneHas ==
    ASSUME NEW m, NEW M
    PROVE  Once(<<m>>, M) /\ (Has(<<m>>, M) <=> m \in M)
<1>1. DOMAIN <<m>> = {1} /\ <<m>>[1] = m
  OBVIOUS
<1> QED
  BY <1>1 DEF Once, Has

\* A queue that is taken from, or grows, comes to what it comes to.
LEMMA ComesTail ==
    ASSUME NEW T, NEW q \in Seq(T), q # << >>, NEW t, NEW muted \in BOOLEAN, NEW is \in BOOLEAN,
           ComesToBe(muted, is, t, q)
    PROVE  /\ Head(q) \notin Turning(t) => ComesToBe(muted, is, t, Tail(q))
           /\ Head(q) \in Turning(t) => ComesToBe(muted, Head(q).type = "pause", t, Tail(q))
<1>1. /\ DOMAIN q = 1..Len(q) /\ Len(q) \in Nat \ {0} /\ q[1] = Head(q)
      /\ DOMAIN Tail(q) = 1..(Len(q) - 1) /\ \A i \in 1..(Len(q) - 1) : Tail(q)[i] = q[i + 1]
  OBVIOUS
<1>2. \A i \in DOMAIN Tail(q) : i + 1 \in DOMAIN q /\ Tail(q)[i] = q[i + 1] /\ i \in Nat /\ i + 1 > 1
  BY <1>1
<1>3. \A i, j \in DOMAIN Tail(q) : j > i => j + 1 > i + 1
  BY <1>1
<1>4. \A i \in DOMAIN q : i # 1 => i - 1 \in DOMAIN Tail(q) /\ Tail(q)[i - 1] = q[i]
  BY <1>1
<1>5. 1 \in DOMAIN q
  BY <1>1
<1>6. (Turn(muted, t).type = "pause") = muted
  BY DEF Turn
<1>7. CASE is = muted /\ ~Has(q, Turning(t))
  <2>1. Head(q) \notin Turning(t) /\ ~Has(Tail(q), Turning(t))
    BY <1>1, <1>2, <1>5, <1>7 DEF Has
  <2> QED
    BY <1>7, <2>1 DEF ComesToBe
<1>8. ASSUME \A j \in DOMAIN q : j > 1 /\ q[j] \in Turning(t) => q[j] = Turn(muted, t)
      PROVE  ComesToBe(muted, muted, t, Tail(q))
  <2>1. \A j \in DOMAIN Tail(q) : Tail(q)[j] \in Turning(t) => Tail(q)[j] = Turn(muted, t)
    BY <1>2, <1>8
  <2> QED
    BY <2>1 DEF ComesToBe, Has
<1>9. Turn(muted, t) \in Turning(t)
  BY DEF Turn, Turning
<1>10. CASE \E i \in DOMAIN q : q[i] = Turn(muted, t) /\
             \A j \in DOMAIN q : j > i /\ q[j] \in Turning(t) => q[j] = Turn(muted, t)
  <2>1. PICK i \in DOMAIN q : q[i] = Turn(muted, t) /\
             \A j \in DOMAIN q : j > i /\ q[j] \in Turning(t) => q[j] = Turn(muted, t)
    BY <1>10
  <2>2. CASE i # 1
    <3>1. \A j \in DOMAIN Tail(q) : j > i - 1 => j + 1 \in DOMAIN q /\ j + 1 > i /\ Tail(q)[j] = q[j + 1]
      BY <1>1, <1>2
    <3>2. \A any : ComesToBe(muted, any, t, Tail(q))
      BY <1>4, <2>1, <2>2, <3>1 DEF ComesToBe
    <3> QED
      BY <3>2
  <2>3. CASE i = 1
    <3>1. Head(q) = Turn(muted, t)
      BY <1>1, <2>1, <2>3
    <3>2. ComesToBe(muted, muted, t, Tail(q))
      BY <1>8, <2>1, <2>3
    <3> QED
      BY <1>6, <1>9, <3>1, <3>2
  <2> QED
    BY <2>2, <2>3
<1> QED
  BY <1>7, <1>10 DEF ComesToBe

LEMMA ComesConcat ==
    ASSUME NEW T, NEW q \in Seq(T), NEW r \in Seq(T), NEW t, NEW muted \in BOOLEAN, NEW is \in BOOLEAN
    PROVE  /\ ~Has(r, Turning(t)) /\ ComesToBe(muted, is, t, q) => ComesToBe(muted, is, t, q \o r)
           /\ Has(r, {Turn(muted, t)}) /\ (\A i \in DOMAIN r : r[i] \in Turning(t) => r[i] = Turn(muted, t)) =>
                 ComesToBe(muted, is, t, q \o r)
<1>1. /\ DOMAIN q = 1..Len(q) /\ DOMAIN r = 1..Len(r) /\ DOMAIN (q \o r) = 1..(Len(q) + Len(r))
      /\ Len(q) \in Nat /\ Len(r) \in Nat
  OBVIOUS
<1>2. \A i \in DOMAIN q : (q \o r)[i] = q[i] /\ i \in DOMAIN (q \o r)
  BY <1>1
<1>3. \A i \in DOMAIN r : (q \o r)[i + Len(q)] = r[i] /\ i + Len(q) \in DOMAIN (q \o r)
  BY <1>1
<1>4. \A i \in DOMAIN (q \o r) : i \notin DOMAIN q => i - Len(q) \in DOMAIN r /\ (q \o r)[i] = r[i - Len(q)]
  BY <1>1
<1>5. ASSUME ~Has(r, Turning(t)), ComesToBe(muted, is, t, q)
      PROVE  ComesToBe(muted, is, t, q \o r)
  <2>1. \A i \in DOMAIN (q \o r) : (q \o r)[i] \in Turning(t) => i \in DOMAIN q /\ (q \o r)[i] = q[i]
    BY <1>2, <1>4, <1>5 DEF Has
  <2> QED
    BY <1>2, <1>5, <2>1 DEF ComesToBe, Has
<1>6. ASSUME Has(r, {Turn(muted, t)}), \A i \in DOMAIN r : r[i] \in Turning(t) => r[i] = Turn(muted, t)
      PROVE  ComesToBe(muted, is, t, q \o r)
  <2>1. PICK i \in DOMAIN r : r[i] = Turn(muted, t)
    BY <1>6 DEF Has
  <2>2. i + Len(q) \in DOMAIN (q \o r) /\ (q \o r)[i + Len(q)] = Turn(muted, t)
    BY <1>3, <2>1
  <2>3. \A j \in DOMAIN (q \o r) : j > i + Len(q) => j \notin DOMAIN q
    BY <1>1, <2>1
  <2> QED
    BY <1>4, <1>6, <2>2, <2>3 DEF ComesToBe
<1> QED
  BY <1>5, <1>6

\* What is said besides.
CalmUp == {m \in ToServer : /\ m.type \notin {"join", "send", "pause", "resume", "close", "bye"}
                            /\ m.type = "produce" => IsScreen(m.producer)}
CalmDown == {m \in ToClient : /\ m.type \notin {"joined", "send"}
                              /\ m.type = "produced" => IsScreen(m.producer)}

LEMMA MessageSorts ==
    ASSUME NEW t \in Sockets
    PROVE  /\ \A m \in ToServer :
                 /\ m \in Joining <=> m.type = "join"
                 /\ m \in SendAsked <=> m.type = "send"
                 /\ m \in Parting <=> m.type \in {"close", "bye"}
                 /\ m \in Asking(t) <=> m.type = "produce" /\ m.producer = Mic(t)
                 /\ m \in Turning(t) <=> m.type \in {"pause", "resume"} /\ m.producer = Mic(t)
           /\ \A m \in ToClient :
                 /\ m \in Joined <=> m.type = "joined"
                 /\ m \in SendMade <=> m.type = "send"
                 /\ m \in Made(t) <=> m.type = "produced" /\ m.producer = Mic(t)
           /\ Mic(t) \in Producers /\ IsAudio(Mic(t)) /\ ~IsScreen(Mic(t))
<1>1. Mic(t) \in Producers /\ IsAudio(Mic(t)) /\ ~IsScreen(Mic(t))
  BY DEF Mic, Producers, Kinds, IsAudio, IsScreen
<1>2. ASSUME NEW m \in ToServer
      PROVE  /\ m \in Joining <=> m.type = "join"
             /\ m \in SendAsked <=> m.type = "send"
             /\ m \in Parting <=> m.type \in {"close", "bye"}
  BY DEF ToServer, Joining, SendAsked, Parting
<1>3. ASSUME NEW m \in ToServer
      PROVE  m \in Asking(t) <=> m.type = "produce" /\ m.producer = Mic(t)
  BY DEF ToServer, Asking
<1>4. ASSUME NEW m \in ToServer
      PROVE  m \in Turning(t) <=> m.type \in {"pause", "resume"} /\ m.producer = Mic(t)
  BY DEF ToServer, Turning
<1>5. ASSUME NEW m \in ToClient
      PROVE  /\ m \in Joined <=> m.type = "joined"
             /\ m \in SendMade <=> m.type = "send"
             /\ m \in Made(t) <=> m.type = "produced" /\ m.producer = Mic(t)
  BY DEF ToClient, Joined, SendMade, Made
<1> QED
  BY <1>1, <1>2, <1>3, <1>4, <1>5

LEMMA CalmHas ==
    ASSUME NEW t \in Sockets
    PROVE  /\ \A m \in CalmUp :
                 m \in ToServer /\ m \notin Joining \cup SendAsked \cup Parting /\ m \notin Asking(t) /\ m \notin Turning(t)
           /\ \A m \in CalmDown : m \in ToClient /\ m \notin Joined /\ m \notin SendMade /\ m \notin Made(t)
           /\ \A r \in Seq(CalmUp) :
                 /\ r \in Seq(ToServer)
                 /\ ~Has(r, Joining) /\ ~Has(r, SendAsked) /\ ~Has(r, Parting) /\ ~Has(r, Asking(t)) /\ ~Has(r, Turning(t))
           /\ \A r \in Seq(CalmDown) :
                 /\ r \in Seq(ToClient)
                 /\ ~Has(r, Joined) /\ ~Has(r, SendMade) /\ ~Has(r, Made(t))
<1>1. \A m \in CalmUp :
         m \in ToServer /\ m \notin Joining \cup SendAsked \cup Parting /\ m \notin Asking(t) /\ m \notin Turning(t)
  BY MessageSorts DEF CalmUp
<1>2. \A m \in CalmDown : m \in ToClient /\ m \notin Joined /\ m \notin SendMade /\ m \notin Made(t)
  BY MessageSorts DEF CalmDown
<1>3. ASSUME NEW r \in Seq(CalmUp)
      PROVE  /\ r \in Seq(ToServer)
             /\ ~Has(r, Joining) /\ ~Has(r, SendAsked) /\ ~Has(r, Parting) /\ ~Has(r, Asking(t)) /\ ~Has(r, Turning(t))
  <2>1. \A i \in DOMAIN r : r[i] \in CalmUp
    OBVIOUS
  <2>2. CalmUp \in SUBSET ToServer
    BY DEF CalmUp
  <2> QED
    BY <1>1, <2>1, <2>2 DEF Has
<1>4. ASSUME NEW r \in Seq(CalmDown)
      PROVE  /\ r \in Seq(ToClient)
             /\ ~Has(r, Joined) /\ ~Has(r, SendMade) /\ ~Has(r, Made(t))
  <2>1. \A i \in DOMAIN r : r[i] \in CalmDown
    OBVIOUS
  <2>2. CalmDown \in SUBSET ToClient
    BY DEF CalmDown
  <2> QED
    BY <1>2, <2>1, <2>2 DEF Has
<1> QED
  BY <1>1, <1>2, <1>3, <1>4

\* What a step does to the queues of t: it takes a message, adds some that matter to no
\* microphone, or drops all of them.
UpCalm(t) ==
    \/ up'[t] = up[t]
    \/ up[t] # << >> /\ Head(up[t]) \in CalmUp \cup Parting /\ up'[t] = Tail(up[t])
    \/ net[t] = "closed" /\ up'[t] = << >>
    \/ \E r \in Seq(CalmUp) : up'[t] = up[t] \o r

DownCalm(t) ==
    \/ down'[t] = down[t]
    \/ down[t] # << >> /\ down'[t] = Tail(down[t])
    \/ net[t] = "open" /\ \E r \in Seq(CalmDown) : down'[t] = down[t] \o r

UpLess(t) ==
    /\ Lessens(up'[t], up[t], Joining) /\ Lessens(up'[t], up[t], SendAsked) /\ Lessens(up'[t], up[t], Parting)
    /\ \A k \in Sockets : Lessens(up'[t], up[t], Asking(k)) /\ Lessens(up'[t], up[t], Turning(k))

DownLess(t) ==
    /\ Lessens(down'[t], down[t], Joined) /\ Lessens(down'[t], down[t], SendMade)
    /\ \A k \in Sockets : Lessens(down'[t], down[t], Made(k))

\* What is said of the microphone of t on t comes to what it came to.
TurnsKept(t) ==
    \A muted, is \in BOOLEAN : ComesToBe(muted, is, t, up[t]) => ComesToBe(muted, is, t, up'[t])

LEMMA UpCalmLess ==
    ASSUME TypeOK, NEW t \in Sockets, UpCalm(t)
    PROVE  UpLess(t) /\ (net[t] # "closed" => TurnsKept(t))
<1>1. PICK q : q = up[t] /\ q \in Seq(ToServer)
  BY DEF TypeOK
<1>2. CASE up'[t] = q
  BY <1>1, <1>2, LessHas DEF UpLess, TurnsKept
<1>3. CASE up'[t] = << >> /\ net[t] = "closed"
  BY <1>1, <1>3, LessHas DEF UpLess
<1>4. CASE q # << >> /\ Head(q) \in CalmUp \cup Parting /\ up'[t] = Tail(q)
  <2>1. \A M : Lessens(Tail(q), q, M)
    BY <1>1, <1>4, TailLessens
  <2>2. Head(q) \notin Turning(t)
    BY <1>4, CalmHas DEF Parting, Turning
  <2>3. \A muted, is \in BOOLEAN : ComesToBe(muted, is, t, q) => ComesToBe(muted, is, t, Tail(q))
    BY <1>1, <1>4, <2>2, ComesTail
  <2> QED
    BY <1>1, <1>4, <2>1, <2>3 DEF UpLess, TurnsKept
<1>5. ASSUME NEW r \in Seq(CalmUp), up'[t] = q \o r
      PROVE  UpLess(t) /\ TurnsKept(t)
  <2>1. /\ r \in Seq(ToServer) /\ ~Has(r, Joining) /\ ~Has(r, SendAsked) /\ ~Has(r, Parting)
        /\ \A k \in Sockets : ~Has(r, Asking(k)) /\ ~Has(r, Turning(k))
    BY CalmHas
  <2>2. \A M : ~Has(r, M) => Lessens(q \o r, q, M)
    BY <1>1, <2>1, ConcatHas
  <2>3. \A muted, is \in BOOLEAN : ComesToBe(muted, is, t, q) => ComesToBe(muted, is, t, q \o r)
    BY <1>1, <2>1, ComesConcat
  <2> QED
    BY <1>1, <1>5, <2>1, <2>2, <2>3 DEF UpLess, TurnsKept
<1> QED
  BY <1>1, <1>2, <1>3, <1>4, <1>5 DEF UpCalm

LEMMA DownCalmLess ==
    ASSUME TypeOK, NEW t \in Sockets, DownCalm(t)
    PROVE  DownLess(t)
<1>1. PICK q : q = down[t] /\ q \in Seq(ToClient)
  BY DEF TypeOK
<1>2. CASE down'[t] = q
  BY <1>1, <1>2, LessHas DEF DownLess
<1>3. CASE q # << >> /\ down'[t] = Tail(q)
  <2>1. \A M : Lessens(Tail(q), q, M)
    BY <1>1, <1>3, TailLessens
  <2> QED
    BY <1>1, <1>3, <2>1 DEF DownLess
<1>4. ASSUME NEW r \in Seq(CalmDown), down'[t] = q \o r
      PROVE  DownLess(t)
  <2>1. /\ r \in Seq(ToClient) /\ ~Has(r, Joined) /\ ~Has(r, SendMade)
        /\ \A k \in Sockets : ~Has(r, Made(k))
    BY CalmHas
  <2>2. \A M : ~Has(r, M) => Lessens(q \o r, q, M)
    BY <1>1, <2>1, ConcatHas
  <2> QED
    BY <1>1, <1>4, <2>1, <2>2 DEF DownLess
<1> QED
  BY <1>1, <1>2, <1>3, <1>4 DEF DownCalm

\* What of a microphone stays as it is when a step is about something else.
SocketsStay ==
    /\ \A u \in Users : store'[u].socket = store[u].socket
    /\ \A t \in Sockets : /\ net'[t] \in {"connecting", "open"} <=> net[t] \in {"connecting", "open"}
                          /\ net'[t] = "closed" <=> net[t] = "closed"

SameTransport(t) ==
    /\ sending'[t].mic = sending[t].mic
    /\ sending'[t].socket = sending[t].socket
    /\ sending'[t].muted = sending[t].muted

UpMic(k, t) == Lessens(up'[k], up[k], Asking(t)) /\ Lessens(up'[k], up[k], Turning(t))
DownMic(k, t) == Lessens(down'[k], down[k], Made(t))

SetUpKept(t) ==
    /\ Lessens(up'[t], up[t], Joining) /\ Lessens(up'[t], up[t], SendAsked)
    /\ Lessens(down'[t], down[t], Joined) /\ Lessens(down'[t], down[t], SendMade)
    /\ t \in loading' => t \in loading
    /\ t \in creating' => t \in creating
    /\ net'[t] \in {"unused", "connecting"} => net[t] \in {"unused", "connecting"}
    /\ sending[t].mic = "none" => sending'[t].mic = "none"

WireKept(t) ==
    /\ Lessens(up'[t], up[t], Parting)
    /\ down'[t] # << >> => down[t] # << >> \/ net[t] = "open"
    /\ net[t] = "open" => net'[t] = "open"
    /\ net[t] = "closed" => net'[t] = "closed"

HomeKept(t) ==
    /\ \A v \in Users : Mic(t) \in store'[v].producers => Mic(t) \in store[v].producers
    /\ \A k \in Sockets : UpMic(k, t) /\ DownMic(k, t)
    /\ making'[Mic(t)] \in {making[Mic(t)], None}
    /\ SameTransport(t)
    /\ sending[t].mic \in {"asked", "given"} /\ OneSocket(UserOf(t)) =>
          store'[UserOf(t)].send = store[UserOf(t)].send

MadeKept(t) ==
    /\ UpMic(t, t) /\ DownMic(t, t)
    /\ InStore(t)' => InStore(t)
    /\ making'[Mic(t)] \in {making[Mic(t)], None}
    /\ SameTransport(t)
    /\ Mic(t) \in paused' <=> Mic(t) \in paused

SeatKept(t) ==
    /\ DownMic(t, t)
    /\ InStore(t)' => InStore(t)
    /\ making'[Mic(t)] \in {making[Mic(t)], None}
    /\ t \in members /\ net[t] # "closed" => t \in members'
    /\ RoomOf(t) # None => RoomOf(t)' # None

FollowKept(t) ==
    /\ UserOf(t) \in raced <=> UserOf(t) \in raced'
    /\ settings'[UserOf(t)].muted = settings[UserOf(t)].muted
    /\ SameTransport(t)
    /\ InStore(t)' <=> InStore(t)
    /\ InStore(t) /\ IsHeard(t)' => IsHeard(t)
    /\ Mic(t) \in paused' <=> Mic(t) \in paused
    /\ net[t] # "closed" => TurnsKept(t)

SocketStays(u) ==
    /\ store'[u].socket = store[u].socket
    /\ \A t \in SocketsOf(u) : /\ net'[t] \in {"connecting", "open"} <=> net[t] \in {"connecting", "open"}
                               /\ net'[t] = "closed" <=> net[t] = "closed"

LEMMA SocketStaysForOne ==
    ASSUME NEW u \in Users, SocketStays(u)
    PROVE  /\ OneSocket(u)' <=> OneSocket(u)
           /\ \A k, t \in Sockets : UserOf(t) = u => (Near(k, t)' <=> Near(k, t))
<1>1. OneSocket(u)' <=> OneSocket(u)
  BY DEF SocketStays, OneSocket
<1> QED
  BY <1>1 DEF Near

LEMMA OneSocketStays ==
    ASSUME SocketsStay
    PROVE  /\ \A u \in Users : SocketStays(u) /\ (OneSocket(u)' <=> OneSocket(u))
           /\ \A k, t \in Sockets : Near(k, t)' <=> Near(k, t)
<1>1. \A u \in Users : SocketStays(u)
  BY DEF SocketsStay, SocketStays, SocketsOf, Sockets
<1> QED
  BY <1>1, SocketStaysForOne, UserOfType

LEMMA SetUpStays ==
    ASSUME NEW t \in Sockets, SetUpOnce(t), SetUpKept(t)
    PROVE  SetUpOnce(t)'
<1>1. /\ Once(up[t], Joining)' /\ Once(down[t], Joined)' /\ Once(up[t], SendAsked)' /\ Once(down[t], SendMade)'
      /\ Has(up[t], Joining)' => Has(up[t], Joining)
      /\ Has(down[t], Joined)' => Has(down[t], Joined)
      /\ Has(up[t], SendAsked)' => Has(up[t], SendAsked)
      /\ Has(down[t], SendMade)' => Has(down[t], SendMade)
  BY LessHas DEF SetUpOnce, SetUpKept, Lessens
<1> QED
  BY <1>1 DEF SetUpOnce, SetUpKept

LEMMA HomeStays ==
    ASSUME NEW t \in Sockets, Homeward(t), SocketStays(UserOf(t)), HomeKept(t)
    PROVE  Homeward(t)'
<1>1. /\ OneSocket(UserOf(t))' <=> OneSocket(UserOf(t))
      /\ \A k \in Sockets : Near(k, t)' <=> Near(k, t)
      /\ UserOf(t) \in Users
  BY SocketStaysForOne, UserOfType
<1>2. \A v \in Users : (Mic(t) \in store[v].producers)' =>
         v = UserOf(t) /\ (OneSocket(v)' => store'[v].socket = t)
  BY <1>1 DEF Homeward, HomeKept, SocketStays
<1>3. \A k \in Sockets : Has(up[k], Asking(t))' \/ Has(up[k], Turning(t))' \/ Has(down[k], Made(t))' => Near(k, t)'
  <2>1. \A k \in Sockets : /\ Has(up[k], Asking(t))' => Has(up[k], Asking(t))
                           /\ Has(up[k], Turning(t))' => Has(up[k], Turning(t))
                           /\ Has(down[k], Made(t))' => Has(down[k], Made(t))
    BY LessHas DEF HomeKept, UpMic, DownMic
  <2> QED
    BY <1>1, <2>1 DEF Homeward
<1>4. making'[Mic(t)] # None => Near(making[Mic(t)].socket, t)'
  <2>1. making'[Mic(t)] # None => making'[Mic(t)] = making[Mic(t)]
    BY DEF HomeKept
  <2> QED
    BY <1>1, <2>1 DEF Homeward, Near
<1>5. /\ sending'[t].mic # "none" /\ sending'[t].socket # None => UserOf(sending'[t].socket) = UserOf(t)
      /\ sending'[t].mic \in {"asked", "given"} /\ OneSocket(UserOf(t))' =>
            /\ sending'[t].socket = t
            /\ store'[UserOf(t)].socket = t /\ store'[UserOf(t)].send = t
  BY <1>1 DEF Homeward, HomeKept, SameTransport, SocketStays
<1> QED
  BY <1>2, <1>3, <1>4, <1>5 DEF Homeward

LEMMA MadeStays ==
    ASSUME NEW t \in Sockets, MadeOnce(t), MadeAsMuted(t), MadeKept(t)
    PROVE  MadeOnce(t)' /\ MadeAsMuted(t)'
<1>1. /\ Once(up[t], Asking(t))' /\ Once(down[t], Made(t))'
      /\ Has(up[t], Asking(t))' => Has(up[t], Asking(t))
      /\ Has(up[t], Turning(t))' => Has(up[t], Turning(t))
      /\ Has(down[t], Made(t))' => Has(down[t], Made(t))
  BY LessHas DEF MadeOnce, MadeKept, UpMic, DownMic, Lessens
<1>2. MadeOnce(t)'
  BY <1>1 DEF MadeOnce, MadeKept, SameTransport
<1>3. \A i \in DOMAIN up'[t] : up'[t][i] \in Asking(t) => \E j \in DOMAIN up[t] : up[t][j] = up'[t][i]
  BY DEF MadeKept, UpMic, Lessens
<1>4. \A i \in DOMAIN up'[t] : up'[t][i] \in Asking(t) =>
         up'[t][i].paused = sending'[t].muted /\ Mic(t) \notin paused'
  BY <1>3 DEF MadeAsMuted, MadeKept, SameTransport
<1>5. making'[Mic(t)] # None => making'[Mic(t)] = making[Mic(t)]
  BY DEF MadeKept
<1>6. MadeAsMuted(t)'
  BY <1>1, <1>4, <1>5 DEF MadeAsMuted, MadeKept, SameTransport
<1> QED
  BY <1>2, <1>6

LEMMA SeatStays ==
    ASSUME NEW t \in Sockets, Seated(t), SocketStays(UserOf(t)), SeatKept(t)
    PROVE  Seated(t)'
<1>1. Has(down[t], Made(t))' => Has(down[t], Made(t))
  BY LessHas DEF SeatKept, DownMic
<1>2. net'[t] = "closed" <=> net[t] = "closed"
  BY DEF SocketStays, SocketsOf, UserOf, Sockets
<1> QED
  BY <1>1, <1>2 DEF Seated, SeatKept

LEMMA FollowStays ==
    ASSUME NEW t \in Sockets, FollowsMute(t), FollowKept(t), TypeOK, InStore(t) => net[t] # "closed"
    PROVE  FollowsMute(t)'
<1>1. UserOf(t) \in Users /\ settings[UserOf(t)].muted \in BOOLEAN
  BY UserOfType DEF TypeOK
<1>2. IsBeingMade(t)' <=> IsBeingMade(t)
  BY DEF IsBeingMade, FollowKept, SameTransport, InStore, Mic
<1>3. (Mic(t) \in paused') = (Mic(t) \in paused) /\ (Mic(t) \in paused) \in BOOLEAN
  BY DEF FollowKept
<1>4. InStore(t) /\ ComesToBe(settings[UserOf(t)].muted, Mic(t) \in paused, t, up[t]) =>
         ComesToBe(settings[UserOf(t)].muted, Mic(t) \in paused, t, up'[t])
  BY <1>1, <1>3 DEF FollowKept, TurnsKept
<1>5. ComesToBe(settings[UserOf(t)].muted, Mic(t) \in paused, t, up'[t]) =>
         ComesToBe(settings[UserOf(t)].muted, Mic(t) \in paused, t, up[t])'
  BY <1>3 DEF FollowKept, ComesToBe, Turn
<1> QED
  BY <1>2, <1>4, <1>5 DEF FollowsMute, FollowKept, SameTransport

LEMMA WireStays ==
    ASSUME NEW t \in Sockets, WireInOrder(t), WireKept(t)
    PROVE  WireInOrder(t)'
<1>1. Has(up[t], Parting)' => Has(up[t], Parting)
  BY LessHas DEF WireKept, Parting, Has, Lessens
<1> QED
  BY <1>1 DEF WireInOrder, WireKept

Kept(t) == WireKept(t) /\ SetUpKept(t) /\ HomeKept(t) /\ MadeKept(t) /\ SeatKept(t) /\ FollowKept(t)

LEMMA KeptStaysForOne ==
    ASSUME TypeOK, NEW t \in Sockets, SocketStays(UserOf(t)), SocketInOrder(t), SocketIsOpen(UserOf(t))
    PROVE  /\ WireKept(t) => WireInOrder(t)'
           /\ SetUpKept(t) => SetUpOnce(t)'
           /\ HomeKept(t) => Homeward(t)'
           /\ MadeKept(t) /\ SeatKept(t) /\ FollowKept(t) => MicInOrder(t)'
           /\ Kept(t) => SocketInOrder(t)'
<1>1. WireKept(t) => WireInOrder(t)'
  BY WireStays DEF SocketInOrder
<1>2. SetUpKept(t) => SetUpOnce(t)'
  BY SetUpStays DEF SocketInOrder
<1>3. HomeKept(t) => Homeward(t)'
  BY HomeStays DEF SocketInOrder
<1>4. ASSUME MadeKept(t), SeatKept(t), FollowKept(t)
      PROVE  MicInOrder(t)'
  <2>1. OneSocket(UserOf(t))' => OneSocket(UserOf(t))
    BY SocketStaysForOne, UserOfType
  <2>2. OneSocket(UserOf(t)) /\ InStore(t) => net[t] # "closed"
    <3>1. t # None
      BY MediaAssumption DEF Sockets
    <3> QED
      BY <3>1, UserOfType DEF SocketInOrder, Homeward, InStore, SocketIsOpen
  <2> QED
    BY <1>4, <2>1, <2>2, MadeStays, SeatStays, FollowStays DEF SocketInOrder, MicInOrder
<1> QED
  BY <1>1, <1>2, <1>3, <1>4 DEF Kept, SocketInOrder

LEMMA KeptStays ==
    ASSUME TypeOK, NEW t \in Sockets, SocketsStay, SocketInOrder(t), SocketIsOpen(UserOf(t))
    PROVE  /\ WireKept(t) => WireInOrder(t)'
           /\ SetUpKept(t) => SetUpOnce(t)'
           /\ HomeKept(t) => Homeward(t)'
           /\ MadeKept(t) /\ SeatKept(t) /\ FollowKept(t) => MicInOrder(t)'
           /\ Kept(t) => SocketInOrder(t)'
BY OneSocketStays, UserOfType, KeptStaysForOne

LEMMA SocketsStayOpen ==
    ASSUME SocketsStay, \A u \in Users : OwnSocket(u) /\ SocketIsOpen(u)
    PROVE  \A u \in Users : SocketIsOpen(u)'
BY DEF SocketsStay, SocketIsOpen, OwnSocket, SocketsOf, Sockets

-----------------------------------------------------------------------------
(* Steps that are about no microphone *)

LEMMA TakenIs ==
    ASSUME TypeOK, NEW s \in Sockets, NEW type, Asked(s, type), Taken(s)
    PROVE  /\ up[s] \in Seq(ToServer) /\ up[s] # << >>
           /\ Head(up[s]) \in ToServer /\ Head(up[s]).type = type
           /\ \A t \in Sockets : up'[t] = IF t = s THEN Tail(up[s]) ELSE up[t]
<1>1. up[s] \in Seq(ToServer) /\ up[s] # << >> /\ Head(up[s]).type = type
  BY DEF TypeOK, Asked
<1>2. Head(up[s]) \in ToServer
  BY <1>1, TailLessens
<1>3. \A t \in Sockets : up'[t] = IF t = s THEN Tail(up[s]) ELSE up[t]
  BY DEF Taken, TypeOK
<1> QED
  BY <1>1, <1>2, <1>3

LEMMA TakenCalm ==
    ASSUME TypeOK, NEW s \in Sockets, NEW type, type \notin {"join", "send", "produce", "pause", "resume"},
           Asked(s, type), Taken(s)
    PROVE  \A t \in Sockets : UpCalm(t)
<1>1. Head(up[s]) \in CalmUp \cup Parting
  BY TakenIs, MessageSorts DEF CalmUp
<1> QED
  BY <1>1, TakenIs DEF UpCalm

LEMMA TellsCalm ==
    ASSUME TypeOK, NEW s \in Sockets, NEW messages \in Seq(CalmDown),
           down' \in {down, Reply(s, messages), Broadcast(s, messages)}
    PROVE  \A t \in Sockets : DownCalm(t)
<1>1. \A t \in Sockets : Reply(s, messages)[t] = IF t = s /\ Reaches(s) THEN down[t] \o messages ELSE down[t]
  BY DEF Reply, TypeOK
<1>2. \A t \in Sockets : Broadcast(s, messages)[t] =
                             IF t \in Others(s) /\ Reaches(t) THEN down[t] \o messages ELSE down[t]
  BY DEF Broadcast
<1> QED
  BY <1>1, <1>2 DEF DownCalm, Reaches

\* A step that is about no microphone: what is said of one only grows less, and the room of a
\* socket that has one loses what it lists.
LEMMA MicIsKept ==
    ASSUME NEW t \in Sockets,
           \A k \in Sockets : UpMic(k, t) /\ DownMic(k, t),
           net[t] # "closed" => TurnsKept(t),
           \A u \in Users : /\ Mic(t) \in store'[u].producers <=> Mic(t) \in store[u].producers
                            /\ settings'[u].muted = settings[u].muted,
           sending[t].mic \in {"asked", "given"} /\ OneSocket(UserOf(t)) =>
              store'[UserOf(t)].send = store[UserOf(t)].send,
           UNCHANGED raced,
           SameTransport(t), making'[Mic(t)] = making[Mic(t)],
           Mic(t) \in paused' <=> Mic(t) \in paused,
           t \in members /\ net[t] # "closed" => t \in members',
           RoomOf(t) # None => RoomOf(t)' # None,
           IsHeard(t)' => IsHeard(t)
    PROVE  HomeKept(t) /\ MadeKept(t) /\ SeatKept(t) /\ FollowKept(t)
<1>1. UserOf(t) \in Users
  BY UserOfType
<1>2. HomeKept(t)
  BY <1>1 DEF HomeKept
<1>3. InStore(t)' <=> InStore(t)
  BY <1>1 DEF InStore
<1>4. MadeKept(t) /\ SeatKept(t)
  BY <1>3 DEF MadeKept, SeatKept
<1>5. FollowKept(t)
  BY <1>1, <1>3 DEF FollowKept
<1> QED
  BY <1>2, <1>4, <1>5

\* A step that changes nothing but queues, of which only what is said besides, and rooms that
\* lose what they list and members that have left.
LEMMA CalmIsKept ==
    ASSUME TypeOK, NEW t \in Sockets,
           \A k \in Sockets : UpCalm(k) /\ DownCalm(k),
           \A u \in Users : /\ store'[u].send = store[u].send
                            /\ Mic(t) \in store'[u].producers <=> Mic(t) \in store[u].producers
                            /\ settings'[u].muted = settings[u].muted,
           UNCHANGED <<net, channelOf, loading, rooms, creating, raced>>,
           SameTransport(t), making'[Mic(t)] = making[Mic(t)],
           Mic(t) \in paused' <=> Mic(t) \in paused,
           t \in members /\ net[t] # "closed" => t \in members',
           IsHeard(t)' => IsHeard(t)
    PROVE  Kept(t)
<1>1. /\ \A k \in Sockets : UpLess(k) /\ DownLess(k)
      /\ net[t] # "closed" => TurnsKept(t)
  BY UpCalmLess, DownCalmLess
<1>2. \A k \in Sockets : UpMic(k, t) /\ DownMic(k, t)
  BY <1>1 DEF UpLess, DownLess, UpMic, DownMic
<1>3. WireKept(t)
  BY <1>1 DEF WireKept, UpLess, DownCalm, TypeOK
<1>4. SetUpKept(t)
  BY <1>1 DEF SetUpKept, UpLess, DownLess, SameTransport
<1>5. RoomOf(t)' = RoomOf(t) /\ UserOf(t) \in Users
  BY UserOfType DEF RoomOf
<1>6. HomeKept(t) /\ MadeKept(t) /\ SeatKept(t) /\ FollowKept(t)
  BY <1>1, <1>2, <1>5, MicIsKept
<1> QED
  BY <1>3, <1>4, <1>6 DEF Kept

LEMMA ListedLess ==
    ASSUME TypeOK, NEW t \in Sockets, UNCHANGED <<rooms, channelOf>>,
           \A r \in Sockets : listed'[r] \subseteq listed[r]
    PROVE  IsHeard(t)' => IsHeard(t)
BY DEF IsHeard, RoomOf

LEMMA PartingIs ==
    ASSUME TypeOK, NEW s \in Sockets, WireInOrder(s), NEW type \in {"close", "bye"}, Asked(s, type)
    PROVE  net[s] = "closed"
<1>1. up[s] \in Seq(ToServer) /\ up[s] # << >> /\ Head(up[s]).type = type
  BY DEF Asked, TypeOK
<1>2. Has(up[s], Parting)
  BY <1>1, TailLessens, MessageSorts
<1> QED
  BY <1>2 DEF WireInOrder

\* What sfu-service does about consumers, and about what is closed.
LEMMA ServerIsCalm ==
    ASSUME TypeOK, SocketsInUse, NEW s \in Sockets, WireInOrder(s),
           \/ GetProducers(s) \/ HandleConsume(s) \/ HandlePauseConsumer(s) \/ HandleResumeConsumer(s)
           \/ HandleCloseProducer(s) \/ HandleCloseConsumer(s) \/ HandleCloseClient(s)
           \/ Disconnected(s) \/ \E p \in Producers : ConsumerMade(s, p)
    PROVE  SocketsStay /\ \A t \in Sockets : Kept(t)
<1>1. UNCHANGED <<local, rooms, creating, paused, making, historyVars>>
  BY DEF GetProducers, HandleConsume, HandlePauseConsumer, HandleResumeConsumer, HandleCloseProducer,
         HandleCloseConsumer, HandleCloseClient, Disconnected, ConsumerMade, serverVars, seats, media, awaits
<1>2. /\ UNCHANGED <<settings, store, net, channelOf, loading, sending, rooms, creating, paused, making, raced>>
      /\ SocketsStay
  BY <1>1 DEF local, clientVars, historyVars, SocketsStay
<1>3. /\ \A p \in Producers : \A type \in {"consumer", "closeProducer"} :
            <<[type |-> type, producer |-> p]>> \in Seq(CalmDown)
      /\ \A S \in SUBSET Producers : <<[type |-> "producers", producers |-> S]>> \in Seq(CalmDown)
      /\ \A S \in SUBSET Producers : Closings(S) \in Seq(CalmDown)
  <2>1. /\ \A p \in Producers : \A type \in {"consumer", "closeProducer"} :
              [type |-> type, producer |-> p] \in CalmDown
        /\ \A S \in SUBSET Producers : [type |-> "producers", producers |-> S] \in CalmDown
    BY DEF CalmDown, ToClient
  <2>2. ASSUME NEW S \in SUBSET Producers
        PROVE  Closings(S) \in Seq(CalmDown)
    <3>1. PICK message : message = [p \in S |-> [type |-> "closeProducer", producer |-> p]]
      OBVIOUS
    <3>2. message \in [S -> CalmDown]
      BY <2>1, <3>1
    <3>3. PICK M : M = {message[p] : p \in S} /\ M = {[type |-> "closeProducer", producer |-> p] : p \in S}
      BY <3>1
    <3> QED
      BY <3>2, <3>3, MessagesType DEF Closings
  <2> QED
    BY <2>1, <2>2
<1>4. SUFFICES /\ \A t \in Sockets : UpCalm(t) /\ DownCalm(t)
               /\ \A t \in members : t \in members' \/ net[t] = "closed"
               /\ \A r \in Sockets : listed'[r] \subseteq listed[r]
  BY <1>2, CalmIsKept, ListedLess DEF SameTransport
<1>5. /\ UNCHANGED up => \A t \in Sockets : UpCalm(t)
      /\ UNCHANGED down => \A t \in Sockets : DownCalm(t)
  BY DEF UpCalm, DownCalm
<1>6. CASE \/ HandleConsume(s) \/ HandlePauseConsumer(s) \/ HandleResumeConsumer(s)
           \/ HandleCloseConsumer(s) \/ Disconnected(s)
  <2>1. \E type \in {"consume", "pauseConsumers", "resumeConsumers", "closeConsumer", "bye"} :
           Asked(s, type) /\ Taken(s) /\ (type # "bye" => UNCHANGED members)
    BY <1>6 DEF HandleConsume, HandlePauseConsumer, HandleResumeConsumer, HandleCloseConsumer, Disconnected, seats
  <2>2. UNCHANGED <<down, listed>> /\ members \ {s} \subseteq members'
    BY <1>6 DEF HandleConsume, HandlePauseConsumer, HandleResumeConsumer, HandleCloseConsumer, Disconnected,
                seats, media
  <2> QED
    BY <1>5, <2>1, <2>2, TakenCalm, PartingIs
<1>7. CASE GetProducers(s)
  <2>1. /\ Asked(s, "producers") /\ Taken(s) /\ UNCHANGED <<members, listed>>
        /\ down' = IF InRoom(s) THEN Reply(s, <<[type |-> "producers", producers |-> listed[RoomOf(s)]]>>) ELSE down
    BY <1>7 DEF GetProducers, serverVars, seats, media
  <2>2. InRoom(s) => listed[RoomOf(s)] \in SUBSET Producers
    BY <2>1, RoomOfType DEF InRoom, Asked, TypeOK
  <2> QED
    BY <1>3, <1>5, <2>1, <2>2, TakenCalm, TellsCalm
<1>8. CASE \E p \in Producers : ConsumerMade(s, p)
  BY <1>3, <1>5, <1>8, TellsCalm DEF ConsumerMade, seats
<1>9. CASE HandleCloseProducer(s)
  <2>1. PICK p : p = Head(up[s]).producer
    OBVIOUS
  <2>2. /\ Asked(s, "closeProducer") /\ Taken(s) /\ UNCHANGED members
        /\ down' \in {down, Broadcast(s, <<[type |-> "closeProducer", producer |-> p]>>)}
        /\ listed' \in {listed, [listed EXCEPT ![RoomOf(s)] = @ \ {p}]}
    BY <1>9, <2>1 DEF HandleCloseProducer, seats
  <2>3. p \in Producers
    BY <2>1, <2>2, TakenIs DEF ToServer
  <2>4. \A r \in Sockets : listed'[r] \subseteq listed[r]
    BY <2>2 DEF TypeOK
  <2> QED
    BY <1>3, <2>2, <2>3, <2>4, TakenCalm, TellsCalm
<1>10. CASE HandleCloseClient(s)
  <2>1. Asked(s, "close") /\ owned[s] \in SUBSET Producers /\ net[s] = "closed" /\ up[s] # << >>
    BY <1>10, PartingIs DEF HandleCloseClient, TypeOK, Asked
  <2>2. CASE s \notin peers
    BY <1>5, <1>10, <2>1, <2>2, TakenCalm DEF HandleCloseClient
  <2>3. CASE s \in peers
    <3>1. /\ up' = [up EXCEPT ![s] = << >>] /\ down' = Broadcast(s, Closings(owned[s]))
          /\ members' = members \ {s} /\ listed' = [listed EXCEPT ![RoomOf(s)] = @ \ owned[s]]
      BY <1>10, <2>3 DEF HandleCloseClient, ListedOnceClosed
    <3>2. \A t \in Sockets : UpCalm(t)
      BY <2>1, <3>1 DEF UpCalm, TypeOK
    <3>3. \A r \in Sockets : listed'[r] \subseteq listed[r]
      BY <3>1 DEF TypeOK
    <3> QED
      BY <1>3, <2>1, <3>1, <3>2, <3>3, TellsCalm
  <2> QED
    BY <2>2, <2>3
<1> QED
  BY <1>6, <1>7, <1>8, <1>9, <1>10

\* What a step of sfu-service takes from a socket, and what it replies.
LEMMA TakenLess ==
    ASSUME TypeOK, NEW s \in Sockets, NEW type, Asked(s, type), Taken(s)
    PROVE  /\ \A t \in Sockets : UpLess(t)
           /\ \A t \in Sockets : t # s \/ Head(up[s]) \notin Turning(t) => TurnsKept(t)
           /\ \A M : Head(up[s]) \in M => Has(up[s], M) /\ (Once(up[s], M) => ~Has(up'[s], M))
<1>1. PICK q : q = up[s] /\ q \in Seq(ToServer) /\ q # << >> /\ up'[s] = Tail(q)
                /\ \A t \in Sockets \ {s} : up'[t] = up[t]
  BY TakenIs
<1>2. \A M : /\ Lessens(Tail(q), q, M)
             /\ Head(q) \in M => Has(q, M)
             /\ Head(q) \in M /\ Once(q, M) => ~Has(Tail(q), M)
  BY <1>1, TailLessens
<1>3. ASSUME Head(q) \notin Turning(s)
      PROVE  TurnsKept(s)
  <2>1. \A muted, is \in BOOLEAN : ComesToBe(muted, is, s, q) => ComesToBe(muted, is, s, Tail(q))
    BY <1>1, <1>3, ComesTail
  <2> QED
    BY <1>1, <2>1 DEF TurnsKept
<1>4. ASSUME NEW t \in Sockets, t # s
      PROVE  UpLess(t) /\ TurnsKept(t)
  BY <1>1, <1>4, LessHas DEF UpLess, TurnsKept
<1>5. UpLess(s)
  BY <1>1, <1>2 DEF UpLess
<1> QED
  BY <1>1, <1>2, <1>3, <1>4, <1>5

LEMMA UpUnchanged ==
    ASSUME UNCHANGED up
    PROVE  \A t \in Sockets : UpLess(t) /\ TurnsKept(t)
BY LessHas DEF UpLess, TurnsKept

LEMMA DownUnchanged ==
    ASSUME NEW t \in Sockets, down'[t] = down[t]
    PROVE  DownLess(t)
BY LessHas DEF DownLess

LEMMA AddedLess ==
    ASSUME NEW T, NEW q \in Seq(T), NEW m \in T, NEW M
    PROVE  /\ m \notin M => Lessens(q \o <<m>>, q, M)
           /\ ~Has(q, M) => Once(q \o <<m>>, M)
           /\ Has(q \o <<m>>, M) <=> Has(q, M) \/ m \in M
<1>1. <<m>> \in Seq(T) /\ Once(<<m>>, M) /\ (Has(<<m>>, M) <=> m \in M)
  BY OneHas
<1> QED
  BY <1>1, ConcatHas

\* A step that leaves the microphones as they are, but for the set-up of a socket.
LEMMA SetUpStep ==
    ASSUME TypeOK, NEW s \in Sockets,
           \A t \in Sockets : SocketInOrder(t) /\ SocketIsOpen(UserOf(t)),
           SocketsStay,
           \A t \in Sockets : /\ t # s => UNCHANGED <<up[t], down[t]>>
                              /\ t # s => (t \in loading' => t \in loading) /\ (t \in creating' => t \in creating)
                              /\ WireKept(t)
                              /\ HomeKept(t) /\ MadeKept(t) /\ SeatKept(t) /\ FollowKept(t)
                              /\ net'[t] \in {"unused", "connecting"} => net[t] \in {"unused", "connecting"},
           SetUpOnce(s)'
    PROVE  \A t \in Sockets : SocketInOrder(t)'
<1>1. ASSUME NEW t \in Sockets, t # s
      PROVE  SetUpKept(t)
  <2>1. SameTransport(t)
    BY DEF MadeKept
  <2> QED
    BY <1>1, <2>1, LessHas DEF SetUpKept, SameTransport
<1> QED
  BY <1>1, KeptStays DEF SocketInOrder

\* A request to join is answered, at once or when there is a router.
LEMMA JoinKeepsOrder ==
    ASSUME TypeOK, SocketsInUse, RoomInvariant, NEW s \in Sockets, HandleJoinRoom(s) \/ RouterCreated(s),
           \A t \in Sockets : SocketInOrder(t) /\ SocketIsOpen(UserOf(t))
    PROVE  SocketsStay /\ \A t \in Sockets : SocketInOrder(t)'
<1>1. PICK joined : joined = [type |-> "joined"]
  OBVIOUS
<1>2. /\ UNCHANGED <<settings, store, net, channelOf, loading, sending, making, paused, listed, raced>>
      /\ members \subseteq members' /\ SocketsStay
  BY DEF HandleJoinRoom, RouterCreated, local, clientVars, media, awaits, historyVars, SocketsStay
<1>3. /\ joined \in ToClient /\ joined \in Joined /\ joined \notin SendMade
      /\ \A t : joined \notin Made(t)
  BY <1>1 DEF ToClient, Joined, SendMade, Made
<1>4. ASSUME \A t \in Sockets : UpLess(t) /\ TurnsKept(t),
             down' \in {down, Reply(s, <<joined>>)},
             \A t \in Sockets : RoomOf(t) # None => RoomOf(t)' # None,
             \A t \in Sockets : IsHeard(t)' => IsHeard(t),
             \A t \in Sockets \ {s} : up'[t] = up[t] /\ (t \in creating' => t \in creating),
             SetUpOnce(s)'
      PROVE  \A t \in Sockets : SocketInOrder(t)'
  <2>1. \A t \in Sockets : down'[t] = down[t] \/ (t = s /\ net[t] = "open" /\ down'[t] = down[t] \o <<joined>>)
    BY <1>4 DEF Reply, Reaches, TypeOK
  <2>2. ASSUME NEW k \in Sockets, NEW t \in Sockets
        PROVE  UpMic(k, t) /\ DownMic(k, t)
    <3>1. down[k] \in Seq(ToClient)
      BY DEF TypeOK
    <3>2. Lessens(down[k] \o <<joined>>, down[k], Made(t))
      BY <1>3, <3>1, AddedLess
    <3> QED
      BY <1>4, <2>1, <3>2, LessHas DEF UpMic, DownMic, UpLess
  <2>3. ASSUME NEW t \in Sockets
        PROVE  WireKept(t) /\ HomeKept(t) /\ MadeKept(t) /\ SeatKept(t) /\ FollowKept(t)
    <3>1. WireKept(t)
      BY <1>2, <1>4, <2>1 DEF WireKept, UpLess
    <3>2. SameTransport(t)
      BY <1>2 DEF SameTransport
    <3> QED
      BY <1>2, <1>4, <2>2, <3>1, <3>2, MicIsKept
  <2> QED
    BY <1>2, <1>4, <2>1, <2>3, SetUpStep
<1>5. /\ down[s] \in Seq(ToClient) /\ SetUpOnce(s) /\ WireInOrder(s)
      /\ Reply(s, <<joined>>)[s] \in {down[s], down[s] \o <<joined>>}
  BY DEF TypeOK, SocketInOrder, Reply
<1>6. /\ ~Has(down[s], Joined) => Once(down[s] \o <<joined>>, Joined)
      /\ Has(down[s] \o <<joined>>, SendMade) <=> Has(down[s], SendMade)
      /\ Once(down[s], SendMade) => Once(down[s] \o <<joined>>, SendMade)
  BY <1>3, <1>5, AddedLess DEF Lessens
<1>7. CASE HandleJoinRoom(s)
  <2>1. /\ Asked(s, "join") /\ Taken(s) /\ UNCHANGED rooms
        /\ \/ creating' = creating \cup {s} /\ UNCHANGED down
           \/ UNCHANGED creating /\ down' = Reply(s, <<joined>>)
    BY <1>1, <1>7 DEF HandleJoinRoom
  <2>2. Head(up[s]) \in Joining /\ \A t : Head(up[s]) \notin Turning(t)
    BY <2>1, TakenIs, MessageSorts DEF Turning
  <2>3. /\ \A t \in Sockets : UpLess(t) /\ TurnsKept(t)
        /\ Has(up[s], Joining) /\ ~Has(up'[s], Joining)
    BY <1>5, <2>1, <2>2, TakenLess DEF SetUpOnce
  <2>4. /\ sending[s].mic = "none" /\ ~Has(down[s], SendMade) /\ ~Has(up[s], SendAsked) /\ s \notin loading
        /\ ~Has(down[s], Joined) /\ s \notin creating /\ net[s] \notin {"unused", "connecting"}
    BY <1>5, <2>3 DEF SetUpOnce
  <2>5. ~Has(up'[s], SendAsked) /\ Once(up'[s], SendAsked) /\ Once(up'[s], Joining)
    BY <1>5, <2>3, <2>4, LessHas DEF UpLess, SetUpOnce, Lessens
  <2>6. SetUpOnce(s)'
    <3>1. CASE s \in creating' /\ UNCHANGED down
      BY <1>2, <1>5, <2>3, <2>4, <2>5, <3>1 DEF SetUpOnce
    <3>2. CASE UNCHANGED creating /\ down' = Reply(s, <<joined>>)
      BY <1>2, <1>5, <1>6, <2>3, <2>4, <2>5, <3>2 DEF SetUpOnce
    <3> QED
      BY <2>1, <3>1, <3>2
  <2>7. \A t \in Sockets : RoomOf(t)' = RoomOf(t) /\ (IsHeard(t)' => IsHeard(t))
    BY <1>2, <2>1 DEF RoomOf, IsHeard
  <2>8. \A t \in Sockets \ {s} : up'[t] = up[t] /\ (t \in creating' => t \in creating)
    BY <2>1, TakenIs
  <2> QED
    BY <1>2, <1>4, <2>1, <2>3, <2>6, <2>7, <2>8
<1>8. CASE RouterCreated(s)
  <2>1. /\ s \in creating /\ creating' = creating \ {s} /\ UNCHANGED up
        /\ rooms' = [rooms EXCEPT ![channelOf[s]] = s] /\ down' = Reply(s, <<joined>>)
    BY <1>1, <1>8 DEF RouterCreated
  <2>2. \A t \in Sockets : UpLess(t) /\ TurnsKept(t)
    BY <2>1, UpUnchanged
  <2>3. SetUpOnce(s)'
    <3>1. /\ sending[s].mic = "none" /\ ~Has(down[s], SendMade) /\ ~Has(up[s], SendAsked) /\ s \notin loading
          /\ ~Has(down[s], Joined) /\ ~Has(up[s], Joining) /\ net[s] \notin {"unused", "connecting"}
      BY <1>5, <2>1 DEF SetUpOnce
    <3> QED
      BY <1>2, <1>5, <1>6, <2>1, <3>1 DEF SetUpOnce
  <2>4. channelOf[s] \in Channels /\ listed[s] = {}
    BY <2>1, RoomOfType DEF RoomInvariant, RoomsInUse
  <2>5. \A t \in Sockets : RoomOf(t)' = IF channelOf[t] = channelOf[s] THEN s ELSE RoomOf(t)
    BY <1>2, <2>1, <2>4 DEF RoomOf, TypeOK
  <2>6. \A t \in Sockets : RoomOf(t) # None => RoomOf(t)' # None
    BY <2>5, MediaAssumption DEF Sockets
  <2>7. \A t \in Sockets : IsHeard(t)' => IsHeard(t)
    BY <1>2, <2>4, <2>5 DEF IsHeard
  <2> QED
    BY <1>2, <1>4, <2>1, <2>2, <2>3, <2>6, <2>7
<1> QED
  BY <1>2, <1>7, <1>8

\* The parameters of a transport are replied.
LEMMA TransportKeepsOrder ==
    ASSUME TypeOK, SocketsInUse, NEW s \in Sockets, HandleCreateTransport(s),
           \A t \in Sockets : SocketInOrder(t) /\ SocketIsOpen(UserOf(t))
    PROVE  SocketsStay /\ \A t \in Sockets : SocketInOrder(t)'
<1>0. PICK type \in {"send", "recv"} :
         /\ Asked(s, type) /\ Taken(s)
         /\ down' = IF InRoom(s) THEN Reply(s, <<[type |-> type, room |-> RoomOf(s)]>>) ELSE down
  BY DEF HandleCreateTransport
<1>1. PICK reply :
         /\ Asked(s, type) /\ Taken(s) /\ reply = [type |-> type, room |-> RoomOf(s)]
         /\ down' = IF InRoom(s) THEN Reply(s, <<reply>>) ELSE down
  BY <1>0
<1>2. /\ UNCHANGED <<settings, store, net, channelOf, loading, sending, making, paused, listed, raced,
                     members, rooms, creating>>
      /\ SocketsStay
  BY DEF HandleCreateTransport, local, clientVars, serverVars, seats, media, awaits, historyVars, SocketsStay
<1>3. /\ InRoom(s) => reply \in ToClient /\ RoomOf(s) \in Sockets
      /\ \A t : reply \notin Made(t)
      /\ reply \notin Joined
      /\ type = "recv" => reply \notin SendMade
  <2>1. InRoom(s) => RoomOf(s) \in Sockets
    BY <1>1, RoomOfType DEF InRoom, Asked
  <2> QED
    BY <1>1, <2>1 DEF ToClient, Made, Joined, SendMade
<1>4. \A t \in Sockets : down'[t] = down[t] \/ (t = s /\ net[t] = "open" /\ InRoom(s) /\ down'[t] = down[t] \o <<reply>>)
  BY <1>1 DEF Reply, Reaches, TypeOK
<1>5. /\ \A t \in Sockets : UpLess(t) /\ TurnsKept(t)
      /\ \A t \in Sockets \ {s} : up'[t] = up[t]
  <2>1. \A t : Head(up[s]) \notin Turning(t)
    BY <1>1, TakenIs DEF Turning
  <2> QED
    BY <1>1, <2>1, TakenLess, TakenIs
<1>6. ASSUME NEW k \in Sockets, NEW t \in Sockets
      PROVE  UpMic(k, t) /\ DownMic(k, t)
  <2>1. down[k] \in Seq(ToClient)
    BY DEF TypeOK
  <2>2. InRoom(s) => Lessens(down[k] \o <<reply>>, down[k], Made(t))
    BY <1>3, <2>1, AddedLess
  <2> QED
    BY <1>4, <1>5, <2>2, LessHas DEF UpMic, DownMic, UpLess
<1>7. ASSUME NEW t \in Sockets
      PROVE  WireKept(t) /\ HomeKept(t) /\ MadeKept(t) /\ SeatKept(t) /\ FollowKept(t)
  <2>1. WireKept(t)
    BY <1>2, <1>4, <1>5 DEF WireKept, UpLess
  <2>2. SameTransport(t)
    BY <1>2 DEF SameTransport
  <2>3. RoomOf(t)' = RoomOf(t) /\ (IsHeard(t)' => IsHeard(t))
    BY <1>2 DEF RoomOf, IsHeard
  <2> QED
    BY <1>2, <1>5, <1>6, <2>1, <2>2, <2>3, MicIsKept
<1>8. SetUpOnce(s)'
  <2>1. down[s] \in Seq(ToClient) /\ SetUpOnce(s)
    BY DEF TypeOK, SocketInOrder
  <2>2. CASE type = "send"
    <3>1. Head(up[s]) \in SendAsked
      BY <1>1, <2>2, TakenIs, MessageSorts
    <3>2. Has(up[s], SendAsked) /\ ~Has(up'[s], SendAsked)
      BY <1>1, <2>1, <3>1, TakenLess DEF SetUpOnce
    <3>3. /\ sending[s].mic = "none" /\ ~Has(down[s], SendMade) /\ s \notin loading /\ s \notin creating
          /\ ~Has(down[s], Joined) /\ ~Has(up[s], Joining) /\ net[s] \notin {"unused", "connecting"}
      BY <2>1, <3>2 DEF SetUpOnce
    <3>4. ~Has(up'[s], Joining) /\ Once(up'[s], Joining) /\ Once(up'[s], SendAsked)
      BY <1>5, <2>1, <3>3, LessHas DEF UpLess, SetUpOnce, Lessens
    <3>5. InRoom(s) => /\ Once(down[s] \o <<reply>>, SendMade)
                       /\ Once(down[s] \o <<reply>>, Joined)
                       /\ ~Has(down[s] \o <<reply>>, Joined)
      BY <1>3, <2>1, <3>3, AddedLess
    <3>6. Once(down'[s], SendMade) /\ Once(down'[s], Joined) /\ ~Has(down'[s], Joined)
      BY <1>4, <2>1, <3>3, <3>5 DEF SetUpOnce
    <3> QED
      BY <1>2, <3>2, <3>3, <3>4, <3>6 DEF SetUpOnce
  <2>3. CASE type = "recv"
    <3>1. InRoom(s) => /\ Lessens(down[s] \o <<reply>>, down[s], SendMade)
                       /\ Lessens(down[s] \o <<reply>>, down[s], Joined)
      BY <1>3, <2>1, <2>3, AddedLess
    <3>2. Lessens(down'[s], down[s], SendMade) /\ Lessens(down'[s], down[s], Joined)
      BY <1>4, <3>1, LessHas
    <3>3. SetUpKept(s)
      BY <1>2, <1>5, <3>2 DEF SetUpKept, UpLess
    <3> QED
      BY <2>1, <3>3, SetUpStays
  <2> QED
    BY <1>1, <2>2, <2>3
<1> QED
  BY <1>2, <1>4, <1>5, <1>7, <1>8, SetUpStep

-----------------------------------------------------------------------------
(* Steps about one microphone *)

\* A step about the microphone of one socket leaves those of the others as they are.
LEMMA OneMicStep ==
    ASSUME TypeOK, NEW s \in Sockets, SocketsStay,
           \A t \in Sockets : SocketInOrder(t) /\ SocketIsOpen(UserOf(t)),
           \A t \in Sockets \ {s} : HomeKept(t) /\ MadeKept(t) /\ SeatKept(t) /\ FollowKept(t),
           \A t \in Sockets : WireKept(t) /\ SetUpKept(t),
           Homeward(s)', MicInOrder(s)'
    PROVE  \A t \in Sockets : SocketInOrder(t)'
<1>1. ASSUME NEW t \in Sockets, t # s
      PROVE  SocketInOrder(t)'
  BY <1>1, KeptStays DEF Kept
<1>2. SocketInOrder(s)'
  BY KeptStays DEF SocketInOrder
<1> QED
  BY <1>1, <1>2

\* A microphone of a client with one socket is asked for, made and turned on its own socket.
LEMMA NearIsOwn ==
    ASSUME NEW k \in Sockets, NEW t \in Sockets, Near(k, t), OneSocket(UserOf(t)), MicInOrder(t)
    PROVE  k = t /\ MadeOnce(t) /\ MadeAsMuted(t) /\ Seated(t) /\ FollowsMute(t)
BY DEF Near, MicInOrder

LEMMA NotClosed ==
    ASSUME NEW t \in Sockets, OneSocket(UserOf(t)), Homeward(t), SocketIsOpen(UserOf(t)), InStore(t)
    PROVE  net[t] # "closed" /\ store[UserOf(t)].socket = t
<1>1. t # None
  BY MediaAssumption DEF Sockets
<1> QED
  BY <1>1, UserOfType DEF Homeward, InStore, SocketIsOpen

LEMMA HeadIsFirst ==
    ASSUME NEW T, NEW q \in Seq(T), q # << >>
    PROVE  1 \in DOMAIN q /\ q[1] = Head(q)
<1>1. Len(q) \in Nat \ {0} /\ DOMAIN q = 1..Len(q)
  OBVIOUS
<1> QED
  BY <1>1

LEMMA MicsDiffer ==
    ASSUME NEW t \in Sockets, NEW k \in Sockets, t # k
    PROVE  Mic(t) # Mic(k)
BY DEF Mic

\* A microphone is being made once it was asked for.
LEMMA ProduceKeepsOrder ==
    ASSUME TypeOK, SocketsInUse, NEW s \in Sockets, HandleProduce(s),
           \A t \in Sockets : SocketInOrder(t) /\ SocketIsOpen(UserOf(t))
    PROVE  SocketsStay /\ \A t \in Sockets : SocketInOrder(t)'
<1>1. PICK request : request = Head(up[s])
  OBVIOUS
<1>2. PICK made : made = [room |-> request.room, paused |-> request.paused, socket |-> s]
  OBVIOUS
<1>3. /\ Asked(s, "produce") /\ Taken(s)
      /\ \/ making' = making
         \/ InRoom(s) /\ making' = [making EXCEPT ![request.producer] = made]
  BY <1>1, <1>2 DEF HandleProduce
<1>4. /\ UNCHANGED <<settings, store, net, channelOf, loading, sending, down, paused, listed, raced,
                     members, rooms, creating>>
      /\ SocketsStay
  BY DEF HandleProduce, local, clientVars, seats, media, historyVars, SocketsStay
<1>5. request \in ToServer /\ request.type = "produce" /\ request.producer \in Producers
  BY <1>1, <1>3, TakenIs DEF ToServer
<1>6. /\ \A t \in Sockets : UpLess(t) /\ TurnsKept(t) /\ DownLess(t)
      /\ \A M : request \in M => Has(up[s], M) /\ (Once(up[s], M) => ~Has(up'[s], M))
  <2>1. \A t : request \notin Turning(t)
    BY <1>5 DEF Turning
  <2> QED
    BY <1>1, <1>3, <1>4, <2>1, TakenLess, DownUnchanged
<1>7. ASSUME NEW t \in Sockets
      PROVE  /\ WireKept(t) /\ SetUpKept(t) /\ SameTransport(t)
             /\ RoomOf(t)' = RoomOf(t) /\ (IsHeard(t)' <=> IsHeard(t))
             /\ \A k \in Sockets : UpMic(k, t) /\ DownMic(k, t)
  BY <1>4, <1>6 DEF WireKept, SetUpKept, SameTransport, RoomOf, IsHeard, UpLess, DownLess, UpMic, DownMic
<1>8. ASSUME NEW t \in Sockets, Mic(t) # request.producer \/ making' = making
      PROVE  HomeKept(t) /\ MadeKept(t) /\ SeatKept(t) /\ FollowKept(t)
  <2>1. making'[Mic(t)] = making[Mic(t)]
    BY <1>3, <1>8, MessageSorts DEF TypeOK
  <2> QED
    BY <1>4, <1>6, <1>7, <2>1, MicIsKept
<1>9. CASE making' = making \/ \A t \in Sockets : Mic(t) # request.producer
  BY <1>4, <1>7, <1>8, <1>9, KeptStays DEF Kept
<1>10. ASSUME NEW t \in Sockets, Mic(t) = request.producer, InRoom(s), making' = [making EXCEPT ![Mic(t)] = made]
       PROVE  \A k \in Sockets : SocketInOrder(k)'
  <2>1. making'[Mic(t)] = made /\ \A k \in Sockets \ {t} : making'[Mic(k)] = making[Mic(k)]
    BY <1>10, MessageSorts, MicsDiffer DEF TypeOK
  <2>2. /\ SocketInOrder(t) /\ SocketIsOpen(UserOf(t)) /\ Homeward(t) /\ request \in Asking(t)
        /\ Has(up[s], Asking(t)) /\ Near(s, t) /\ UserOf(t) \in Users
    BY <1>5, <1>6, <1>10, MessageSorts, UserOfType DEF SocketInOrder, Homeward
  <2>3. /\ \A u \in Users : OneSocket(u)' <=> OneSocket(u)
        /\ \A k \in Sockets : Near(k, t)' <=> Near(k, t)
    BY <1>4, OneSocketStays
  <2>4. Homeward(t)'
    <3>1. \A k \in Sockets : /\ Has(up'[k], Asking(t)) => Has(up[k], Asking(t))
                             /\ Has(up'[k], Turning(t)) => Has(up[k], Turning(t))
      BY <1>7, LessHas DEF UpMic
    <3>2. \A k \in Sockets : Has(up[k], Asking(t))' \/ Has(up[k], Turning(t))' \/ Has(down[k], Made(t))' => Near(k, t)'
      BY <1>4, <2>2, <2>3, <3>1 DEF Homeward
    <3>3. making'[Mic(t)].socket = s
      BY <1>2, <2>1
    <3> QED
      BY <1>4, <2>2, <2>3, <3>2, <3>3 DEF Homeward
  <2>5. ASSUME OneSocket(UserOf(t))
        PROVE  (MadeOnce(t) /\ MadeAsMuted(t) /\ Seated(t) /\ FollowsMute(t))'
    <3>1. s = t /\ MadeOnce(t) /\ MadeAsMuted(t) /\ Seated(t) /\ FollowsMute(t)
      BY <2>2, <2>5, NearIsOwn DEF SocketInOrder
    <3>2. /\ sending[t].mic \in {"given", "closed"} /\ ~InStore(t) /\ ~Has(up[t], Turning(t))
          /\ ~Has(down[t], Made(t)) /\ making[Mic(t)] = None
      BY <2>2, <3>1 DEF MadeOnce
    <3>3. ~Has(up'[t], Asking(t)) /\ ~Has(up'[t], Turning(t)) /\ Once(up'[t], Asking(t))
      BY <1>6, <1>7, <2>2, <3>1, <3>2, LessHas DEF MadeOnce, UpMic, Lessens
    <3>4. InStore(t)' <=> InStore(t)
      BY <1>4 DEF InStore
    <3>5. MadeOnce(t)'
      BY <1>4, <3>1, <3>2, <3>3, <3>4 DEF MadeOnce
    <3>6. made.paused = sending[t].muted /\ Mic(t) \notin paused
      BY <1>1, <1>2, <2>2, <1>3, <3>1, TakenIs, HeadIsFirst DEF MadeAsMuted
    <3>7. MadeAsMuted(t)'
      BY <1>4, <2>1, <3>2, <3>3, <3>6 DEF MadeAsMuted, Has
    <3>8. Seated(t)'
      BY <1>4, <1>7, <1>10, <3>1 DEF Seated, InRoom
    <3>9. FollowsMute(t)'
      BY <1>4, <3>1, <3>2, <3>4 DEF FollowsMute, IsBeingMade
    <3> QED
      BY <3>5, <3>7, <3>8, <3>9
  <2>6. MicInOrder(t)'
    BY <2>2, <2>3, <2>5 DEF MicInOrder
  <2>7. \A k \in Sockets \ {t} : HomeKept(k) /\ MadeKept(k) /\ SeatKept(k) /\ FollowKept(k)
    BY <1>8, <1>10, MicsDiffer
  <2> QED
    BY <1>4, <1>7, <2>4, <2>6, <2>7, OneMicStep
<1>11. ASSUME NEW t \in Sockets, Mic(t) = request.producer, making' # making
       PROVE  \A k \in Sockets : SocketInOrder(k)'
  BY <1>3, <1>10, <1>11
<1> QED
  BY <1>4, <1>9, <1>11

\* A microphone that was made is announced to the room and to its user.
LEMMA MadeKeepsOrder ==
    ASSUME TypeOK, SocketsInUse, NEW p \in Producers, ProducerMade(p),
           \A t \in Sockets : SocketInOrder(t) /\ SocketIsOpen(UserOf(t))
    PROVE  SocketsStay /\ \A t \in Sockets : SocketInOrder(t)'
<1>1. PICK s : s = making[p].socket /\ making[p] # None /\ s \in Sockets
  BY MakingType DEF ProducerMade
<1>2. PICK produced, joined : /\ produced = [type |-> "produced", producer |-> p]
                              /\ joined = [type |-> "producerJoined", producer |-> p]
  OBVIOUS
<1>3. /\ UNCHANGED <<settings, store, net, channelOf, loading, sending, up, raced, members, rooms, creating>>
      /\ SocketsStay
  BY DEF ProducerMade, local, clientVars, seats, historyVars, SocketsStay
<1>4. /\ making' = [making EXCEPT ![p] = None]
      /\ paused' = PausedOnceMade(p)
      /\ listed' = [listed EXCEPT ![making[p].room] = @ \cup {p}]
      /\ down' = [Broadcast(s, <<joined>>) EXCEPT ![s] = Reply(s, <<produced>>)[s]]
  BY <1>1, <1>2 DEF ProducerMade
<1>5. \A t \in Sockets :
         \/ down'[t] = down[t]
         \/ net[t] = "open" /\ down'[t] = down[t] \o <<joined>>
         \/ t = s /\ net[t] = "open" /\ down'[t] = down[t] \o <<produced>>
  <2>1. Reply(s, <<produced>>)[s] = IF net[s] = "open" THEN down[s] \o <<produced>> ELSE down[s]
    BY <1>1 DEF Reply, Reaches, TypeOK
  <2>2. \A t \in Sockets : Broadcast(s, <<joined>>)[t] \in {down[t], down[t] \o <<joined>>}
                           /\ (net[t] # "open" => Broadcast(s, <<joined>>)[t] = down[t])
    BY DEF Broadcast, Reaches
  <2>3. \A t \in Sockets : down'[t] = IF t = s THEN Reply(s, <<produced>>)[s] ELSE Broadcast(s, <<joined>>)[t]
    BY <1>4 DEF Broadcast
  <2> QED
    BY <2>1, <2>2, <2>3
<1>6. /\ joined \in ToClient /\ joined \notin Joined /\ joined \notin SendMade /\ \A t : joined \notin Made(t)
      /\ produced \in ToClient /\ produced \notin Joined /\ produced \notin SendMade
      /\ \A t \in Sockets : produced \in Made(t) <=> Mic(t) = p
  BY <1>2, MessageSorts DEF ToClient, Joined, SendMade, Made
<1>7. ASSUME NEW k \in Sockets, NEW M, joined \notin M, k = s => produced \notin M
      PROVE  Lessens(down'[k], down[k], M)
  <2>1. down[k] \in Seq(ToClient)
    BY DEF TypeOK
  <2>2. Lessens(down[k] \o <<joined>>, down[k], M) /\ Lessens(down[k], down[k], M)
    BY <1>6, <1>7, <2>1, AddedLess, LessHas
  <2>3. k = s => Lessens(down[k] \o <<produced>>, down[k], M)
    BY <1>6, <1>7, <2>1, AddedLess
  <2> QED
    BY <1>5, <2>2, <2>3
<1>8. ASSUME NEW t \in Sockets
      PROVE  /\ WireKept(t) /\ SetUpKept(t) /\ SameTransport(t)
             /\ RoomOf(t)' = RoomOf(t)
             /\ \A k \in Sockets : UpMic(k, t) /\ (Mic(t) # p \/ k # s => DownMic(k, t))
  <2>1. UpLess(t) /\ \A k \in Sockets : UpMic(k, t)
    BY <1>3, UpUnchanged, LessHas DEF UpMic
  <2>2. Lessens(down'[t], down[t], Joined) /\ Lessens(down'[t], down[t], SendMade)
    BY <1>6, <1>7
  <2>3. \A k \in Sockets : Mic(t) # p \/ k # s => DownMic(k, t)
    BY <1>6, <1>7 DEF DownMic
  <2> QED
    BY <1>3, <1>5, <2>1, <2>2, <2>3 DEF WireKept, SetUpKept, SameTransport, RoomOf, UpLess
<1>9. ASSUME NEW t \in Sockets, Mic(t) # p
      PROVE  HomeKept(t) /\ MadeKept(t) /\ SeatKept(t) /\ FollowKept(t)
  <2>1. /\ making'[Mic(t)] = making[Mic(t)]
        /\ Mic(t) \in paused' <=> Mic(t) \in paused
        /\ TurnsKept(t)
    BY <1>3, <1>4, <1>9, MessageSorts, UpUnchanged DEF PausedOnceMade, TypeOK
  <2>2. IsHeard(t)' => IsHeard(t)
    BY <1>4, <1>8, <1>9 DEF IsHeard, TypeOK
  <2> QED
    BY <1>3, <1>8, <1>9, <2>1, <2>2, MicIsKept
<1>10. CASE \A t \in Sockets : Mic(t) # p
  BY <1>3, <1>8, <1>9, <1>10, KeptStays DEF Kept
<1>11. ASSUME NEW t \in Sockets, Mic(t) = p
       PROVE  \A k \in Sockets : SocketInOrder(k)'
  <2>1. making'[Mic(t)] = None
    BY <1>4, <1>11 DEF TypeOK
  <2>2. /\ SocketInOrder(t) /\ Homeward(t) /\ Near(s, t) /\ UserOf(t) \in Users
    BY <1>1, <1>11, UserOfType DEF SocketInOrder, Homeward
  <2>3. /\ \A u \in Users : OneSocket(u)' <=> OneSocket(u)
        /\ \A k \in Sockets : Near(k, t)' <=> Near(k, t)
    BY <1>3, OneSocketStays
  <2>4. Homeward(t)'
    <3>1. \A k \in Sockets \ {s} : Has(down'[k], Made(t)) => Has(down[k], Made(t))
      BY <1>8, LessHas DEF DownMic
    <3>2. \A k \in Sockets : Has(up[k], Asking(t))' \/ Has(up[k], Turning(t))' \/ Has(down[k], Made(t))' => Near(k, t)'
      BY <1>3, <2>2, <2>3, <3>1 DEF Homeward
    <3> QED
      BY <1>3, <2>1, <2>2, <2>3, <3>2 DEF Homeward
  <2>5. ASSUME OneSocket(UserOf(t))
        PROVE  (MadeOnce(t) /\ MadeAsMuted(t) /\ Seated(t) /\ FollowsMute(t))'
    <3>1. s = t /\ MadeOnce(t) /\ MadeAsMuted(t) /\ Seated(t) /\ FollowsMute(t)
      BY <1>1, <2>2, <2>5, NearIsOwn DEF SocketInOrder
    <3>2. /\ sending[t].mic \in {"given", "closed"} /\ ~InStore(t) /\ ~Has(up[t], Turning(t))
          /\ ~Has(down[t], Made(t)) /\ ~Has(up[t], Asking(t))
      BY <1>1, <1>11, <3>1 DEF MadeOnce
    <3>3. InStore(t)' <=> InStore(t)
      BY <1>3 DEF InStore
    <3>4. Once(down'[t], Made(t))
      <4>1. down[t] \in Seq(ToClient)
        BY DEF TypeOK
      <4>2. Once(down[t], Made(t)) /\ Once(down[t] \o <<joined>>, Made(t)) /\ Once(down[t] \o <<produced>>, Made(t))
        BY <1>6, <3>1, <3>2, <4>1, AddedLess DEF MadeOnce
      <4> QED
        BY <1>5, <4>2
    <3>5. MadeOnce(t)'
      BY <1>3, <2>1, <3>1, <3>2, <3>3, <3>4 DEF MadeOnce
    <3>6. Mic(t) \in paused' <=> sending[t].muted
      BY <1>1, <1>4, <1>11, <3>1 DEF MadeAsMuted, PausedOnceMade
    <3>7. MadeAsMuted(t)'
      BY <1>3, <2>1, <3>2, <3>6 DEF MadeAsMuted, Has
    <3>8. Seated(t)'
      BY <1>1, <1>3, <1>8, <1>11, <3>1 DEF Seated
    <3>9. FollowsMute(t)'
      BY <1>3, <3>1, <3>2, <3>3 DEF FollowsMute, IsBeingMade
    <3> QED
      BY <3>5, <3>7, <3>8, <3>9
  <2>6. MicInOrder(t)'
    BY <2>2, <2>3, <2>5 DEF MicInOrder
  <2>7. \A k \in Sockets \ {t} : HomeKept(k) /\ MadeKept(k) /\ SeatKept(k) /\ FollowKept(k)
    BY <1>9, <1>11, MicsDiffer
  <2> QED
    BY <1>3, <1>8, <2>4, <2>6, <2>7, OneMicStep
<1> QED
  BY <1>3, <1>10, <1>11

\* A microphone that is turned on or off.
LEMMA TurnKeepsOrder ==
    ASSUME TypeOK, SocketsInUse, NEW s \in Sockets, HandlePauseProducer(s) \/ HandleResumeProducer(s),
           \A t \in Sockets : SocketInOrder(t) /\ SocketIsOpen(UserOf(t))
    PROVE  SocketsStay /\ \A t \in Sockets : SocketInOrder(t)'
<1>1. PICK request, p : request = Head(up[s]) /\ p = request.producer
  OBVIOUS
<1>2. PICK type \in {"pause", "resume"} :
         /\ Asked(s, type) /\ Taken(s)
         /\ paused' = IF IsListed(s, p) THEN (IF type = "pause" THEN paused \cup {p} ELSE paused \ {p}) ELSE paused
  BY <1>1 DEF HandlePauseProducer, HandleResumeProducer
<1>3. /\ UNCHANGED <<settings, store, net, channelOf, loading, sending, down, making, listed, raced,
                     members, rooms, creating>>
      /\ SocketsStay
  BY DEF HandlePauseProducer, HandleResumeProducer, local, clientVars, seats, awaits, historyVars, SocketsStay
<1>4. request \in ToServer /\ request.type = type /\ p \in Producers /\ up[s] \in Seq(ToServer) /\ up[s] # << >>
      /\ up'[s] = Tail(up[s])
  BY <1>1, <1>2, TakenIs DEF ToServer
<1>5. /\ \A t \in Sockets : UpLess(t) /\ DownLess(t) /\ (t # s \/ Mic(t) # p => TurnsKept(t))
      /\ \A M : request \in M => Has(up[s], M)
  <2>1. \A t \in Sockets : Mic(t) # p => request \notin Turning(t)
    BY <1>1 DEF Turning
  <2> QED
    BY <1>1, <1>2, <1>3, <2>1, TakenLess, DownUnchanged
<1>6. ASSUME NEW t \in Sockets
      PROVE  /\ WireKept(t) /\ SetUpKept(t) /\ SameTransport(t)
             /\ RoomOf(t)' = RoomOf(t) /\ (IsHeard(t)' <=> IsHeard(t)) /\ (InStore(t)' <=> InStore(t))
             /\ \A k \in Sockets : UpMic(k, t) /\ DownMic(k, t)
  BY <1>3, <1>5 DEF WireKept, SetUpKept, SameTransport, RoomOf, IsHeard, InStore, UpLess, DownLess, UpMic, DownMic
<1>7. ASSUME NEW t \in Sockets, Mic(t) # p
      PROVE  HomeKept(t) /\ MadeKept(t) /\ SeatKept(t) /\ FollowKept(t)
  <2>1. Mic(t) \in paused' <=> Mic(t) \in paused
    BY <1>2, <1>7
  <2> QED
    BY <1>3, <1>5, <1>6, <1>7, <2>1, MicIsKept
<1>8. CASE \A t \in Sockets : Mic(t) # p
  BY <1>3, <1>6, <1>7, <1>8, KeptStays DEF Kept
<1>9. ASSUME NEW t \in Sockets, Mic(t) = p
      PROVE  \A k \in Sockets : SocketInOrder(k)'
  <2>1. /\ SocketInOrder(t) /\ SocketIsOpen(UserOf(t)) /\ Homeward(t) /\ request \in Turning(t)
        /\ Has(up[s], Turning(t)) /\ Near(s, t) /\ UserOf(t) \in Users
    BY <1>1, <1>4, <1>5, <1>9, MessageSorts, UserOfType DEF SocketInOrder, Homeward
  <2>2. \A u \in Users : OneSocket(u)' <=> OneSocket(u)
    BY <1>3, OneSocketStays
  <2>3. HomeKept(t)
    BY <1>3, <1>6, <2>1 DEF HomeKept
  <2>4. Homeward(t)'
    BY <1>3, <2>1, <2>3, HomeStays, OneSocketStays, UserOfType
  <2>5. ASSUME OneSocket(UserOf(t))
        PROVE  (MadeOnce(t) /\ MadeAsMuted(t) /\ Seated(t) /\ FollowsMute(t))'
    <3>1. s = t /\ MadeOnce(t) /\ MadeAsMuted(t) /\ Seated(t) /\ FollowsMute(t)
      BY <2>1, <2>5, NearIsOwn DEF SocketInOrder
    <3>2. /\ sending[t].mic \in {"given", "closed"} /\ ~Has(down[t], Made(t)) /\ making[Mic(t)] = None
          /\ ~Has(up[t], Asking(t))
      BY <2>1, <3>1 DEF MadeOnce
    <3>3. ~Has(up'[t], Asking(t)) /\ Once(up'[t], Asking(t)) /\ (Has(up'[t], Turning(t)) => Has(up[t], Turning(t)))
      BY <1>6, <3>1, <3>2, LessHas DEF MadeOnce, UpMic, Lessens
    <3>4. MadeOnce(t)'
      BY <1>3, <1>6, <3>1, <3>2, <3>3 DEF MadeOnce
    <3>5. MadeAsMuted(t)'
      BY <1>3, <3>2, <3>3 DEF MadeAsMuted, Has
    <3>6. Seated(t)'
      BY <1>3, <1>6, <3>1 DEF Seated
    <3>7. ASSUME UserOf(t) \notin raced, InStore(t), IsHeard(t)
          PROVE  ComesToBe(settings[UserOf(t)].muted, Mic(t) \in paused', t, up'[t])
      <4>1. PICK muted \in BOOLEAN : muted = settings[UserOf(t)].muted
        BY <2>1 DEF TypeOK
      <4>2. (Mic(t) \in paused) \in BOOLEAN
        OBVIOUS
      <4>3. ComesToBe(muted, Mic(t) \in paused, t, up[t])
        BY <3>1, <3>7, <4>1 DEF FollowsMute
      <4>4. ComesToBe(muted, request.type = "pause", t, Tail(up[t]))
        <5>1. \A is \in BOOLEAN : ComesToBe(muted, is, t, up[t]) =>
                 ComesToBe(muted, Head(up[t]).type = "pause", t, Tail(up[t]))
          BY <1>1, <1>4, <2>1, <3>1, ComesTail
        <5>2. ComesToBe(muted, Head(up[t]).type = "pause", t, Tail(up[t]))
          BY <4>2, <4>3, <5>1
        <5> QED
          BY <1>1, <3>1, <5>2
      <4>5. IsListed(s, p)
        BY <1>9, <2>1, <2>5, <3>1, <3>7, NotClosed DEF Seated, IsListed, InRoom, IsHeard
      <4>6. (Mic(t) \in paused') = (request.type = "pause")
        BY <1>2, <1>4, <1>9, <4>5
      <4> QED
        BY <1>4, <3>1, <4>1, <4>4, <4>6
    <3>8. FollowsMute(t)'
      BY <1>3, <1>6, <3>1, <3>7 DEF FollowsMute, IsBeingMade, ComesToBe
    <3> QED
      BY <3>4, <3>5, <3>6, <3>8
  <2>6. MicInOrder(t)'
    BY <2>1, <2>2, <2>5 DEF MicInOrder
  <2>7. \A k \in Sockets \ {t} : HomeKept(k) /\ MadeKept(k) /\ SeatKept(k) /\ FollowKept(k)
    BY <1>7, <1>9, MicsDiffer
  <2> QED
    BY <1>3, <1>6, <2>4, <2>6, <2>7, OneMicStep
<1> QED
  BY <1>3, <1>8, <1>9

-----------------------------------------------------------------------------
(* What a client does about something else *)

LEMMA CalmRequests ==
    ASSUME NEW S \in SUBSET Producers, NEW type \in {"closeProducer", "closeConsumer"}
    PROVE  Requests(type, S) \in Seq(CalmUp)
<1>1. PICK message : message = [p \in S |-> [type |-> type, producer |-> p]]
  OBVIOUS
<1>2. PICK M : M = {[type |-> type, producer |-> p] : p \in S}
  OBVIOUS
<1>3. \A p \in S : [type |-> type, producer |-> p] \in CalmUp
  BY DEF ToServer, CalmUp
<1>4. message \in [S -> CalmUp] /\ M = {message[p] : p \in S}
  BY <1>1, <1>2, <1>3
<1> QED
  BY <1>2, <1>4, MessagesType DEF Requests

LEMMA CalmConsumptions ==
    ASSUME TypeOK, NEW u \in Users, NEW S \in SUBSET Producers
    PROVE  Consumptions(u, S) \in Seq(CalmUp)
<1>1. PICK room : room = receiving[store[u].recv]
  OBVIOUS
<1>2. PICK of : of = {q \in S : OwnerOf(q) # u}
  OBVIOUS
<1>3. PICK message : message = [p \in of |-> [type |-> "consume", producer |-> p, room |-> room]]
  OBVIOUS
<1>4. PICK M : M = {[type |-> "consume", producer |-> p, room |-> room] : p \in of}
  OBVIOUS
<1>5. CASE CanConsume(u)
  <2>1. store[u] \in Store
    BY DEF TypeOK
  <2>2. store[u].recv \in Sockets
    BY <1>5, <2>1 DEF CanConsume, Store, Room
  <2>3. room \in Room
    BY <1>1, <2>2 DEF TypeOK
  <2>4. \A p \in of : [type |-> "consume", producer |-> p, room |-> room] \in CalmUp
    BY <1>2, <2>3 DEF ToServer, CalmUp
  <2>5. of \in SUBSET Producers
    BY <1>2
  <2>6. message \in [of -> CalmUp] /\ M = {message[p] : p \in of}
    BY <1>3, <1>4, <2>4
  <2>7. SetToSeq(M) \in Seq(CalmUp)
    BY <2>5, <2>6, MessagesType
  <2> QED
    BY <1>1, <1>2, <1>4, <1>5, <2>7 DEF Consumptions
<1>6. CASE ~CanConsume(u)
  BY <1>6, EmptySeq DEF Consumptions
<1> QED
  BY <1>5, <1>6

\* What a client says that is about no microphone.
LEMMA SaysCalm ==
    ASSUME TypeOK,
           \/ up' = up
           \/ \E u \in Users : \E messages \in Seq(CalmUp) : up' = Sent(u, messages)
           \/ \E k \in Sockets : \E message \in CalmUp : up' = [up EXCEPT ![k] = Append(@, message)]
    PROVE  \A t \in Sockets : UpCalm(t)
<1>1. CASE up' = up
  BY <1>1 DEF UpCalm
<1>2. ASSUME NEW u \in Users, NEW messages \in Seq(CalmUp), up' = Sent(u, messages)
      PROVE  \A t \in Sockets : UpCalm(t)
  <2>1. \A t \in Sockets : up'[t] \in {up[t], up[t] \o messages}
    BY <1>2 DEF Sent
  <2> QED
    BY <2>1 DEF UpCalm
<1>3. ASSUME NEW k \in Sockets, NEW message \in CalmUp, up' = [up EXCEPT ![k] = Append(@, message)]
      PROVE  \A t \in Sockets : UpCalm(t)
  <2>0. up[k] \in Seq(ToServer) /\ message \in ToServer
    BY DEF TypeOK, CalmUp
  <2>1. Append(up[k], message) = up[k] \o <<message>> /\ <<message>> \in Seq(CalmUp)
    BY <2>0
  <2>2. \A t \in Sockets : up'[t] \in {up[t], up[t] \o <<message>>}
    BY <1>3, <2>1 DEF TypeOK
  <2> QED
    BY <2>1, <2>2 DEF UpCalm
<1> QED
  BY <1>1, <1>2, <1>3

\* What a client takes is of its type.
LEMMA TakesCalm ==
    ASSUME TypeOK, NEW s \in Sockets, NEW type, Told(s, type), Heard(s)
    PROVE  /\ \A t \in Sockets : DownCalm(t)
           /\ down[s] \in Seq(ToClient) /\ down[s] # << >> /\ Head(down[s]) \in ToClient /\ Head(down[s]).type = type
           /\ \A t \in Sockets : down'[t] = IF t = s THEN Tail(down[s]) ELSE down[t]
<1>1. down[s] \in Seq(ToClient) /\ down[s] # << >> /\ Head(down[s]).type = type
  BY DEF Told, TypeOK
<1>2. Head(down[s]) \in ToClient
  BY <1>1
<1>3. \A t \in Sockets : down'[t] = IF t = s THEN Tail(down[s]) ELSE down[t]
  BY DEF Heard, TypeOK
<1> QED
  BY <1>1, <1>2, <1>3 DEF DownCalm

\* A step of a client that changes nothing that is about a microphone.
LEMMA CalmStep ==
    ASSUME TypeOK, NEW u \in Users, NEW new,
           \A k \in Sockets : UpCalm(k) /\ DownCalm(k),
           store' \in {store, [store EXCEPT ![u] = new]},
           new.socket = store[u].socket, new.send = store[u].send,
           \A p \in Producers : IsAudio(p) => (p \in new.producers <=> p \in store[u].producers),
           \A w \in Users : settings'[w].muted = settings[w].muted,
           UNCHANGED <<net, channelOf, loading, rooms, creating, raced, making, paused, members, listed>>,
           \A t \in Sockets : SameTransport(t)
    PROVE  SocketsStay /\ \A t \in Sockets : Kept(t)
<1>1. \A w \in Users : store'[w] = store[w] \/ (w = u /\ store'[w] = new)
  BY DEF TypeOK
<1>2. SocketsStay
  BY <1>1 DEF SocketsStay
<1>3. ASSUME NEW t \in Sockets
      PROVE  Kept(t)
  <2>1. \A w \in Users : /\ store'[w].send = store[w].send
                         /\ Mic(t) \in store'[w].producers <=> Mic(t) \in store[w].producers
    BY <1>1, MessageSorts
  <2>2. IsHeard(t)' <=> IsHeard(t)
    BY DEF IsHeard, RoomOf
  <2> QED
    BY <2>1, <2>2, CalmIsKept
<1> QED
  BY <1>2, <1>3

LEMMA UserIsCalm ==
    ASSUME TypeOK, SocketsInUse, NEW u \in Users, UserStep(u), ~SetMuted(u)
    PROVE  SocketsStay /\ \A t \in Sockets : Kept(t)
<1>1. PICK st : st = store[u] /\ st \in Store
  BY DEF TypeOK
<1>2. UNCHANGED <<net, channelOf, loading, down, serverVars, raced>>
  BY DEF UserStep, JoinCall, JoinChannel, LeaveCall, HangUp, Click, SetDeafened, StartScreenShare,
         StopScreenShare, historyVars
<1>3. UNCHANGED <<rooms, creating, making, paused, members, listed>>
  BY <1>2 DEF serverVars, seats, media, awaits
<1>4. \A k \in Sockets : DownCalm(k)
  BY <1>2 DEF DownCalm
<1>5. ASSUME NEW new, store' \in {store, [store EXCEPT ![u] = new]},
             new.socket = st.socket, new.send = st.send,
             \A p \in Producers : IsAudio(p) => (p \in new.producers <=> p \in st.producers),
             \A w \in Users : settings'[w].muted = settings[w].muted,
             \A t \in Sockets : SameTransport(t), \A t \in Sockets : UpCalm(t)
      PROVE  SocketsStay /\ \A t \in Sockets : Kept(t)
  BY <1>1, <1>2, <1>3, <1>4, <1>5, CalmStep
<1>6. UNCHANGED sending => \A t \in Sockets : SameTransport(t)
  BY DEF SameTransport
<1>7. ASSUME NEW type, NEW c, Click(u, type, c)
      PROVE  SocketsStay /\ \A t \in Sockets : Kept(t)
  <2>1. UNCHANGED <<store, up, settings, sending>>
    BY <1>7 DEF Click
  <2> QED
    BY <1>1, <1>5, <1>6, <2>1, SaysCalm
<1>8. CASE SetDeafened(u)
  <2>1. PICK message : message = [type |-> IF ~settings[u].deafened THEN "pauseConsumers" ELSE "resumeConsumers"]
    OBVIOUS
  <2>2. message \in CalmUp
    BY <2>1 DEF CalmUp, ToServer
  <2>3. up' = Sent(u, <<message>>) /\ <<message>> \in Seq(CalmUp)
    BY <1>8, <2>1, <2>2 DEF SetDeafened
  <2>4. PICK silent, new : /\ silent = IF ~settings[u].deafened THEN {p \in Held(u) : IsAudio(p)} ELSE {}
                           /\ new = [st EXCEPT !.silenced = silent]
    OBVIOUS
  <2>5. store' \in {store, [store EXCEPT ![u] = new]} /\ UNCHANGED sending
    BY <1>1, <1>8, <2>4 DEF SetDeafened
  <2>6. new.socket = st.socket /\ new.send = st.send /\ new.producers = st.producers
    BY <1>1, <2>4 DEF Store
  <2>7. \A w \in Users : settings'[w].muted = settings[w].muted
    BY <1>8 DEF SetDeafened, TypeOK
  <2>8. \A t \in Sockets : UpCalm(t)
    BY <2>3, SaysCalm
  <2>9. \A t \in Sockets : SameTransport(t)
    BY <1>6, <2>5
  <2> QED
    BY <1>5, <2>5, <2>6, <2>7, <2>8, <2>9
<1>9. CASE StartScreenShare(u)
  <2>1. PICK t : t = st.send
    OBVIOUS
  <2>2. t \in Sockets /\ sending[t].mic # "none"
    BY <1>1, <1>9, <2>1 DEF StartScreenShare, Store, Room, SocketsInUse
  <2>3. sending[t] \in Transport
    BY <2>2 DEF TypeOK, NoTransport
  <2>4. PICK k, message :
           /\ k = sending[t].socket
           /\ message = [type |-> "produce", producer |-> <<t, "screen">>, paused |-> FALSE, room |-> sending[t].room]
    OBVIOUS
  <2>5. /\ up' \in {up, [up EXCEPT ![k] = Append(@, message)]} /\ (k = None => up' = up)
        /\ UNCHANGED <<store, settings>>
        /\ sending' = [sending EXCEPT ![t].share = TRUE]
    BY <1>1, <1>9, <2>1, <2>4 DEF StartScreenShare, clientVars
  <2>6. k # None => k \in Sockets /\ message \in CalmUp
    <3>1. k \in Room /\ sending[t].room \in Room /\ <<t, "screen">> \in Producers
      BY <2>2, <2>3, <2>4 DEF Transport, Room, Producers, Kinds
    <3>2. IsScreen(<<t, "screen">>)
      BY DEF IsScreen
    <3> QED
      BY <2>4, <3>1, <3>2 DEF CalmUp, ToServer, Room
  <2>7. \A w \in Sockets : SameTransport(w)
    <3>1. \A w \in Sockets \ {t} : sending'[w] = sending[w]
      BY <2>5 DEF TypeOK
    <3>2. sending'[t] = [sending[t] EXCEPT !.share = TRUE]
      BY <2>2, <2>5 DEF TypeOK
    <3> QED
      BY <2>3, <3>1, <3>2 DEF SameTransport, Transport
  <2>8. \A w \in Sockets : UpCalm(w)
    BY <2>5, <2>6, SaysCalm
  <2> QED
    BY <1>1, <1>5, <2>5, <2>7, <2>8
<1>10. CASE StopScreenShare(u)
  <2>1. PICK p \in ScreenOf(u) :
           /\ up' = Sent(u, Requests("closeProducer", {p}))
           /\ store' = [store EXCEPT ![u].producers = @ \ {p}]
    BY <1>10 DEF StopScreenShare
  <2>2. {p} \in SUBSET Producers /\ ~IsAudio(p) /\ UNCHANGED <<sending, settings>>
    BY <1>1, <1>10 DEF ScreenOf, Store, IsAudio, IsScreen, StopScreenShare
  <2>3. PICK new : new = [st EXCEPT !.producers = @ \ {p}]
    OBVIOUS
  <2>4. store' \in {store, [store EXCEPT ![u] = new]}
    BY <1>1, <2>1, <2>3
  <2>5. new.socket = st.socket /\ new.send = st.send /\ new.producers = st.producers \ {p}
    BY <1>1, <2>3 DEF Store
  <2>6. \A t \in Sockets : UpCalm(t)
    BY <2>1, <2>2, CalmRequests, SaysCalm
  <2>7. \A q \in Producers : IsAudio(q) => (q \in new.producers <=> q \in st.producers)
    BY <2>2, <2>5
  <2>8. \A t \in Sockets : SameTransport(t)
    BY <1>6, <2>2
  <2> QED
    BY <1>5, <2>2, <2>4, <2>5, <2>6, <2>7, <2>8
<1> QED
  BY <1>7, <1>8, <1>9, <1>10 DEF UserStep, JoinCall, JoinChannel, LeaveCall, HangUp

LEMMA ClientIsCalm ==
    ASSUME TypeOK, SocketsInUse, NEW s \in Sockets,
           \/ OnCreateRecvTransport(s) \/ OnGetChannelProducers(s)
           \/ OnProducerJoined(s) \/ OnConsumerCreated(s) \/ OnCloseProducer(s)
    PROVE  SocketsStay /\ \A t \in Sockets : Kept(t)
<1>1. PICK u : u = UserOf(s) /\ u \in Users
  BY UserOfType
<1>2. PICK st : st = store[u] /\ st \in Store
  BY <1>1 DEF TypeOK
<1>3. PICK p : p = Head(down[s]).producer
  OBVIOUS
<1>4. UNCHANGED <<settings, net, channelOf, loading, sending, serverVars, raced>>
  BY DEF OnCreateRecvTransport, OnGetChannelProducers, OnProducerJoined, OnConsumerCreated, OnCloseProducer,
         local, clientVars, historyVars
<1>5. UNCHANGED <<rooms, creating, making, paused, members, listed>>
  BY <1>4 DEF serverVars, seats, media, awaits
<1>6. ASSUME NEW new, store' \in {store, [store EXCEPT ![u] = new]},
             new.socket = st.socket, new.send = st.send, new.producers = st.producers,
             \A t \in Sockets : UpCalm(t) /\ DownCalm(t)
      PROVE  SocketsStay /\ \A t \in Sockets : Kept(t)
  <2>1. \A t \in Sockets : SameTransport(t)
    BY <1>4 DEF SameTransport
  <2> QED
    BY <1>1, <1>2, <1>4, <1>5, <1>6, <2>1, CalmStep
<1>7. CASE OnCreateRecvTransport(s)
  <2>1. PICK new, message : new = [st EXCEPT !.recv = s] /\ message = [type |-> "producers"]
    OBVIOUS
  <2>2. new.socket = st.socket /\ new.send = st.send /\ new.producers = st.producers
    BY <1>2, <2>1 DEF Store
  <2>3. store' \in {store, [store EXCEPT ![u] = new]} /\ up' \in {up, Sent(u, <<message>>)}
    BY <1>1, <1>2, <1>7, <2>1 DEF OnCreateRecvTransport
  <2>4. message \in CalmUp
    BY <2>1 DEF CalmUp, ToServer
  <2>5. <<message>> \in Seq(CalmUp)
    BY <2>4
  <2>6. \A t \in Sockets : UpCalm(t) /\ DownCalm(t)
    BY <1>1, <1>7, <2>3, <2>5, SaysCalm, TakesCalm DEF OnCreateRecvTransport
  <2> QED
    BY <1>6, <2>2, <2>3, <2>6
<1>8. CASE OnGetChannelProducers(s)
  <2>1. Told(s, "producers") /\ Heard(s) /\ UNCHANGED store
        /\ up' = Sent(u, Consumptions(u, Head(down[s]).producers))
    BY <1>1, <1>8 DEF OnGetChannelProducers, local, clientVars
  <2>2. Head(down[s]).producers \in SUBSET Producers
    BY <2>1, TakesCalm DEF ToClient
  <2>3. Consumptions(u, Head(down[s]).producers) \in Seq(CalmUp)
    BY <1>1, <2>2, CalmConsumptions
  <2>4. \A t \in Sockets : UpCalm(t) /\ DownCalm(t)
    BY <1>1, <2>1, <2>3, SaysCalm, TakesCalm
  <2> QED
    BY <1>2, <1>6, <2>1, <2>4
<1>9. CASE OnProducerJoined(s)
  <2>1. Told(s, "producerJoined") /\ Heard(s) /\ up' \in {up, Sent(u, Consumptions(u, {p}))} /\ UNCHANGED store
    BY <1>1, <1>3, <1>9 DEF OnProducerJoined, local, clientVars
  <2>2. p \in Producers
    BY <1>3, <2>1, TakesCalm DEF ToClient
  <2>3. Consumptions(u, {p}) \in Seq(CalmUp)
    BY <1>1, <2>2, CalmConsumptions
  <2>4. \A t \in Sockets : UpCalm(t) /\ DownCalm(t)
    BY <1>1, <2>1, <2>3, SaysCalm, TakesCalm
  <2> QED
    BY <1>2, <1>6, <2>1, <2>4
<1>10. CASE OnConsumerCreated(s)
  <2>1. PICK new, message : /\ new = [st EXCEPT !.consumers[p] = @ + 1, !.silenced = @ \ {p}]
                            /\ message = [type |-> "resumeConsumers"]
    OBVIOUS
  <2>2. new.socket = st.socket /\ new.send = st.send /\ new.producers = st.producers
    BY <1>2, <2>1 DEF Store
  <2>3. store' \in {store, [store EXCEPT ![u] = new]} /\ up' \in {up, Sent(u, <<message>>)}
    BY <1>1, <1>2, <1>3, <1>10, <2>1 DEF OnConsumerCreated
  <2>4. message \in CalmUp
    BY <2>1 DEF CalmUp, ToServer
  <2>5. <<message>> \in Seq(CalmUp)
    BY <2>4
  <2>6. \A t \in Sockets : UpCalm(t) /\ DownCalm(t)
    BY <1>1, <1>10, <2>3, <2>5, SaysCalm, TakesCalm DEF OnConsumerCreated
  <2> QED
    BY <1>6, <2>2, <2>3, <2>6
<1>11. CASE OnCloseProducer(s)
  <2>1. PICK new : new = [st EXCEPT !.consumers[p] = @ - 1]
    OBVIOUS
  <2>2. new.socket = st.socket /\ new.send = st.send /\ new.producers = st.producers
    BY <1>2, <2>1 DEF Store
  <2>3. /\ Told(s, "closeProducer") /\ Heard(s)
        /\ store' \in {store, [store EXCEPT ![u] = new]} /\ up' \in {up, Sent(u, Requests("closeConsumer", {p}))}
    BY <1>1, <1>2, <1>3, <1>11, <2>1 DEF OnCloseProducer
  <2>4. p \in Producers
    BY <1>3, <2>3, TakesCalm DEF ToClient
  <2>5. Requests("closeConsumer", {p}) \in Seq(CalmUp)
    BY <2>4, CalmRequests
  <2>6. \A t \in Sockets : UpCalm(t) /\ DownCalm(t)
    BY <1>1, <2>3, <2>5, SaysCalm, TakesCalm
  <2> QED
    BY <1>6, <2>2, <2>3, <2>6
<1> QED
  BY <1>7, <1>8, <1>9, <1>10, <1>11

-----------------------------------------------------------------------------
(* What a client does to set a socket up, and about its microphone *)

LEMMA HeardLess ==
    ASSUME TypeOK, NEW s \in Sockets, NEW type, Told(s, type), Heard(s)
    PROVE  /\ \A t \in Sockets : DownLess(t)
           /\ \A M : Head(down[s]) \in M => Has(down[s], M) /\ (Once(down[s], M) => ~Has(down'[s], M))
<1>1. /\ \A t \in Sockets : DownCalm(t)
      /\ down[s] \in Seq(ToClient) /\ down[s] # << >> /\ down'[s] = Tail(down[s])
  BY TakesCalm
<1>2. \A M : Head(down[s]) \in M => Has(down[s], M) /\ (Once(down[s], M) => ~Has(down'[s], M))
  BY <1>1, TailLessens
<1> QED
  BY <1>1, <1>2, DownCalmLess

\* What is told on a socket of a client with no other is told on the one in its store.
LEMMA ToldOnOwn ==
    ASSUME NEW s \in Sockets, WireInOrder(s), down[s] # << >>
    PROVE  net[s] = "open" /\ (OneSocket(UserOf(s)) => store[UserOf(s)].socket = s)
<1>1. s \in SocketsOf(UserOf(s))
  BY DEF SocketsOf, UserOf, Sockets
<1> QED
  BY <1>1 DEF WireInOrder, OneSocket

\* A step of one client that changes one microphone, and what leads to it.
LEMMA OneSocketStep ==
    ASSUME TypeOK, NEW s \in Sockets, SocketsStay,
           \A t \in Sockets : SocketInOrder(t) /\ SocketIsOpen(UserOf(t)),
           \A t \in Sockets \ {s} : Kept(t),
           WireKept(s), SetUpOnce(s)', Homeward(s)', MicInOrder(s)'
    PROVE  \A t \in Sockets : SocketInOrder(t)'
<1>1. ASSUME NEW t \in Sockets, t # s
      PROVE  SocketInOrder(t)'
  BY <1>1, KeptStays
<1>2. SocketInOrder(s)'
  BY KeptStays DEF SocketInOrder
<1> QED
  BY <1>1, <1>2

\* A socket is connected, and asks to join.
LEMMA ConnectKeepsOrder ==
    ASSUME TypeOK, NEW s \in Sockets, Connect(s),
           \A t \in Sockets : SocketInOrder(t) /\ SocketIsOpen(UserOf(t))
    PROVE  SocketsStay /\ \A t \in Sockets : SocketInOrder(t)'
<1>1. PICK join : join = [type |-> "join"]
  OBVIOUS
<1>2. /\ net[s] = "connecting" /\ net' = [net EXCEPT ![s] = "open"]
      /\ up' = [up EXCEPT ![s] = Append(@, join)]
      /\ UNCHANGED <<settings, store, channelOf, loading, sending, down, making, paused, listed, raced,
                     members, rooms, creating>>
  BY <1>1 DEF Connect, clientVars, serverVars, seats, media, awaits, historyVars
<1>3. /\ \A t \in Sockets : net'[t] = IF t = s THEN "open" ELSE net[t]
      /\ SocketsStay
  BY <1>2 DEF SocketsStay, TypeOK
<1>4. /\ join \in ToServer /\ join \notin SendAsked /\ join \notin Parting
      /\ \A t : join \notin Asking(t) /\ join \notin Turning(t)
  BY <1>1 DEF ToServer, SendAsked, Parting, Asking, Turning
<1>5. /\ up[s] \in Seq(ToServer) /\ up'[s] = up[s] \o <<join>>
      /\ \A t \in Sockets \ {s} : up'[t] = up[t]
  BY <1>2 DEF TypeOK
<1>6. ASSUME NEW M, join \notin M, NEW k \in Sockets
      PROVE  Lessens(up'[k], up[k], M)
  <2>1. Lessens(up[s] \o <<join>>, up[s], M)
    BY <1>4, <1>5, <1>6, AddedLess
  <2>2. Lessens(up[k], up[k], M)
    BY LessHas
  <2> QED
    BY <1>5, <2>1, <2>2
<1>7. \A t \in Sockets : DownLess(t)
  BY <1>2, DownUnchanged
<1>8. ASSUME NEW t \in Sockets
      PROVE  TurnsKept(t)
  <2>1. /\ <<join>> \in Seq(ToServer) /\ ~Has(<<join>>, Turning(s))
    BY <1>4, OneHas
  <2>2. \A muted, is \in BOOLEAN : ComesToBe(muted, is, s, up[s]) => ComesToBe(muted, is, s, up[s] \o <<join>>)
    BY <1>5, <2>1, ComesConcat
  <2> QED
    BY <1>5, <2>2 DEF TurnsKept
<1>9. ASSUME NEW t \in Sockets
      PROVE  WireKept(t) /\ HomeKept(t) /\ MadeKept(t) /\ SeatKept(t) /\ FollowKept(t)
  <2>1. \A k \in Sockets : UpMic(k, t) /\ DownMic(k, t)
    BY <1>4, <1>6, <1>7 DEF UpMic, DownMic, DownLess
  <2>2. WireKept(t)
    BY <1>2, <1>3, <1>4, <1>6 DEF WireKept
  <2>3. SameTransport(t) /\ RoomOf(t)' = RoomOf(t) /\ (IsHeard(t)' => IsHeard(t))
    BY <1>2 DEF SameTransport, RoomOf, IsHeard
  <2> QED
    BY <1>2, <1>8, <2>1, <2>2, <2>3, MicIsKept
<1>10. SetUpOnce(s)'
  <2>1. SetUpOnce(s)
    BY DEF SocketInOrder
  <2>2. /\ sending[s].mic = "none" /\ ~Has(down[s], SendMade) /\ ~Has(up[s], SendAsked) /\ s \notin loading
        /\ ~Has(down[s], Joined) /\ s \notin creating /\ ~Has(up[s], Joining)
    BY <1>2, <2>1 DEF SetUpOnce
  <2>3. Once(up'[s], Joining) /\ ~Has(up'[s], SendAsked) /\ Once(up'[s], SendAsked)
    BY <1>4, <1>5, <2>1, <2>2, AddedLess DEF SetUpOnce, Lessens
  <2> QED
    BY <1>2, <1>3, <2>1, <2>2, <2>3 DEF SetUpOnce
<1> QED
  BY <1>2, <1>3, <1>5, <1>9, <1>10, SetUpStep

\* A client that joined loads its device.
LEMMA JoinedKeepsOrder ==
    ASSUME TypeOK, NEW s \in Sockets, OnRoomJoined(s),
           \A t \in Sockets : SocketInOrder(t) /\ SocketIsOpen(UserOf(t))
    PROVE  SocketsStay /\ \A t \in Sockets : SocketInOrder(t)'
<1>1. /\ Told(s, "joined") /\ Heard(s) /\ loading' = loading \cup {s}
      /\ UNCHANGED <<settings, store, net, channelOf, sending, up, making, paused, listed, raced,
                     members, rooms, creating>>
  BY DEF OnRoomJoined, clientVars, serverVars, seats, media, awaits, historyVars
<1>2. SocketsStay
  BY <1>1 DEF SocketsStay
<1>3. /\ \A t \in Sockets : UpLess(t) /\ TurnsKept(t) /\ DownLess(t)
      /\ \A t \in Sockets : down'[t] = IF t = s THEN Tail(down[s]) ELSE down[t]
      /\ down[s] # << >>
  BY <1>1, UpUnchanged, HeardLess, TakesCalm
<1>4. ASSUME NEW t \in Sockets
      PROVE  WireKept(t) /\ HomeKept(t) /\ MadeKept(t) /\ SeatKept(t) /\ FollowKept(t)
  <2>1. \A k \in Sockets : UpMic(k, t) /\ DownMic(k, t)
    BY <1>3 DEF UpMic, DownMic, UpLess, DownLess
  <2>2. WireKept(t)
    BY <1>1, <1>3 DEF WireKept, UpLess
  <2>3. SameTransport(t) /\ RoomOf(t)' = RoomOf(t) /\ (IsHeard(t)' => IsHeard(t))
    BY <1>1 DEF SameTransport, RoomOf, IsHeard
  <2> QED
    BY <1>1, <1>3, <2>1, <2>2, <2>3, MicIsKept
<1>5. SetUpOnce(s)'
  <2>1. SetUpOnce(s)
    BY DEF SocketInOrder
  <2>2. Head(down[s]) \in Joined
    BY <1>1, TakesCalm, MessageSorts
  <2>3. Has(down[s], Joined) /\ ~Has(down'[s], Joined)
    BY <1>1, <2>1, <2>2, HeardLess DEF SetUpOnce
  <2>4. /\ sending[s].mic = "none" /\ ~Has(down[s], SendMade) /\ ~Has(up[s], SendAsked)
        /\ s \notin creating /\ ~Has(up[s], Joining) /\ net[s] \notin {"unused", "connecting"}
    BY <2>1, <2>3 DEF SetUpOnce
  <2>5. Once(down'[s], Joined) /\ ~Has(down'[s], SendMade) /\ Once(down'[s], SendMade)
    BY <1>3, <2>1, <2>4, LessHas DEF DownLess, SetUpOnce, Lessens
  <2> QED
    BY <1>1, <2>1, <2>3, <2>4, <2>5 DEF SetUpOnce
<1> QED
  BY <1>1, <1>2, <1>3, <1>4, <1>5, SetUpStep

\* A client that has loaded its device asks for its transports.
LEMMA LoadedKeepsOrder ==
    ASSUME TypeOK, NEW s \in Sockets, DeviceLoaded(s),
           \A t \in Sockets : SocketInOrder(t) /\ SocketIsOpen(UserOf(t))
    PROVE  SocketsStay /\ \A t \in Sockets : SocketInOrder(t)'
<1>1. PICK u, st : u = UserOf(s) /\ u \in Users /\ st = store[u] /\ st \in Store
  BY UserOfType DEF TypeOK
<1>2. PICK send, recv, asked : send = [type |-> "send"] /\ recv = [type |-> "recv"] /\ asked = <<send, recv>>
  OBVIOUS
<1>3. /\ s \in loading /\ loading' = loading \ {s}
      /\ up' = IF net[s] = "open" THEN [up EXCEPT ![s] = @ \o asked] ELSE up
      /\ UNCHANGED <<settings, net, channelOf, sending, down, making, paused, listed, raced,
                     members, rooms, creating>>
  BY <1>2 DEF DeviceLoaded, serverVars, seats, media, awaits, historyVars
<1>4. \A w \in Users : /\ store'[w].socket = store[w].socket /\ store'[w].send = store[w].send
                       /\ store'[w].producers = store[w].producers
  <2>1. PICK new : new = [st EXCEPT !.device = TRUE, !.channel = channelOf[s]]
    OBVIOUS
  <2>2. store' = [store EXCEPT ![u] = new]
    BY <1>1, <2>1 DEF DeviceLoaded
  <2>3. new.socket = st.socket /\ new.send = st.send /\ new.producers = st.producers
    BY <1>1, <2>1 DEF Store
  <2> QED
    BY <1>1, <2>2, <2>3 DEF TypeOK
<1>5. SocketsStay
  BY <1>3, <1>4 DEF SocketsStay
<1>6. /\ send \in ToServer /\ recv \in ToServer /\ send \notin Joining /\ recv \notin Joining
      /\ send \notin Parting /\ recv \notin Parting /\ send \in SendAsked /\ recv \notin SendAsked
      /\ \A t : send \notin Asking(t) /\ send \notin Turning(t) /\ recv \notin Asking(t) /\ recv \notin Turning(t)
  BY <1>2 DEF ToServer, Joining, SendAsked, Parting, Asking, Turning
<1>7. /\ asked \in Seq(ToServer) /\ DOMAIN asked = {1, 2} /\ asked[1] = send /\ asked[2] = recv
  BY <1>2, <1>6
<1>8. \A M : send \notin M /\ recv \notin M => ~Has(asked, M)
  BY <1>7 DEF Has
<1>9. \A t \in Sockets : up'[t] = up[t] \/ (t = s /\ up'[t] = up[t] \o asked)
  BY <1>3 DEF TypeOK
<1>10. ASSUME NEW M, send \notin M, recv \notin M, NEW k \in Sockets
       PROVE  Lessens(up'[k], up[k], M)
  <2>1. up[k] \in Seq(ToServer)
    BY DEF TypeOK
  <2>2. Lessens(up[k] \o asked, up[k], M)
    BY <1>7, <1>8, <1>10, <2>1, ConcatHas
  <2>3. Lessens(up[k], up[k], M)
    BY LessHas
  <2> QED
    BY <1>9, <2>2, <2>3
<1>11. \A t \in Sockets : DownLess(t)
  BY <1>3, DownUnchanged
<1>12. ASSUME NEW t \in Sockets
       PROVE  TurnsKept(t)
  <2>1. ~Has(asked, Turning(t)) /\ up[t] \in Seq(ToServer)
    BY <1>6, <1>8 DEF TypeOK
  <2>2. \A muted, is \in BOOLEAN : ComesToBe(muted, is, t, up[t]) => ComesToBe(muted, is, t, up[t] \o asked)
    BY <1>7, <2>1, ComesConcat
  <2> QED
    BY <1>9, <2>2 DEF TurnsKept
<1>13. ASSUME NEW t \in Sockets
       PROVE  WireKept(t) /\ HomeKept(t) /\ MadeKept(t) /\ SeatKept(t) /\ FollowKept(t)
  <2>1. \A k \in Sockets : UpMic(k, t) /\ DownMic(k, t)
    BY <1>6, <1>10, <1>11 DEF UpMic, DownMic, DownLess
  <2>2. WireKept(t)
    BY <1>3, <1>6, <1>10 DEF WireKept
  <2>3. SameTransport(t) /\ RoomOf(t)' = RoomOf(t) /\ (IsHeard(t)' => IsHeard(t)) /\ UserOf(t) \in Users
    BY <1>3, UserOfType DEF SameTransport, RoomOf, IsHeard
  <2> QED
    BY <1>3, <1>4, <1>12, <2>1, <2>2, <2>3, MicIsKept
<1>14. SetUpOnce(s)'
  <2>1. SetUpOnce(s) /\ up[s] \in Seq(ToServer)
    BY DEF SocketInOrder, TypeOK
  <2>2. /\ sending[s].mic = "none" /\ ~Has(down[s], SendMade) /\ ~Has(up[s], SendAsked)
        /\ ~Has(down[s], Joined) /\ s \notin creating /\ ~Has(up[s], Joining) /\ net[s] \notin {"unused", "connecting"}
    BY <1>3, <2>1 DEF SetUpOnce
  <2>3. Once(up'[s], Joining) /\ ~Has(up'[s], Joining)
    BY <1>6, <1>10, <2>1, <2>2, LessHas DEF SetUpOnce, Lessens
  <2>4. Once(up'[s], SendAsked)
    <3>1. Once(asked, SendAsked)
      BY <1>6, <1>7 DEF Once
    <3>2. Once(up[s] \o asked, SendAsked) /\ Once(up[s], SendAsked)
      BY <1>7, <2>1, <2>2, <3>1, ConcatHas DEF SetUpOnce
    <3> QED
      BY <1>9, <3>2
  <2> QED
    BY <1>3, <2>1, <2>2, <2>3, <2>4 DEF SetUpOnce
<1>15. \A t \in Sockets \ {s} : UNCHANGED <<up[t], down[t]>>
  BY <1>3, <1>9
<1> QED
  BY <1>3, <1>5, <1>13, <1>14, <1>15, SetUpStep

\* A client that has its send transport asks for the microphone.
LEMMA SendKeepsOrder ==
    ASSUME TypeOK, NEW s \in Sockets, OnCreateSendTransport(s), OwnSocket(UserOf(s)),
           \A t \in Sockets : SocketInOrder(t) /\ SocketIsOpen(UserOf(t))
    PROVE  SocketsStay /\ \A t \in Sockets : SocketInOrder(t)'
<1>1. PICK u, st : u = UserOf(s) /\ u \in Users /\ st = store[u] /\ st \in Store
  BY UserOfType DEF TypeOK
<1>2. PICK new, asked : /\ new = [st EXCEPT !.send = s]
                        /\ asked = [mic |-> "asked", room |-> Head(down[s]).room, share |-> FALSE,
                                    socket |-> st.socket, muted |-> settings[u].muted]
  OBVIOUS
<1>3. /\ Told(s, "send") /\ Heard(s)
      /\ \/ UNCHANGED <<sending, store>>
         \/ sending' = [sending EXCEPT ![s] = asked] /\ store' = [store EXCEPT ![u] = new]
      /\ UNCHANGED <<settings, net, channelOf, loading, up, making, paused, listed, raced, members, rooms, creating>>
  BY <1>1, <1>2 DEF OnCreateSendTransport, serverVars, seats, media, awaits, historyVars
<1>4. new.socket = st.socket /\ new.send = s /\ new.producers = st.producers
  BY <1>1, <1>2 DEF Store
<1>5. \A w \in Users : /\ store'[w].socket = store[w].socket
                       /\ store'[w].producers = store[w].producers
                       /\ w # u => store'[w].send = store[w].send
  BY <1>1, <1>3, <1>4 DEF TypeOK
<1>6. /\ \A t \in Sockets : sending'[t] = sending[t] \/ (t = s /\ sending'[t] = asked)
      /\ sending'[s] = sending[s] <=> sending' = sending
  BY <1>3 DEF TypeOK
<1>7. SocketsStay
  BY <1>3, <1>5 DEF SocketsStay
<1>8. /\ \A t \in Sockets : UpLess(t) /\ TurnsKept(t) /\ DownLess(t) /\ DownCalm(t) /\ UpCalm(t)
      /\ \A t \in Sockets : down'[t] = IF t = s THEN Tail(down[s]) ELSE down[t]
      /\ down[s] # << >>
  BY <1>3, UpUnchanged, HeardLess, TakesCalm DEF UpCalm
<1>9. CASE UNCHANGED <<sending, store>>
  <2>1. ASSUME NEW t \in Sockets
        PROVE  Kept(t)
    <3>1. SameTransport(t) /\ (IsHeard(t)' => IsHeard(t))
      BY <1>3, <1>9 DEF SameTransport, RoomOf, IsHeard
    <3> QED
      BY <1>3, <1>8, <1>9, <3>1, CalmIsKept
  <2> QED
    BY <1>7, <2>1, KeptStays
<1>10. CASE sending' = [sending EXCEPT ![s] = asked] /\ store' = [store EXCEPT ![u] = new]
  <2>1. net[s] = "open" /\ (OneSocket(u) => st.socket = s)
    BY <1>1, <1>8, ToldOnOwn DEF SocketInOrder
  <2>2. ASSUME NEW t \in Sockets
        PROVE  /\ WireKept(t) /\ \A k \in Sockets : UpMic(k, t) /\ DownMic(k, t)
               /\ RoomOf(t)' = RoomOf(t) /\ (IsHeard(t)' <=> IsHeard(t)) /\ (InStore(t)' <=> InStore(t))
    BY <1>3, <1>5, <1>8, UserOfType DEF WireKept, UpMic, DownMic, UpLess, DownLess, RoomOf, IsHeard, InStore
  <2>3. ASSUME NEW t \in Sockets, t # s
        PROVE  Kept(t)
    <3>1. sending'[t] = sending[t] /\ SameTransport(t)
      BY <1>6, <2>3 DEF SameTransport
    <3>2. SetUpKept(t)
      BY <1>3, <1>8, <3>1 DEF SetUpKept, UpLess, DownLess
    <3>3. sending[t].mic \in {"asked", "given"} /\ OneSocket(UserOf(t)) =>
             store'[UserOf(t)].send = store[UserOf(t)].send
      BY <1>1, <1>5, <2>1, <2>3, UserOfType DEF SocketInOrder, Homeward
    <3> QED
      BY <1>3, <1>5, <1>8, <2>2, <3>1, <3>2, <3>3, MicIsKept DEF Kept
  <2>4. /\ sending'[s] = asked /\ asked.mic = "asked" /\ asked.socket = st.socket /\ asked.muted = settings[u].muted
        /\ store'[u].send = s /\ store'[u].socket = st.socket
    BY <1>1, <1>2, <1>4, <1>10 DEF TypeOK
  <2>5. SetUpOnce(s) /\ Homeward(s) /\ MicInOrder(s)
    BY DEF SocketInOrder
  <2>6. Has(down[s], SendMade) /\ ~Has(down'[s], SendMade) /\ sending[s].mic = "none"
    <3>1. Head(down[s]) \in SendMade
      BY <1>3, TakesCalm, MessageSorts
    <3> QED
      BY <1>3, <2>5, <3>1, HeardLess DEF SetUpOnce
  <2>7. SetUpOnce(s)'
    <3>1. /\ ~Has(up[s], SendAsked) /\ s \notin loading /\ ~Has(down[s], Joined)
          /\ s \notin creating /\ ~Has(up[s], Joining) /\ net[s] \notin {"unused", "connecting"}
      BY <2>5, <2>6 DEF SetUpOnce
    <3>2. ~Has(down'[s], Joined) /\ Once(down'[s], Joined) /\ Once(down'[s], SendMade)
      BY <1>8, <2>5, <3>1, LessHas DEF DownLess, SetUpOnce, Lessens
    <3> QED
      BY <1>3, <2>5, <2>6, <3>1, <3>2 DEF SetUpOnce
  <2>8. \A w \in Users : OneSocket(w)' <=> OneSocket(w)
    BY <1>7, OneSocketStays
  <2>9. Homeward(s)'
    <3>1. \A k \in Sockets : Near(k, s)' <=> Near(k, s)
      BY <1>7, OneSocketStays
    <3>2. \A k \in Sockets : Has(up[k], Asking(s))' \/ Has(up[k], Turning(s))' \/ Has(down[k], Made(s))' => Near(k, s)'
      <4>1. \A k \in Sockets : Has(down'[k], Made(s)) => Has(down[k], Made(s))
        BY <2>2, LessHas DEF DownMic
      <4> QED
        BY <1>3, <2>5, <3>1, <4>1 DEF Homeward
    <3>3. (making[Mic(s)] # None => Near(making[Mic(s)].socket, s))'
      BY <1>1, <1>3, <2>5, <2>8 DEF Homeward, Near
    <3>4. st.socket # None => UserOf(st.socket) = u
      BY <1>1 DEF OwnSocket, SocketsOf, UserOf
    <3>5. \A v \in Users : Mic(s) \in store'[v].producers => v = UserOf(s) /\ (OneSocket(v)' => store'[v].socket = s)
      BY <1>5, <2>5, <2>8 DEF Homeward
    <3> QED
      BY <1>1, <2>1, <2>4, <2>8, <3>2, <3>3, <3>4, <3>5 DEF Homeward
  <2>10. ASSUME OneSocket(u)
         PROVE  (MadeOnce(s) /\ MadeAsMuted(s) /\ Seated(s) /\ FollowsMute(s))'
    <3>1. MadeOnce(s) /\ MadeAsMuted(s) /\ Seated(s) /\ FollowsMute(s)
      BY <1>1, <2>5, <2>10 DEF MicInOrder
    <3>2. /\ ~InStore(s) /\ ~Has(up[s], Turning(s)) /\ ~Has(down[s], Made(s)) /\ making[Mic(s)] = None
          /\ ~Has(up[s], Asking(s)) /\ Mic(s) \notin paused
      BY <2>6, <3>1 DEF MadeOnce, MadeAsMuted
    <3>3. ~Has(down'[s], Made(s)) /\ Once(down'[s], Made(s))
      BY <2>2, <3>1, <3>2, LessHas DEF DownMic, MadeOnce, Lessens
    <3>4. MadeOnce(s)'
      BY <1>3, <2>2, <3>1, <3>2, <3>3 DEF MadeOnce
    <3>5. MadeAsMuted(s)'
      BY <1>3, <3>2, <3>3 DEF MadeAsMuted, Has
    <3>6. Seated(s)'
      BY <1>3, <2>2, <3>2, <3>3 DEF Seated
    <3>7. FollowsMute(s)'
      BY <1>1, <1>3, <2>2, <2>4, <3>2 DEF FollowsMute
    <3> QED
      BY <3>4, <3>5, <3>6, <3>7
  <2>11. MicInOrder(s)'
    BY <1>1, <2>8, <2>10 DEF MicInOrder
  <2> QED
    BY <1>7, <2>2, <2>3, <2>7, <2>9, <2>11, OneSocketStep
<1> QED
  BY <1>3, <1>9, <1>10

\* A client that may use the microphone asks for its producer.
LEMMA AskKeepsOrder ==
    ASSUME TypeOK, NEW t \in Sockets, Produce(t),
           \A w \in Sockets : SocketInOrder(w) /\ SocketIsOpen(UserOf(w))
    PROVE  SocketsStay /\ \A w \in Sockets : SocketInOrder(w)'
<1>1. PICK k, message :
         /\ k = sending[t].socket
         /\ message = [type |-> "produce", producer |-> Mic(t), paused |-> sending[t].muted, room |-> sending[t].room]
  OBVIOUS
<1>2. /\ sending[t].mic = "asked" /\ sending' = [sending EXCEPT ![t].mic = "given"]
      /\ up' = IF k # None /\ net[k] # "closed" THEN [up EXCEPT ![k] = Append(@, message)] ELSE up
      /\ UNCHANGED <<settings, store, net, channelOf, loading, down, making, paused, listed, raced, members, rooms, creating>>
  BY <1>1 DEF Produce, Mic, clientVars, serverVars, seats, media, awaits, historyVars
<1>3. sending[t] \in Transport
  BY <1>2 DEF TypeOK, NoTransport
<1>4. k \in Room /\ message \in ToServer /\ message \in Asking(t) /\ message.paused = sending[t].muted
  <2>1. k \in Room /\ sending[t].room \in Room /\ sending[t].muted \in BOOLEAN /\ Mic(t) \in Producers
    BY <1>1, <1>3, MessageSorts DEF Transport, Room
  <2> QED
    BY <1>1, <2>1 DEF ToServer, Asking
<1>5. /\ \A w \in Sockets \ {t} : sending'[w] = sending[w]
      /\ sending'[t].mic = "given" /\ sending'[t].socket = k /\ sending'[t].muted = sending[t].muted
  BY <1>1, <1>2, <1>3 DEF TypeOK, Transport
<1>6. /\ message \notin Joining /\ message \notin SendAsked /\ message \notin Parting
      /\ \A w : message \notin Turning(w)
      /\ \A w \in Sockets \ {t} : message \notin Asking(w)
  BY <1>1, MicsDiffer DEF Joining, SendAsked, Parting, Turning, Asking
<1>7. /\ \A w \in Sockets : up'[w] = up[w] \/ (w = k /\ net[k] # "closed" /\ up'[w] = up[w] \o <<message>>)
      /\ k \in Sockets /\ net[k] # "closed" => up'[k] = up[k] \o <<message>>
  <2>1. ASSUME NEW w \in Sockets
        PROVE  Append(up[w], message) = up[w] \o <<message>>
    <3>1. up[w] \in Seq(ToServer)
      BY DEF TypeOK
    <3> QED
      BY <1>4, <3>1
  <2>2. None \notin Sockets
    BY MediaAssumption DEF Sockets
  <2> QED
    BY <1>2, <1>4, <2>1, <2>2 DEF TypeOK
<1>8. ASSUME NEW M, message \notin M, NEW w \in Sockets
      PROVE  Lessens(up'[w], up[w], M)
  <2>1. up[w] \in Seq(ToServer)
    BY DEF TypeOK
  <2>2. Lessens(up[w] \o <<message>>, up[w], M)
    BY <1>4, <1>8, <2>1, AddedLess
  <2>3. Lessens(up[w], up[w], M)
    BY LessHas
  <2> QED
    BY <1>7, <2>2, <2>3
<1>9. ASSUME NEW w \in Sockets
      PROVE  /\ WireKept(w) /\ SetUpKept(w) /\ TurnsKept(w) /\ DownLess(w)
             /\ \A j \in Sockets : DownMic(j, w)
             /\ RoomOf(w)' = RoomOf(w) /\ (IsHeard(w)' <=> IsHeard(w)) /\ (InStore(w)' <=> InStore(w))
  <2>1. DownLess(w) /\ \A j \in Sockets : DownMic(j, w)
    BY <1>2, DownUnchanged, LessHas DEF DownMic
  <2>2. ~Has(<<message>>, Turning(w)) /\ up[w] \in Seq(ToServer) /\ <<message>> \in Seq(ToServer)
    BY <1>4, <1>6, OneHas DEF TypeOK
  <2>3. \A muted, is \in BOOLEAN : ComesToBe(muted, is, w, up[w]) => ComesToBe(muted, is, w, up[w] \o <<message>>)
    BY <2>2, ComesConcat
  <2>4. TurnsKept(w)
    BY <1>7, <2>3 DEF TurnsKept
  <2>5. sending[w].mic = "none" => sending'[w].mic = "none"
    BY <1>2, <1>5
  <2> QED
    BY <1>2, <1>6, <1>8, <2>1, <2>4, <2>5 DEF WireKept, SetUpKept, DownLess, RoomOf, IsHeard, InStore
<1>10. SocketsStay
  BY <1>2 DEF SocketsStay
<1>11. ASSUME NEW w \in Sockets, w # t
       PROVE  Kept(w)
  <2>1. SameTransport(w) /\ \A j \in Sockets : UpMic(j, w)
    BY <1>5, <1>6, <1>8, <1>11 DEF SameTransport, UpMic
  <2> QED
    BY <1>2, <1>9, <2>1, MicIsKept, UserOfType DEF Kept
<1>12. SetUpOnce(t) /\ Homeward(t) /\ MicInOrder(t) /\ SocketIsOpen(UserOf(t)) /\ UserOf(t) \in Users
  BY UserOfType DEF SocketInOrder
<1>13. SetUpOnce(t)'
  BY <1>9, <1>12, SetUpStays
<1>14. /\ \A u \in Users : OneSocket(u)' <=> OneSocket(u)
       /\ \A j \in Sockets : Near(j, t)' <=> Near(j, t)
  BY <1>10, OneSocketStays
<1>15. OneSocket(UserOf(t)) => k = t /\ store[UserOf(t)].socket = t /\ store[UserOf(t)].send = t
  BY <1>1, <1>2, <1>12 DEF Homeward
<1>16. Homeward(t)'
  <2>1. k # None => Near(k, t)
    BY <1>1, <1>2, <1>12, <1>15 DEF Homeward, Near
  <2>2. \A j \in Sockets : Has(up'[j], Turning(t)) => Has(up[j], Turning(t))
    BY <1>6, <1>8, LessHas
  <2>3. \A j \in Sockets : Has(up'[j], Asking(t)) => Has(up[j], Asking(t)) \/ j = k
    BY <1>7
  <2>4. \A j \in Sockets : Has(up[j], Asking(t))' \/ Has(up[j], Turning(t))' \/ Has(down[j], Made(t))' => Near(j, t)'
    <3>1. None \notin Sockets
      BY MediaAssumption DEF Sockets
    <3> QED
      BY <1>2, <1>12, <1>14, <2>1, <2>2, <2>3, <3>1 DEF Homeward
  <2>5. (making[Mic(t)] # None => Near(making[Mic(t)].socket, t))'
    BY <1>2, <1>12, <1>14 DEF Homeward, Near
  <2> QED
    BY <1>1, <1>2, <1>5, <1>12, <1>14, <1>15, <2>4, <2>5 DEF Homeward
<1>17. ASSUME OneSocket(UserOf(t))
       PROVE  (MadeOnce(t) /\ MadeAsMuted(t) /\ Seated(t) /\ FollowsMute(t))'
  <2>1. MadeOnce(t) /\ MadeAsMuted(t) /\ Seated(t) /\ FollowsMute(t)
    BY <1>12, <1>17 DEF MicInOrder
  <2>2. /\ ~InStore(t) /\ ~Has(up[t], Turning(t)) /\ ~Has(down[t], Made(t)) /\ making[Mic(t)] = None
        /\ ~Has(up[t], Asking(t)) /\ Mic(t) \notin paused
    BY <1>2, <2>1 DEF MadeOnce, MadeAsMuted
  <2>3. k = t /\ net[t] # "closed" /\ up[t] \in Seq(ToServer) /\ up'[t] = up[t] \o <<message>>
    <3>1. t # None
      BY MediaAssumption DEF Sockets
    <3> QED
      BY <1>7, <1>12, <1>15, <1>17, <3>1 DEF SocketIsOpen, TypeOK
  <2>4. Once(up'[t], Asking(t)) /\ ~Has(up'[t], Turning(t))
    BY <1>4, <1>6, <2>2, <2>3, AddedLess
  <2>5. \A i \in DOMAIN up'[t] : up'[t][i] \in Asking(t) => up'[t][i] = message
    <3>1. Has(up'[t], {message})
      BY <1>4, <2>3, AddedLess
    <3>2. PICK j \in DOMAIN up'[t] : up'[t][j] = message
      BY <3>1 DEF Has
    <3> QED
      BY <1>4, <2>4, <3>2 DEF Once
  <2>6. MadeOnce(t)'
    BY <1>2, <1>5, <1>9, <2>1, <2>2, <2>4 DEF MadeOnce
  <2>7. MadeAsMuted(t)'
    BY <1>2, <1>4, <1>5, <2>2, <2>5 DEF MadeAsMuted
  <2>8. Seated(t)'
    BY <1>2, <1>9, <2>2 DEF Seated
  <2>9. FollowsMute(t)'
    BY <1>2, <1>5, <1>9, <2>1, <2>2 DEF FollowsMute, IsBeingMade, InStore, Mic
  <2> QED
    BY <2>6, <2>7, <2>8, <2>9
<1>18. MicInOrder(t)'
  BY <1>12, <1>14, <1>17 DEF MicInOrder
<1> QED
  BY <1>9, <1>10, <1>11, <1>13, <1>16, <1>18, OneSocketStep

\* A microphone that was made is in the store of its user, unless its transport was closed.
LEMMA ProducedKeepsOrder ==
    ASSUME TypeOK, NEW s \in Sockets, OnProduced(s),
           \A t \in Sockets : SocketInOrder(t) /\ SocketIsOpen(UserOf(t))
    PROVE  SocketsStay /\ \A t \in Sockets : SocketInOrder(t)'
<1>1. PICK u, st, p : u = UserOf(s) /\ u \in Users /\ st = store[u] /\ st \in Store /\ p = Head(down[s]).producer
  BY UserOfType DEF TypeOK
<1>2. PICK new : new = [st EXCEPT !.producers = @ \cup {p}]
  OBVIOUS
<1>3. /\ Told(s, "produced") /\ Heard(s)
      /\ store' = IF sending[p[1]].mic = "closed" THEN store ELSE [store EXCEPT ![u] = new]
      /\ UNCHANGED <<settings, net, channelOf, loading, sending, up, making, paused, listed, raced,
                     members, rooms, creating>>
  BY <1>1, <1>2 DEF OnProduced, TransportOf, serverVars, seats, media, awaits, historyVars
<1>4. new.socket = st.socket /\ new.send = st.send /\ new.producers = st.producers \cup {p}
  BY <1>1, <1>2 DEF Store
<1>5. /\ \A t \in Sockets : UpLess(t) /\ TurnsKept(t) /\ DownLess(t) /\ UpCalm(t) /\ DownCalm(t)
      /\ \A t \in Sockets : down'[t] = IF t = s THEN Tail(down[s]) ELSE down[t]
      /\ down[s] # << >> /\ Head(down[s]) \in ToClient /\ Head(down[s]).type = "produced" /\ p \in Producers
  BY <1>1, <1>3, UpUnchanged, HeardLess, TakesCalm DEF UpCalm, ToClient
<1>6. \A t \in Sockets : SameTransport(t)
  BY <1>3 DEF SameTransport
<1>7. CASE UNCHANGED store \/ ~IsAudio(p)
  <2>1. store' \in {store, [store EXCEPT ![u] = new]}
    BY <1>3
  <2>2. PICK n : /\ n \in {new, st} /\ store' \in {store, [store EXCEPT ![u] = n]}
                 /\ \A q \in Producers : IsAudio(q) => (q \in n.producers <=> q \in st.producers)
    <3>1. CASE UNCHANGED store
      BY <1>1, <3>1
    <3>2. CASE ~IsAudio(p)
      <4>1. \A q \in Producers : IsAudio(q) => (q \in new.producers <=> q \in st.producers)
        BY <1>4, <3>2
      <4> QED
        BY <2>1, <4>1
    <3> QED
      BY <1>7, <3>1, <3>2
  <2>3. n.socket = st.socket /\ n.send = st.send
    BY <1>4, <2>2
  <2>4. SocketsStay /\ \A t \in Sockets : Kept(t)
    BY <1>1, <1>3, <1>5, <1>6, <2>2, <2>3, CalmStep
  <2> QED
    BY <2>4, KeptStays
<1>8. ASSUME NEW t \in Sockets, p = Mic(t), store' = [store EXCEPT ![u] = new], sending[t].mic # "closed"
      PROVE  SocketsStay /\ \A k \in Sockets : SocketInOrder(k)'
  <2>1. \A w \in Users : /\ store'[w].socket = store[w].socket /\ store'[w].send = store[w].send
                         /\ store'[w].producers = IF w = u THEN store[u].producers \cup {p} ELSE store[w].producers
    BY <1>1, <1>4, <1>8 DEF TypeOK
  <2>2. SocketsStay
    BY <1>3, <2>1 DEF SocketsStay
  <2>3. ASSUME NEW k \in Sockets
        PROVE  /\ WireKept(k) /\ SetUpKept(k) /\ \A j \in Sockets : UpMic(j, k) /\ DownMic(j, k)
               /\ RoomOf(k)' = RoomOf(k) /\ (IsHeard(k)' <=> IsHeard(k))
    BY <1>3, <1>5, <1>6 DEF WireKept, SetUpKept, UpMic, DownMic, UpLess, DownLess, RoomOf, IsHeard, SameTransport
  <2>4. ASSUME NEW k \in Sockets, k # t
        PROVE  Kept(k)
    <3>1. \A w \in Users : Mic(k) \in store'[w].producers <=> Mic(k) \in store[w].producers
      BY <1>8, <2>1, <2>4, MicsDiffer
    <3> QED
      BY <1>3, <1>5, <1>6, <2>1, <2>3, <3>1, MicIsKept, UserOfType DEF Kept
  <2>5. /\ SetUpOnce(t) /\ Homeward(t) /\ MicInOrder(t) /\ SocketIsOpen(UserOf(t))
        /\ Has(down[s], Made(t)) /\ Near(s, t) /\ UserOf(t) = u
    <3>1. Head(down[s]) \in Made(t)
      BY <1>1, <1>5, <1>8, MessageSorts
    <3>2. Has(down[s], Made(t))
      BY <1>3, <3>1, HeardLess
    <3> QED
      BY <1>1, <3>2 DEF SocketInOrder, Homeward, Near
  <2>6. /\ \A w \in Users : OneSocket(w)' <=> OneSocket(w)
        /\ \A k \in Sockets : Near(k, t)' <=> Near(k, t)
    BY <2>2, OneSocketStays
  <2>7. Homeward(t)'
    <3>1. \A k \in Sockets : Has(up[k], Asking(t))' \/ Has(up[k], Turning(t))' \/ Has(down[k], Made(t))' => Near(k, t)'
      <4>1. \A k \in Sockets : Has(down'[k], Made(t)) => Has(down[k], Made(t))
        BY <2>3, LessHas DEF DownMic
      <4> QED
        BY <1>3, <2>5, <2>6, <4>1 DEF Homeward
    <3>2. (making[Mic(t)] # None => Near(making[Mic(t)].socket, t))'
      BY <1>1, <1>3, <2>5, <2>6 DEF Homeward, Near
    <3>3. OneSocket(u) => store[u].socket = t
      <4>1. OneSocket(u) => store[u].socket = s /\ s = t
        BY <1>1, <1>5, <2>5, ToldOnOwn DEF SocketInOrder, Near
      <4> QED
        BY <4>1
    <3>4. \A v \in Users : Mic(t) \in store'[v].producers => v = UserOf(t) /\ (OneSocket(v)' => store'[v].socket = t)
      BY <1>1, <2>1, <2>5, <2>6, <3>3 DEF Homeward
    <3> QED
      BY <1>1, <1>3, <2>1, <2>5, <2>6, <3>1, <3>2, <3>4 DEF Homeward
  <2>8. ASSUME OneSocket(u)
        PROVE  (MadeOnce(t) /\ MadeAsMuted(t) /\ Seated(t) /\ FollowsMute(t))'
    <3>1. s = t /\ MadeOnce(t) /\ MadeAsMuted(t) /\ Seated(t) /\ FollowsMute(t)
      BY <2>5, <2>8, NearIsOwn
    <3>2. /\ sending[t].mic = "given" /\ ~InStore(t) /\ ~Has(up[t], Turning(t)) /\ making[Mic(t)] = None
          /\ ~Has(up[t], Asking(t)) /\ (Mic(t) \in paused <=> sending[t].muted)
      BY <1>8, <2>5, <3>1 DEF MadeOnce, MadeAsMuted
    <3>3. ~Has(down'[t], Made(t)) /\ Once(down'[t], Made(t))
      <4>1. Head(down[s]) \in Made(t)
        BY <1>1, <1>5, <1>8, MessageSorts
      <4>2. ~Has(down'[t], Made(t))
        BY <1>3, <3>1, <4>1, HeardLess DEF MadeOnce
      <4> QED
        BY <4>2 DEF Has, Once
    <3>4. InStore(t)'
      BY <1>1, <1>8, <2>1, <2>5 DEF InStore
    <3>5. MadeOnce(t)'
      BY <1>3, <3>1, <3>2, <3>3 DEF MadeOnce
    <3>6. MadeAsMuted(t)'
      BY <1>3, <3>2, <3>3 DEF MadeAsMuted, Has
    <3>7. Seated(t)'
      BY <1>3, <2>3, <2>5, <3>1 DEF Seated
    <3>8. ~IsBeingMade(t)' /\ IsBeingMade(t)
      BY <3>2, <3>4 DEF IsBeingMade, InStore, Mic
    <3>9. UserOf(t) \notin raced => (Mic(t) \in paused <=> settings[UserOf(t)].muted)
      BY <3>1, <3>2, <3>8 DEF FollowsMute
    <3>10. UserOf(t) \notin raced => ComesToBe(settings[UserOf(t)].muted, Mic(t) \in paused, t, up[t])
      <4>1. settings[UserOf(t)].muted \in BOOLEAN
        BY <1>1, <2>5 DEF TypeOK
      <4>2. UserOf(t) \notin raced => (Mic(t) \in paused) = settings[UserOf(t)].muted
        BY <3>9, <4>1
      <4> QED
        BY <3>2, <4>2 DEF ComesToBe
    <3>11. FollowsMute(t)'
      BY <1>3, <3>8, <3>10 DEF FollowsMute, ComesToBe
    <3> QED
      BY <3>5, <3>6, <3>7, <3>11
  <2>9. MicInOrder(t)'
    BY <1>1, <2>5, <2>6, <2>8 DEF MicInOrder
  <2>10. SetUpOnce(t)'
    BY <2>3, <2>5, SetUpStays
  <2> QED
    BY <2>2, <2>3, <2>4, <2>7, <2>9, <2>10, OneSocketStep
<1>9. ASSUME IsAudio(p), store' # store
      PROVE  \E t \in Sockets : p = Mic(t) /\ sending[t].mic # "closed"
  <2>1. p[1] \in Sockets /\ p = Mic(p[1])
    BY <1>5, <1>9 DEF Producers, IsAudio, Mic
  <2> QED
    BY <1>3, <1>9, <2>1
<1> QED
  BY <1>3, <1>7, <1>8, <1>9

\* The items of a finite set in some order are all of them.
LEMMA SetToSeqCovers ==
    ASSUME NEW S, IsFiniteSet(S), NEW x \in S
    PROVE  \E i \in DOMAIN SetToSeq(S) : SetToSeq(S)[i] = x
<1>1. Cardinality(S) \in Nat /\ ExistsBijection(1..Cardinality(S), S)
  BY FS_CardinalityType
<1>2. \E f \in [1..Cardinality(S) -> S] : IsInjective(f)
  BY <1>1 DEF ExistsBijection, Bijection, Injection
<1>3. SetToSeq(S) \in Injection(1..Cardinality(S), S)
  BY <1>2 DEF SetToSeq, Injection
<1>4. PICK n \in Nat : n = Cardinality(S)
  BY <1>1
<1>5. IsFiniteSet(1..n) /\ Cardinality(1..n) = n
  BY <1>4, FS_Interval
<1>6. SetToSeq(S) \in Surjection(1..n, S)
  BY <1>3, <1>4, <1>5, FS_Injection
<1> QED
  BY <1>6 DEF Surjection

\* The queue turns the microphones of u on or off, and is about no other.
TurnsMics(u, muted, queue) ==
    /\ queue \in Seq(ToServer)
    /\ ~Has(queue, Joining) /\ ~Has(queue, SendAsked) /\ ~Has(queue, Parting)
    /\ \A t \in Sockets :
          /\ ~Has(queue, Asking(t))
          /\ Has(queue, Turning(t)) => Mic(t) \in store[u].producers
          /\ \A i \in DOMAIN queue : queue[i] \in Turning(t) => queue[i] = Turn(muted, t)
          /\ Mic(t) \in store[u].producers => Has(queue, {Turn(muted, t)})

\* What a client says when its user mutes or unmutes, of its microphones and of no other.
LEMMA TurnsAre ==
    ASSUME TypeOK, NEW u \in Users, NEW muted \in BOOLEAN, NEW rest, NEW turns,
           rest \in Seq(CalmUp), turns = FollowsMuted(u, muted) \o rest
    PROVE  TurnsMics(u, muted, turns)
<1>1. PICK type, mics, M : /\ type = (IF muted THEN "pause" ELSE "resume") /\ mics = Microphones(u)
                           /\ M = {[type |-> type, producer |-> p] : p \in mics}
  OBVIOUS
<1>2. /\ mics \in SUBSET Producers /\ mics \subseteq store[u].producers
      /\ \A t \in Sockets : Mic(t) \in store[u].producers => Mic(t) \in mics
  <2>1. store[u] \in Store
    BY DEF TypeOK
  <2> QED
    BY <1>1, <2>1, MessageSorts DEF Microphones, Store
<1>3. IsFiniteSet(M)
  <2>1. PICK message : message = [p \in mics |-> [type |-> type, producer |-> p]]
    OBVIOUS
  <2>2. message \in Surjection(mics, M)
    BY <1>1, <2>1 DEF Surjection
  <2> QED
    BY <1>2, <2>2, ProducersAreFinite, FS_Surjection
<1>4. PICK heads : heads = SetToSeq(M) /\ heads \in Seq(M) /\ \A x \in M : \E i \in DOMAIN heads : heads[i] = x
  BY <1>3, SetToSeqType, SetToSeqCovers
<1>5. turns = heads \o rest
  BY <1>1, <1>4 DEF FollowsMuted, Requests
<1>6. PICK Said : Said = M \cup CalmUp
  OBVIOUS
<1>7. heads \in Seq(Said) /\ rest \in Seq(Said)
  BY <1>4, <1>6
<1>8. turns \in Seq(Said) /\ \A i \in DOMAIN turns : turns[i] \in Said
  BY <1>5, <1>7
<1>9. \A m \in Said : /\ m \in ToServer /\ m \notin Joining /\ m \notin SendAsked /\ m \notin Parting
                      /\ \A t \in Sockets : /\ m \notin Asking(t)
                                            /\ m \in Turning(t) => m = Turn(muted, t) /\ Mic(t) \in mics
  <2>1. \A m \in M : /\ m \in ToServer /\ m \notin Joining /\ m \notin SendAsked /\ m \notin Parting
                    /\ \A t \in Sockets : /\ m \notin Asking(t)
                                          /\ m \in Turning(t) => m = Turn(muted, t) /\ Mic(t) \in mics
    BY <1>1, <1>2 DEF ToServer, Joining, SendAsked, Parting, Asking, Turning, Turn
  <2>2. \A m \in CalmUp : m \in ToServer /\ m \notin Joining /\ m \notin SendAsked /\ m \notin Parting
    BY DEF CalmUp, Joining, SendAsked, Parting
  <2> QED
    BY <1>6, <2>1, <2>2, CalmHas
<1>10. turns \in Seq(ToServer)
  BY <1>8, <1>9
<1>11. ASSUME NEW t \in Sockets, Mic(t) \in store[u].producers
       PROVE  Has(turns, {Turn(muted, t)})
  <2>1. Turn(muted, t) \in M
    BY <1>1, <1>2, <1>11 DEF Turn
  <2>2. Has(heads, {Turn(muted, t)})
    BY <1>4, <2>1 DEF Has
  <2> QED
    BY <1>5, <1>7, <2>2, ConcatHas
<1> QED
  BY <1>2, <1>8, <1>9, <1>10, <1>11 DEF Has, TurnsMics

\* A user who mutes or unmutes turns on or off the microphone that the client has in its store.
LEMMA MuteKeepsOrder ==
    ASSUME TypeOK, NEW u \in Users, SetMuted(u), OwnSocket(u),
           \A t \in Sockets : SocketInOrder(t) /\ SocketIsOpen(UserOf(t))
    PROVE  SocketsStay /\ \A t \in Sockets : SocketInOrder(t)'
<1>1. PICK st : st = store[u] /\ st \in Store
  BY DEF TypeOK
<1>2. PICK muted \in BOOLEAN : muted = ~settings[u].muted
  OBVIOUS
<1>3. PICK rest : rest = IF Undeafens(u) THEN <<[type |-> "resumeConsumers"]>> ELSE << >>
  OBVIOUS
<1>4. PICK turns : turns = FollowsMuted(u, muted) \o rest
  OBVIOUS
<1>5. /\ settings' = [settings EXCEPT ![u] = [muted |-> muted, deafened |-> muted /\ @.deafened]]
      /\ up' = Sent(u, turns) /\ raced' = Raced(u)
      /\ UNCHANGED <<net, channelOf, loading, sending, down, making, paused, listed, members, rooms, creating>>
  BY <1>2, <1>3, <1>4 DEF SetMuted, serverVars, seats, media, awaits
<1>6. \A w \in Users : /\ store'[w].socket = store[w].socket /\ store'[w].send = store[w].send
                       /\ store'[w].producers = store[w].producers
  <2>1. PICK silent, new : silent = (IF Undeafens(u) THEN {} ELSE st.silenced) /\ new = [st EXCEPT !.silenced = silent]
    OBVIOUS
  <2>2. store' = [store EXCEPT ![u] = new]
    BY <1>1, <2>1 DEF SetMuted
  <2>3. new.socket = st.socket /\ new.send = st.send /\ new.producers = st.producers
    BY <1>1, <2>1 DEF Store
  <2> QED
    BY <1>1, <2>2, <2>3 DEF TypeOK
<1>7. /\ turns \in Seq(ToServer)
      /\ ~Has(turns, Joining) /\ ~Has(turns, SendAsked) /\ ~Has(turns, Parting)
      /\ \A t \in Sockets :
            /\ ~Has(turns, Asking(t))
            /\ Has(turns, Turning(t)) => Mic(t) \in store[u].producers
            /\ \A i \in DOMAIN turns : turns[i] \in Turning(t) => turns[i] = Turn(muted, t)
            /\ Mic(t) \in store[u].producers => Has(turns, {Turn(muted, t)})
  <2>1. PICK m : m = [type |-> "resumeConsumers"]
    OBVIOUS
  <2>2. m \in CalmUp
    <3>1. m \in ToServer /\ m.type = "resumeConsumers"
      BY <2>1 DEF ToServer
    <3> QED
      BY <3>1 DEF CalmUp
  <2>3. <<m>> \in Seq(CalmUp) /\ << >> \in Seq(CalmUp)
    BY <2>2, EmptySeq
  <2>4. rest \in Seq(CalmUp)
    BY <1>3, <2>1, <2>3
  <2>5. TurnsMics(u, muted, turns)
    BY <1>2, <1>4, <2>4, TurnsAre
  <2> QED
    BY <2>5 DEF TurnsMics
<1>8. \A k \in Sockets : up'[k] = IF k = store[u].socket /\ net[k] # "closed" THEN up[k] \o turns ELSE up[k]
  BY <1>5 DEF Sent
<1>9. SocketsStay
  BY <1>5, <1>6 DEF SocketsStay
<1>10. /\ \A w \in Users \ {u} : settings'[w] = settings[w] /\ (w \in raced <=> w \in raced')
       /\ settings'[u].muted = muted
       /\ u \notin raced' => \A t \in Sockets : UserOf(t) = u => ~IsBeingMade(t)
  <2>1. \A t \in Sockets : UserOf(t) = u => t \in SocketsOf(u)
    BY DEF SocketsOf, UserOf, Sockets
  <2> QED
    BY <1>5, <2>1 DEF TypeOK, Raced
<1>11. ASSUME NEW M, ~Has(turns, M), NEW k \in Sockets
       PROVE  Lessens(up'[k], up[k], M)
  <2>1. up[k] \in Seq(ToServer)
    BY DEF TypeOK
  <2>2. Lessens(up[k] \o turns, up[k], M)
    BY <1>7, <1>11, <2>1, ConcatHas
  <2>3. Lessens(up[k], up[k], M)
    BY LessHas
  <2> QED
    BY <1>8, <2>2, <2>3
<1>12. ASSUME NEW t \in Sockets
       PROVE  /\ WireKept(t) /\ SetUpKept(t) /\ SameTransport(t)
              /\ \A k \in Sockets : DownMic(k, t) /\ Lessens(up'[k], up[k], Asking(t))
              /\ RoomOf(t)' = RoomOf(t) /\ (IsHeard(t)' <=> IsHeard(t)) /\ (InStore(t)' <=> InStore(t))
              /\ (IsBeingMade(t)' <=> IsBeingMade(t))
  <2>1. \A k \in Sockets : DownMic(k, t) /\ Lessens(up'[k], up[k], Asking(t))
    BY <1>5, <1>7, <1>11, LessHas DEF DownMic
  <2>2. SameTransport(t) /\ DownLess(t)
    BY <1>5, DownUnchanged DEF SameTransport
  <2>3. UserOf(t) \in Users
    BY UserOfType
  <2> QED
    BY <1>5, <1>6, <1>7, <1>11, <2>1, <2>2, <2>3
       DEF WireKept, SetUpKept, DownLess, RoomOf, IsHeard, InStore, IsBeingMade, SameTransport, Mic
<1>13. ASSUME NEW t \in Sockets, UserOf(t) # u
       PROVE  Kept(t)
  <2>1. UserOf(t) \in Users /\ Homeward(t)
    BY UserOfType DEF SocketInOrder
  <2>2. ~Has(turns, Turning(t))
    BY <1>7, <1>13, <2>1 DEF Homeward
  <2>3. \A k \in Sockets : UpMic(k, t)
    BY <1>11, <1>12, <2>2 DEF UpMic
  <2>4. TurnsKept(t)
    <3>1. up[t] \in Seq(ToServer)
      BY DEF TypeOK
    <3>2. turns \in Seq(ToServer)
      BY <1>7
    <3>3. \A m, is \in BOOLEAN : ComesToBe(m, is, t, up[t]) => ComesToBe(m, is, t, up[t] \o turns)
      BY <2>2, <3>1, <3>2, ComesConcat
    <3> QED
      BY <1>8, <3>3 DEF TurnsKept
  <2>5. HomeKept(t)
    BY <1>5, <1>6, <1>12, <2>1, <2>3 DEF HomeKept
  <2>6. MadeKept(t) /\ SeatKept(t)
    BY <1>5, <1>12, <2>3 DEF MadeKept, SeatKept
  <2>7. FollowKept(t)
    BY <1>5, <1>10, <1>12, <1>13, <2>1, <2>4 DEF FollowKept
  <2> QED
    BY <1>12, <2>5, <2>6, <2>7 DEF Kept
<1>14. ASSUME NEW t \in Sockets, UserOf(t) = u
       PROVE  SocketInOrder(t)'
  <2>1. /\ Homeward(t) /\ MicInOrder(t) /\ SocketIsOpen(u) /\ SocketInOrder(t)
        /\ \A w \in Users : OneSocket(w)' <=> OneSocket(w)
        /\ \A k \in Sockets : Near(k, t)' <=> Near(k, t)
    BY <1>9, <1>14, OneSocketStays DEF SocketInOrder
  <2>2. \A k \in Sockets : Has(up'[k], Turning(t)) => Has(up[k], Turning(t)) \/ (k = st.socket /\ InStore(t))
    <3>1. ASSUME NEW k \in Sockets
          PROVE  Has(up[k] \o turns, Turning(t)) => Has(up[k], Turning(t)) \/ Mic(t) \in store[u].producers
      <4>1. up[k] \in Seq(ToServer)
        BY DEF TypeOK
      <4> QED
        BY <1>7, <4>1, ConcatHas
    <3> QED
      BY <1>1, <1>8, <1>14, <3>1 DEF InStore
  <2>3. \A k \in Sockets : k = st.socket /\ InStore(t) => Near(k, t)
    <3>1. \A k \in Sockets : k = st.socket => UserOf(k) = u
      BY <1>1, MediaAssumption DEF OwnSocket, SocketsOf, UserOf, Sockets
    <3>2. InStore(t) /\ OneSocket(u) => st.socket = t
      BY <1>1, <1>14, <2>1 DEF Homeward, InStore
    <3> QED
      BY <1>14, <3>1, <3>2 DEF Near
  <2>4. Homeward(t)'
    <3>1. \A k \in Sockets : Has(up[k], Asking(t))' \/ Has(up[k], Turning(t))' \/ Has(down[k], Made(t))' => Near(k, t)'
      <4>1. \A k \in Sockets : /\ Has(up'[k], Asking(t)) => Has(up[k], Asking(t))
                               /\ Has(down'[k], Made(t)) => Has(down[k], Made(t))
        BY <1>12, LessHas DEF DownMic
      <4> QED
        BY <2>1, <2>2, <2>3, <4>1 DEF Homeward
    <3>2. (making[Mic(t)] # None => Near(making[Mic(t)].socket, t))'
      BY <1>5, <1>14, <2>1 DEF Homeward, Near
    <3> QED
      BY <1>5, <1>6, <1>14, <2>1, <3>1, <3>2 DEF Homeward
  <2>5. ASSUME OneSocket(u)
        PROVE  (MadeOnce(t) /\ MadeAsMuted(t) /\ Seated(t) /\ FollowsMute(t))'
    <3>1. MadeOnce(t) /\ MadeAsMuted(t) /\ Seated(t) /\ FollowsMute(t)
      BY <1>14, <2>1, <2>5 DEF MicInOrder
    <3>2. /\ Once(up'[t], Asking(t)) /\ (Has(up'[t], Asking(t)) => Has(up[t], Asking(t)))
          /\ \A i \in DOMAIN up'[t] : up'[t][i] \in Asking(t) => \E j \in DOMAIN up[t] : up[t][j] = up'[t][i]
      BY <1>12, <3>1, LessHas DEF MadeOnce, Lessens
    <3>3. Has(up'[t], Turning(t)) => Has(up[t], Turning(t)) \/ InStore(t)
      BY <2>2
    <3>4. MadeOnce(t)'
      BY <1>5, <1>12, <3>1, <3>2, <3>3 DEF MadeOnce
    <3>5. MadeAsMuted(t)'
      BY <1>5, <3>1, <3>2 DEF MadeAsMuted
    <3>6. Seated(t)'
      BY <1>5, <1>12, <3>1 DEF Seated
    <3>7. InStore(t) => ComesToBe(muted, Mic(t) \in paused, t, up'[t])
      <4>1. ASSUME InStore(t)
            PROVE  up'[t] = up[t] \o turns
        <5>1. net[t] # "closed" /\ store[u].socket = t
          BY <1>14, <2>1, <2>5, <4>1, NotClosed
        <5> QED
          BY <1>8, <5>1
      <4>2. up[t] \in Seq(ToServer)
        BY DEF TypeOK
      <4>3. InStore(t) => \A is \in BOOLEAN : ComesToBe(muted, is, t, up[t] \o turns)
        <5>1. turns \in Seq(ToServer)
          BY <1>7
        <5>2. InStore(t) => Has(turns, {Turn(muted, t)})
          BY <1>7, <1>14 DEF InStore
        <5>3. \A i \in DOMAIN turns : turns[i] \in Turning(t) => turns[i] = Turn(muted, t)
          BY <1>7
        <5> QED
          BY <4>2, <5>1, <5>2, <5>3, ComesConcat
      <4>4. (Mic(t) \in paused) \in BOOLEAN
        OBVIOUS
      <4> QED
        BY <4>1, <4>3, <4>4
    <3>8. FollowsMute(t)'
      BY <1>5, <1>10, <1>12, <1>14, <3>7 DEF FollowsMute, ComesToBe
    <3> QED
      BY <3>4, <3>5, <3>6, <3>8
  <2>6. MicInOrder(t)'
    BY <1>14, <2>1, <2>5 DEF MicInOrder
  <2> QED
    BY <1>9, <1>12, <1>14, <2>1, <2>4, <2>6, KeptStays DEF SocketInOrder
<1>15. \A t \in Sockets : SocketInOrder(t)'
  BY <1>9, <1>13, <1>14, KeptStays
<1> QED
  BY <1>9, <1>15

\* A client that takes its leave says nothing of a microphone.
LEMMA FarewellCalm ==
    ASSUME TypeOK, NEW u \in Users
    PROVE  /\ Farewell(u) \in Seq(CalmUp \cup Parting) /\ Farewell(u) \in Seq(ToServer)
           /\ ~Has(Farewell(u), Joining) /\ ~Has(Farewell(u), SendAsked)
           /\ \A t \in Sockets : ~Has(Farewell(u), Asking(t)) /\ ~Has(Farewell(u), Turning(t))
<1>1. PICK close, bye : close = [type |-> "close"] /\ bye = [type |-> "bye"]
  OBVIOUS
<1>2. PICK Said : Said = CalmUp \cup Parting
  OBVIOUS
<1>3. close \in Said /\ bye \in Said
  BY <1>1, <1>2 DEF Parting
<1>4. PICK screens : screens = IF ScreenOf(u) = {} THEN << >>
                               ELSE Requests("closeProducer", {CHOOSE p \in ScreenOf(u) : TRUE})
  OBVIOUS
<1>5. screens \in Seq(CalmUp)
  <2>1. store[u] \in Store
    BY DEF TypeOK
  <2>2. ScreenOf(u) \in SUBSET Producers
    BY <2>1 DEF ScreenOf, Store
  <2>3. CASE ScreenOf(u) = {}
    BY <1>4, <2>3, EmptySeq
  <2>4. CASE ScreenOf(u) # {}
    <3>1. {CHOOSE p \in ScreenOf(u) : TRUE} \in SUBSET Producers
      BY <2>2, <2>4
    <3>2. Requests("closeProducer", {CHOOSE p \in ScreenOf(u) : TRUE}) \in Seq(CalmUp)
      BY <3>1, CalmRequests
    <3> QED
      BY <1>4, <2>4, <3>2
  <2> QED
    BY <2>3, <2>4
<1>6. screens \in Seq(Said) /\ <<close>> \in Seq(Said) /\ <<bye>> \in Seq(Said)
  BY <1>2, <1>3, <1>5
<1>7. (<<close>> \o screens) \o <<bye>> \in Seq(Said)
  BY <1>6
<1>8. Farewell(u) = (<<close>> \o screens) \o <<bye>>
  BY <1>1, <1>4 DEF Farewell
<1>9. PICK f \in Seq(Said) : f = Farewell(u)
  BY <1>7, <1>8
<1>10. \A i \in DOMAIN f : f[i] \in Said
  BY <1>9
<1>11. \A m \in Said : /\ m \notin Joining /\ m \notin SendAsked
                       /\ \A t \in Sockets : m \notin Asking(t) /\ m \notin Turning(t)
  <2>1. \A m \in Parting : /\ m \notin Joining /\ m \notin SendAsked
                           /\ \A t \in Sockets : m \notin Asking(t) /\ m \notin Turning(t)
    BY DEF Parting, Joining, SendAsked, Asking, Turning
  <2>2. \A m \in CalmUp : m \notin Joining /\ m \notin SendAsked
    BY DEF CalmUp, Joining, SendAsked
  <2>3. \A t \in Sockets : \A m \in CalmUp : m \notin Asking(t) /\ m \notin Turning(t)
    BY CalmHas
  <2> QED
    BY <1>2, <2>1, <2>2, <2>3
<1>12. /\ ~Has(f, Joining) /\ ~Has(f, SendAsked)
       /\ \A t \in Sockets : ~Has(f, Asking(t)) /\ ~Has(f, Turning(t))
  BY <1>10, <1>11 DEF Has
<1> QED
  BY <1>2, <1>9, <1>12, FarewellType

\* How the client of u swaps its socket: it keeps what it has unless it closes, and has the
\* socket that it opens, if it opens one.
Swaps(u, closes, new) ==
    /\ SwapSocket(u, closes, new)
    /\ \A s \in new : net[s] = "unused"
    /\ store'[u].producers = IF closes THEN {} ELSE store[u].producers
    /\ store'[u].send = IF closes THEN None ELSE store[u].send
    /\ new # {} => new = {store'[u].socket}
    /\ new = {} => store'[u].socket = IF closes THEN None ELSE store[u].socket
    /\ \A w \in Users \ {u} : store'[w] = store[w]
    /\ \A t \in Sockets \ new : channelOf'[t] = channelOf[t]
    /\ UNCHANGED <<settings, loading, creating, rooms, members, listed, making, paused, raced>>

LEMMA SwapIs ==
    ASSUME TypeOK, SocketsInUse, NEW u \in Users, NEW closes \in BOOLEAN, NEW new \in SUBSET SocketsOf(u),
           Swaps(u, closes, new), NEW t \in Sockets
    PROVE  /\ net'[t] = IF closes /\ t = store[u].socket THEN "closed" ELSE IF t \in new THEN "connecting" ELSE net[t]
           /\ t \in new => t # store[u].socket /\ net[t] = "unused"
           /\ ~(closes /\ t = store[u].socket) => up'[t] = up[t] /\ down'[t] = down[t]
           /\ closes /\ t = store[u].socket => down'[t] = << >>
           /\ \A k \in Sockets : UpMic(t, k) /\ DownMic(t, k)
           /\ Lessens(up'[t], up[t], Joining) /\ Lessens(up'[t], up[t], SendAsked)
           /\ Lessens(down'[t], down[t], Joined) /\ Lessens(down'[t], down[t], SendMade)
           /\ ~(closes /\ t = store[u].send) => sending'[t] = sending[t]
           /\ closes /\ t = store[u].send => sending[t].mic # "none" /\ sending'[t].mic = "closed"
           /\ sending'[t].socket = sending[t].socket /\ sending'[t].muted = sending[t].muted
<1>1. PICK k, st : k = store[u].socket /\ st = store[u] /\ st \in Store
  BY DEF TypeOK
<1>2. /\ net'[t] = IF closes /\ t = k THEN "closed" ELSE IF t \in new THEN "connecting" ELSE net[t]
      /\ ~(closes /\ t = k) => up'[t] = up[t] /\ down'[t] = down[t]
      /\ closes /\ t = k => up'[t] \in {up[t] \o Farewell(u), << >>} /\ down'[t] = << >>
      /\ sending'[t] = IF closes /\ t = st.send THEN [sending[t] EXCEPT !.mic = "closed"] ELSE sending[t]
  BY <1>1 DEF Swaps, SwapSocket
<1>3. t \in new => t # k /\ net[t] = "unused"
  <2>1. t # None
    BY MediaAssumption DEF Sockets
  <2> QED
    BY <1>1, <2>1 DEF Swaps, SocketsInUse
<1>4. \A M : ~Has(Farewell(u), M) => Lessens(up'[t], up[t], M)
  <2>1. up[t] \in Seq(ToServer) /\ Farewell(u) \in Seq(ToServer)
    BY FarewellCalm DEF TypeOK
  <2>2. \A M : ~Has(Farewell(u), M) => Lessens(up[t] \o Farewell(u), up[t], M)
    BY <2>1, ConcatHas
  <2>3. \A M : Lessens(up[t], up[t], M) /\ Lessens(<< >>, up[t], M)
    BY LessHas
  <2> QED
    BY <1>2, <2>2, <2>3
<1>5. \A M : Lessens(down'[t], down[t], M)
  <2>1. \A M : Lessens(down[t], down[t], M) /\ Lessens(<< >>, down[t], M)
    BY LessHas
  <2> QED
    BY <1>2, <2>1
<1>6. \A j \in Sockets : UpMic(t, j) /\ DownMic(t, j)
  BY <1>4, <1>5, FarewellCalm DEF UpMic, DownMic
<1>7. Lessens(up'[t], up[t], Joining) /\ Lessens(up'[t], up[t], SendAsked)
  BY <1>4, FarewellCalm
<1>8. CASE closes /\ t = st.send
  <2>1. t # None
    BY MediaAssumption DEF Sockets
  <2>2. sending[t].mic # "none" /\ sending[t] \in Transport \cup {NoTransport}
    BY <1>1, <1>8, <2>1 DEF SocketsInUse, TypeOK
  <2>3. PICK tr \in Transport : tr = sending[t]
    BY <2>2 DEF NoTransport
  <2>4. /\ [tr EXCEPT !.mic = "closed"].mic = "closed" /\ [tr EXCEPT !.mic = "closed"].socket = tr.socket
        /\ [tr EXCEPT !.mic = "closed"].muted = tr.muted
    BY DEF Transport
  <2>5. sending'[t] = [tr EXCEPT !.mic = "closed"]
    BY <1>2, <1>8, <2>3
  <2> QED
    BY <1>1, <1>2, <1>3, <1>5, <1>6, <1>7, <1>8, <2>2, <2>3, <2>4, <2>5
<1>9. CASE ~(closes /\ t = st.send)
  BY <1>1, <1>2, <1>3, <1>5, <1>6, <1>7, <1>9
<1> QED
  BY <1>8, <1>9

\* Who closes the one socket it has open, or opens one, had one at most.
LEMMA SwapLeavesOne ==
    ASSUME TypeOK, SocketsInUse, NEW u \in Users, NEW closes \in BOOLEAN, NEW new \in SUBSET SocketsOf(u),
           Swaps(u, closes, new), OwnSocket(u), SocketIsOpen(u)
    PROVE  /\ SocketIsOpen(u)'
           /\ OneSocket(u)' => OneSocket(u)
           /\ OneSocket(u)' /\ ~closes /\ new # {} => store[u].socket = None
<1>1. PICK k, j : k = store[u].socket /\ j = store'[u].socket
  OBVIOUS
<1>2. SocketsOf(u) \subseteq Sockets /\ None \notin Sockets /\ k \in SocketsOf(u) \cup {None}
  BY <1>1, MediaAssumption DEF SocketsOf, Sockets, OwnSocket
<1>3. \A t \in SocketsOf(u) : /\ net'[t] = IF closes /\ t = k THEN "closed" ELSE IF t \in new THEN "connecting" ELSE net[t]
                              /\ t \in new => t # k /\ net[t] = "unused"
  BY <1>1, <1>2, SwapIs
<1>4. /\ new # {} => new = {j}
      /\ new = {} => j = IF closes THEN None ELSE k
  BY <1>1 DEF Swaps
<1>5. SocketIsOpen(u)'
  <2>1. CASE new # {}
    <3>1. j \in SocketsOf(u) /\ j \in new /\ j # k
      BY <1>2, <1>3, <1>4, <2>1
    <3>2. net'[j] = "connecting"
      BY <1>3, <3>1
    <3> QED
      BY <1>1, <3>2 DEF SocketIsOpen
  <2>2. CASE new = {}
    BY <1>1, <1>2, <1>3, <1>4, <2>2 DEF SocketIsOpen
  <2> QED
    BY <2>1, <2>2
<1>6. ASSUME OneSocket(u)'
      PROVE  OneSocket(u)
  <2>1. ASSUME NEW t \in SocketsOf(u), net[t] \in {"connecting", "open"}, t # k
        PROVE  FALSE
    <3>1. t \notin new /\ net'[t] = net[t]
      BY <1>3, <2>1
    <3>2. t = j
      BY <1>1, <1>6, <2>1, <3>1 DEF OneSocket
    <3> QED
      BY <1>2, <1>4, <2>1, <3>1, <3>2
  <2> QED
    BY <1>1, <2>1 DEF OneSocket
<1>7. ASSUME OneSocket(u)', ~closes, new # {}
      PROVE  k = None
  <2>1. SUFFICES ASSUME k # None
                 PROVE  FALSE
    OBVIOUS
  <2>2. k \in SocketsOf(u) /\ k \in Sockets /\ net[k] # "closed" /\ net[k] # "unused"
    BY <1>1, <1>2, <2>1 DEF SocketIsOpen, SocketsInUse
  <2>3. net[k] \in {"connecting", "open"}
    BY <2>2 DEF TypeOK
  <2>4. k \notin new /\ net'[k] = net[k]
    BY <1>3, <1>7, <2>2
  <2>5. k = j
    BY <1>1, <1>7, <2>2, <2>3, <2>4 DEF OneSocket
  <2> QED
    BY <1>4, <1>7, <2>4, <2>5
<1> QED
  BY <1>1, <1>5, <1>6, <1>7

\* A client makes its send transport on a socket of its own.
OwnSend(u) == store[u].send \in SocketsOf(u) \cup {None}

\* What a client does with its own sockets is nothing to another.
LEMMA SwapOfAnother ==
    ASSUME TypeOK, SocketsInUse, NEW u \in Users, NEW closes \in BOOLEAN, NEW new \in SUBSET SocketsOf(u),
           Swaps(u, closes, new), OwnSend(u), \A v \in Users : OwnSocket(v) /\ SocketIsOpen(v),
           NEW t \in Sockets, SocketInOrder(t), UserOf(t) # u \/ (~closes /\ new = {})
    PROVE  SocketInOrder(t)'
<1>1. PICK k : k = store[u].socket
  OBVIOUS
<1>2. PICK w \in Users : w = UserOf(t)
  BY UserOfType
<1>3. SocketsOf(w) \subseteq Sockets /\ t \in SocketsOf(w) /\ None \notin Sockets
  BY <1>2, MediaAssumption DEF SocketsOf, Sockets, UserOf
<1>4. \A j \in SocketsOf(w) : ~(closes /\ j = k) /\ j \notin new
  BY <1>1, <1>2, <1>3, MediaAssumption DEF OwnSocket, SocketsOf, Sockets, UserOf
<1>5. \A j \in SocketsOf(w) : net'[j] = net[j] /\ up'[j] = up[j] /\ down'[j] = down[j]
  BY <1>1, <1>3, <1>4, SwapIs
<1>6. /\ w # u => store'[w] = store[w]
      /\ w = u => /\ store'[w].socket = store[w].socket /\ store'[w].send = store[w].send
                  /\ store'[w].producers = store[w].producers
  BY <1>2 DEF Swaps
<1>7. SocketStays(w)
  BY <1>5, <1>6 DEF SocketStays
<1>8. SameTransport(t)
  <2>1. ~(closes /\ t = store[u].send)
    BY <1>2, <1>3 DEF OwnSend, SocketsOf, UserOf, Sockets
  <2> QED
    BY <2>1, SwapIs DEF SameTransport
<1>9. /\ \A j \in Sockets : UpMic(j, t) /\ DownMic(j, t)
      /\ Lessens(up'[t], up[t], Joining) /\ Lessens(up'[t], up[t], SendAsked)
      /\ Lessens(down'[t], down[t], Joined) /\ Lessens(down'[t], down[t], SendMade)
  BY SwapIs
<1>10. net'[t] = net[t] /\ up'[t] = up[t] /\ down'[t] = down[t] /\ channelOf'[t] = channelOf[t]
  BY <1>3, <1>4, <1>5 DEF Swaps
<1>11. UNCHANGED <<settings, loading, creating, rooms, members, listed, making, paused, raced>>
  BY DEF Swaps
<1>12. InStore(t)' <=> InStore(t)
  BY <1>2, <1>6 DEF InStore
<1>13. WireKept(t) /\ SetUpKept(t)
  BY <1>8, <1>9, <1>10, <1>11, LessHas DEF WireKept, SetUpKept, SameTransport
<1>14. HomeKept(t)
  <2>1. \A v \in Users : Mic(t) \in store'[v].producers => Mic(t) \in store[v].producers
    BY DEF Swaps
  <2> QED
    BY <1>2, <1>6, <1>8, <1>9, <1>11, <2>1 DEF HomeKept
<1>15. MadeKept(t)
  BY <1>3, <1>8, <1>9, <1>11, <1>12 DEF MadeKept
<1>16. RoomOf(t)' = RoomOf(t)
  BY <1>10, <1>11 DEF RoomOf
<1>17. SeatKept(t)
  BY <1>9, <1>11, <1>12, <1>16 DEF SeatKept
<1>18. FollowKept(t)
  <2>1. IsHeard(t)' => IsHeard(t)
    BY <1>11, <1>16 DEF IsHeard
  <2> QED
    BY <1>8, <1>10, <1>11, <1>12, <2>1 DEF FollowKept, TurnsKept
<1> QED
  BY <1>2, <1>7, <1>13, <1>14, <1>15, <1>17, <1>18, KeptStaysForOne DEF Kept

\* The client that closes its socket, or opens one, for each of its own sockets.
LEMMA SwapOfOwn ==
    ASSUME TypeOK, SocketsInUse, NEW u \in Users, NEW closes \in BOOLEAN, NEW new \in SUBSET SocketsOf(u),
           Swaps(u, closes, new), OwnSocket(u), SocketIsOpen(u), closes \/ new # {},
           NEW t \in Sockets, SocketInOrder(t), UserOf(t) = u
    PROVE  SocketInOrder(t)'
<1>1. PICK k : k = store[u].socket
  OBVIOUS
<1>2. /\ net'[t] = IF closes /\ t = k THEN "closed" ELSE IF t \in new THEN "connecting" ELSE net[t]
      /\ t \in new => t # k /\ net[t] = "unused"
      /\ ~(closes /\ t = k) => up'[t] = up[t] /\ down'[t] = down[t]
      /\ closes /\ t = k => down'[t] = << >>
      /\ \A j \in Sockets : UpMic(j, t) /\ DownMic(j, t)
      /\ Lessens(up'[t], up[t], Joining) /\ Lessens(up'[t], up[t], SendAsked)
      /\ Lessens(down'[t], down[t], Joined) /\ Lessens(down'[t], down[t], SendMade)
      /\ ~(closes /\ t = store[u].send) => sending'[t] = sending[t]
      /\ closes /\ t = store[u].send => sending[t].mic # "none" /\ sending'[t].mic = "closed"
      /\ sending'[t].socket = sending[t].socket /\ sending'[t].muted = sending[t].muted
  BY <1>1, SwapIs
<1>3. /\ UNCHANGED <<settings, loading, creating, rooms, members, listed, making, paused, raced>>
      /\ t \notin new => channelOf'[t] = channelOf[t]
      /\ store'[u].producers = IF closes THEN {} ELSE store[u].producers
      /\ \A v \in Users : Mic(t) \in store'[v].producers => Mic(t) \in store[v].producers
  BY DEF Swaps
<1>4. /\ OneSocket(u)' => OneSocket(u)
      /\ OneSocket(u)' /\ ~closes => k = None
  BY <1>1, SwapLeavesOne
<1>5. WireInOrder(t) /\ Homeward(t) /\ SetUpOnce(t) /\ MicInOrder(t) /\ t # None
  BY MediaAssumption DEF SocketInOrder, Sockets
<1>6. WireInOrder(t)'
  <2>1. CASE closes /\ t = k
    BY <1>2, <2>1 DEF WireInOrder
  <2>2. CASE ~(closes /\ t = k)
    BY <1>2, <1>5, <2>2 DEF WireInOrder
  <2> QED
    BY <2>1, <2>2
<1>7. SetUpOnce(t)'
  <2>1. SetUpKept(t)
    BY <1>2, <1>3 DEF SetUpKept
  <2> QED
    BY <1>5, <2>1, SetUpStays
<1>8. \A j \in Sockets : Near(j, t) => Near(j, t)'
  BY <1>4 DEF Near
<1>9. Homeward(t)'
  <2>1. ASSUME NEW v \in Users, Mic(t) \in store'[v].producers
        PROVE  v = UserOf(t) /\ ~OneSocket(v)'
    <3>1. v = u /\ Mic(t) \in store[u].producers /\ (OneSocket(u) => k = t)
      BY <1>1, <1>3, <1>5, <2>1 DEF Homeward
    <3>2. ~closes
      BY <1>3, <2>1, <3>1
    <3> QED
      BY <1>4, <1>5, <3>1, <3>2
  <2>2. \A j \in Sockets : Has(up[j], Asking(t))' \/ Has(up[j], Turning(t))' \/ Has(down[j], Made(t))' => Near(j, t)'
    <3>1. \A j \in Sockets : /\ Has(up[j], Asking(t))' => Has(up[j], Asking(t))
                             /\ Has(up[j], Turning(t))' => Has(up[j], Turning(t))
                             /\ Has(down[j], Made(t))' => Has(down[j], Made(t))
      BY <1>2, LessHas DEF UpMic, DownMic
    <3> QED
      BY <1>5, <1>8, <3>1 DEF Homeward
  <2>3. (making[Mic(t)] # None => Near(making[Mic(t)].socket, t))'
    BY <1>3, <1>4, <1>5 DEF Homeward, Near
  <2>4. sending'[t].mic # "none" /\ sending'[t].socket # None => UserOf(sending'[t].socket) = UserOf(t)
    BY <1>2, <1>5 DEF Homeward
  <2>5. ~(sending'[t].mic \in {"asked", "given"} /\ OneSocket(UserOf(t))')
    BY <1>1, <1>2, <1>4, <1>5 DEF Homeward
  <2> QED
    BY <2>1, <2>2, <2>3, <2>4, <2>5 DEF Homeward
<1>10. ASSUME OneSocket(u)'
       PROVE  (MadeOnce(t) /\ MadeAsMuted(t) /\ Seated(t) /\ FollowsMute(t))'
  <2>1. MadeOnce(t) /\ MadeAsMuted(t) /\ Seated(t) /\ FollowsMute(t) /\ OneSocket(u)
    BY <1>4, <1>5, <1>10 DEF MicInOrder
  <2>2. ~InStore(t)' /\ ~IsBeingMade(t)'
    <3>1. ~InStore(t)'
      <4>1. InStore(t)' => InStore(t) /\ ~closes
        BY <1>3 DEF InStore
      <4> QED
        BY <1>1, <1>4, <1>5, <1>10, <2>1, <4>1 DEF Homeward, InStore
    <3>2. sending'[t].mic \notin {"asked", "given"}
      BY <1>1, <1>2, <1>4, <1>5, <1>10, <2>1 DEF Homeward
    <3> QED
      BY <3>1, <3>2 DEF IsBeingMade
  <2>3. /\ Once(up[t], Asking(t))' /\ Once(down[t], Made(t))'
        /\ Has(up[t], Asking(t))' => Has(up[t], Asking(t))
        /\ Has(up[t], Turning(t))' => Has(up[t], Turning(t))
        /\ Has(down[t], Made(t))' => Has(down[t], Made(t))
        /\ \A i \in DOMAIN up'[t] : up'[t][i] \in Asking(t) => \E j \in DOMAIN up[t] : up[t][j] = up'[t][i]
    BY <1>2, <2>1, LessHas DEF MadeOnce, UpMic, DownMic, Lessens
  <2>4. /\ sending[t].mic \in {"given", "closed"} => sending'[t].mic \in {"given", "closed"}
        /\ sending'[t].mic \in {"none", "asked"} => sending[t].mic \in {"none", "asked"}
    BY <1>2
  <2>5. InStore(t)' => InStore(t)
    BY <2>2
  <2>6. MadeOnce(t)'
    BY <1>3, <2>1, <2>3, <2>4, <2>5 DEF MadeOnce
  <2>7. MadeAsMuted(t)'
    BY <1>2, <1>3, <2>1, <2>3, <2>4 DEF MadeAsMuted
  <2>8. Seated(t)'
    <3>1. CASE t \in new
      <4>1. sending[t].mic = "none"
        BY <1>2, <1>5, <3>1 DEF SetUpOnce
      <4>2. making'[Mic(t)] = None /\ ~Has(down[t], Made(t))'
        BY <1>3, <2>1, <2>3, <4>1 DEF MadeOnce
      <4> QED
        BY <2>2, <4>2 DEF Seated
    <3>2. CASE t \notin new
      <4>1. RoomOf(t)' = RoomOf(t) /\ (net'[t] # "closed" => net[t] # "closed")
        BY <1>2, <1>3, <3>2 DEF RoomOf
      <4> QED
        BY <1>3, <2>1, <2>2, <2>3, <4>1 DEF Seated
    <3> QED
      BY <3>1, <3>2
  <2>9. FollowsMute(t)'
    BY <2>2 DEF FollowsMute
  <2> QED
    BY <2>6, <2>7, <2>8, <2>9
<1>11. MicInOrder(t)'
  BY <1>10 DEF MicInOrder
<1> QED
  BY <1>6, <1>7, <1>9, <1>11 DEF SocketInOrder

LEMMA VoiceSwaps ==
    ASSUME TypeOK, NEW u \in Users, OnVoiceJoin(u) \/ OnVoiceLeave(u)
    PROVE  \E closes \in BOOLEAN : \E new \in SUBSET SocketsOf(u) : Swaps(u, closes, new)
<1>1. PICK st : st = store[u] /\ st \in Store
  BY DEF TypeOK
<1>2. /\ store \in [Users -> Store] /\ channelOf \in [Sockets -> Channels \cup {None}]
      /\ NoStore \in Store /\ NoStore.send = None /\ NoStore.producers = {} /\ NoStore.socket = None
  BY DEF TypeOK, NoStore, Store, Room
<1>3. UNCHANGED <<settings, loading, creating, rooms, members, listed, making, paused, raced>>
  BY DEF OnVoiceJoin, OnVoiceLeave, serverVars, seats, media, awaits
<1>4. CASE OnVoiceJoin(u)
  <2>1. PICK switches \in BOOLEAN, s \in SocketsOf(u) :
           /\ net[s] = "unused" /\ SwapSocket(u, switches, {s})
           /\ channelOf' = [channelOf EXCEPT ![s] = Head(voice[u]).channel]
           /\ store' = [store EXCEPT ![u] = [(IF switches THEN NoStore ELSE st) EXCEPT !.socket = s]]
    BY <1>1, <1>4 DEF OnVoiceJoin
  <2>2. PICK old : old = (IF switches THEN NoStore ELSE st) /\ old \in Store
    BY <1>1, <1>2
  <2>3. /\ [old EXCEPT !.socket = s].socket = s /\ [old EXCEPT !.socket = s].send = old.send
        /\ [old EXCEPT !.socket = s].producers = old.producers
    BY <2>2 DEF Store
  <2>4. store'[u] = [old EXCEPT !.socket = s] /\ \A w \in Users \ {u} : store'[w] = store[w]
    BY <1>2, <2>1, <2>2
  <2>5. PICK new \in SUBSET SocketsOf(u) : new = {s}
    BY <2>1
  <2>6. \A t \in Sockets \ new : channelOf'[t] = channelOf[t]
    BY <1>2, <2>1, <2>5
  <2>7. Swaps(u, switches, new)
    BY <1>1, <1>2, <1>3, <2>1, <2>2, <2>3, <2>4, <2>5, <2>6 DEF Swaps
  <2> QED
    BY <2>7
<1>5. CASE OnVoiceLeave(u)
  <2>1. PICK closes \in BOOLEAN : closes = ClosesOnLeave(u)
    BY DEF ClosesOnLeave
  <2>2. PICK new \in SUBSET SocketsOf(u) : new = {}
    OBVIOUS
  <2>3. /\ SwapSocket(u, closes, new) /\ UNCHANGED channelOf
        /\ store' = [store EXCEPT ![u] = IF closes THEN NoStore ELSE st]
    BY <1>1, <1>5, <2>1, <2>2 DEF OnVoiceLeave
  <2>4. store'[u] = (IF closes THEN NoStore ELSE st) /\ \A w \in Users \ {u} : store'[w] = store[w]
    BY <1>2, <2>3
  <2>5. Swaps(u, closes, new)
    BY <1>1, <1>2, <1>3, <2>2, <2>3, <2>4 DEF Swaps
  <2> QED
    BY <2>5
<1> QED
  BY <1>4, <1>5

LEMMA VoiceKeepsOrder ==
    ASSUME TypeOK, SocketsInUse, NEW u \in Users, OnVoiceJoin(u) \/ OnVoiceLeave(u),
           \A v \in Users : OwnSocket(v) /\ OwnSend(v) /\ SocketIsOpen(v),
           \A t \in Sockets : SocketInOrder(t)
    PROVE  /\ \A v \in Users : OwnSend(v)' /\ SocketIsOpen(v)'
           /\ \A t \in Sockets : SocketInOrder(t)'
<1>1. PICK closes \in BOOLEAN : \E new \in SUBSET SocketsOf(u) : Swaps(u, closes, new)
  BY VoiceSwaps
<1>2. PICK new \in SUBSET SocketsOf(u) : Swaps(u, closes, new)
  BY <1>1
<1>3. \A v \in Users : OwnSend(v)'
  BY <1>2 DEF Swaps, OwnSend
<1>4. SocketIsOpen(u)'
  BY <1>2, SwapLeavesOne
<1>5. ASSUME NEW v \in Users \ {u}
      PROVE  SocketIsOpen(v)'
  <2>1. PICK k, j : k = store[u].socket /\ j = store[v].socket
    OBVIOUS
  <2>2. j # None => j \in Sockets /\ j # k /\ j \notin new
    BY <2>1, MediaAssumption DEF OwnSocket, SocketsOf, Sockets
  <2>3. j # None => net'[j] = net[j]
    BY <1>2, <2>1, <2>2, SwapIs
  <2> QED
    BY <1>2, <2>1, <2>3 DEF SocketIsOpen, Swaps
<1>6. ASSUME NEW t \in Sockets
      PROVE  SocketInOrder(t)'
  <2>1. CASE UserOf(t) # u \/ (~closes /\ new = {})
    BY <1>2, <2>1, SwapOfAnother
  <2>2. CASE UserOf(t) = u /\ (closes \/ new # {})
    BY <1>2, <2>2, SwapOfOwn
  <2> QED
    BY <2>1, <2>2
<1> QED
  BY <1>3, <1>4, <1>5, <1>6

\* Only the reply to CREATE_SEND_TRANSPORT gives a client another.
LEMMA OwnSendStays ==
    ASSUME TypeOK, \A v \in Users : OwnSend(v),
           \/ \E u \in Users : UserStep(u)
           \/ \E s \in Sockets : ClientStep(s) \/ ServerStep(s)
           \/ \E p \in Producers : ProducerMade(p)
           \/ UNCHANGED vars
    PROVE  \A v \in Users : OwnSend(v)'
<1>1. store \in [Users -> Store]
  BY DEF TypeOK
<1>2. ASSUME NEW s \in Sockets, OnCreateSendTransport(s)
      PROVE  \A v \in Users : OwnSend(v)'
  <2>1. PICK u \in Users, st \in Store : u = UserOf(s) /\ st = store[u] /\ s \in SocketsOf(u)
    BY <1>1 DEF UserOf, Sockets, SocketsOf
  <2>2. store' \in {store, [store EXCEPT ![u] = [st EXCEPT !.send = s]]}
    BY <1>2, <2>1 DEF OnCreateSendTransport
  <2>3. [st EXCEPT !.send = s].send = s
    BY DEF Store
  <2> QED
    BY <1>1, <2>1, <2>2, <2>3 DEF OwnSend
<1>3. ASSUME NEW u \in Users, NEW new, new.send = store[u].send, store' \in {store, [store EXCEPT ![u] = new]}
      PROVE  \A v \in Users : OwnSend(v)'
  BY <1>1, <1>3 DEF OwnSend
<1>4. ASSUME UNCHANGED store
      PROVE  \A v \in Users : OwnSend(v)'
  BY <1>4 DEF OwnSend
<1>5. \A st \in Store : \A x :
         /\ [st EXCEPT !.silenced = x].send = st.send
         /\ [st EXCEPT !.producers = x].send = st.send
         /\ [st EXCEPT !.recv = x].send = st.send
         /\ [st EXCEPT !.consumers = x].send = st.send
  BY DEF Store
<1>6. ASSUME NEW u \in Users, UserStep(u)
      PROVE  \A v \in Users : OwnSend(v)'
  <2>1. PICK st \in Store : st = store[u]
    BY <1>1
  <2>2. \/ UNCHANGED store
        \/ \E x : store' = [store EXCEPT ![u] = [st EXCEPT !.silenced = x]]
        \/ \E x : store' = [store EXCEPT ![u] = [st EXCEPT !.producers = x]]
    <3>1. CASE SetMuted(u) \/ SetDeafened(u)
      BY <1>1, <2>1, <3>1 DEF SetMuted, SetDeafened
    <3>2. CASE StopScreenShare(u)
      BY <1>1, <2>1, <3>2 DEF StopScreenShare
    <3>3. CASE ~SetMuted(u) /\ ~SetDeafened(u) /\ ~StopScreenShare(u)
      BY <1>6, <3>3 DEF UserStep, JoinCall, JoinChannel, LeaveCall, HangUp, Click, StartScreenShare, clientVars
    <3> QED
      BY <3>1, <3>2, <3>3
  <2> QED
    BY <1>3, <1>4, <1>5, <2>1, <2>2
<1>7. ASSUME NEW s \in Sockets, ClientStep(s), ~OnCreateSendTransport(s)
      PROVE  \A v \in Users : OwnSend(v)'
  <2>1. PICK u \in Users, st \in Store : u = UserOf(s) /\ st = store[u]
    BY <1>1, UserOfType
  <2>2. CASE DeviceLoaded(s)
    <3>1. PICK new : new = [st EXCEPT !.device = TRUE, !.channel = channelOf[s]]
      OBVIOUS
    <3>2. store' = [store EXCEPT ![u] = new]
      BY <1>1, <2>1, <2>2, <3>1 DEF DeviceLoaded
    <3>3. new.send = st.send
      BY <3>1 DEF Store
    <3> QED
      BY <1>3, <2>1, <3>2, <3>3
  <2>3. CASE OnProduced(s)
    <3>1. \/ UNCHANGED store
          \/ store' = [store EXCEPT ![u] = [st EXCEPT !.producers = @ \cup {Head(down[s]).producer}]]
      BY <1>1, <2>1, <2>3 DEF OnProduced
    <3> QED
      BY <1>3, <1>4, <1>5, <2>1, <3>1
  <2>4. CASE OnCreateRecvTransport(s)
    <3>1. UNCHANGED store \/ store' = [store EXCEPT ![u] = [st EXCEPT !.recv = s]]
      BY <1>1, <2>1, <2>4 DEF OnCreateRecvTransport
    <3> QED
      BY <1>3, <1>4, <1>5, <2>1, <3>1
  <2>5. CASE OnConsumerCreated(s)
    <3>1. PICK p, x, y : /\ p = Head(down[s]).producer
                         /\ x = [st.consumers EXCEPT ![p] = @ + 1] /\ y = st.silenced \ {p}
      OBVIOUS
    <3>2. PICK new : new = [st EXCEPT !.consumers = x, !.silenced = y]
      OBVIOUS
    <3>3. UNCHANGED store \/ store' = [store EXCEPT ![u] = new]
      BY <1>1, <2>1, <2>5, <3>1, <3>2 DEF OnConsumerCreated
    <3>4. new.send = st.send
      BY <3>2 DEF Store
    <3> QED
      BY <1>3, <1>4, <2>1, <3>3, <3>4
  <2>6. CASE OnCloseProducer(s)
    <3>1. PICK p, x : /\ p = Head(down[s]).producer /\ x = [st.consumers EXCEPT ![p] = @ - 1]
      OBVIOUS
    <3>2. UNCHANGED store \/ store' = [store EXCEPT ![u] = [st EXCEPT !.consumers = x]]
      BY <1>1, <2>1, <2>6, <3>1 DEF OnCloseProducer
    <3> QED
      BY <1>3, <1>4, <1>5, <2>1, <3>2
  <2>7. CASE Connect(s) \/ OnRoomJoined(s) \/ Produce(s) \/ OnGetChannelProducers(s) \/ OnProducerJoined(s)
    BY <1>4, <2>7 DEF Connect, OnRoomJoined, Produce, OnGetChannelProducers, OnProducerJoined, local, clientVars
  <2> QED
    BY <1>7, <2>2, <2>3, <2>4, <2>5, <2>6, <2>7 DEF ClientStep
<1>8. ASSUME \/ \E s \in Sockets : ServerStep(s)
             \/ \E p \in Producers : ProducerMade(p)
             \/ UNCHANGED vars
      PROVE  \A v \in Users : OwnSend(v)'
  <2>1. UNCHANGED local
    BY <1>8 DEF ServerStep, HandleJoinRoom, RouterCreated, HandleCreateTransport, HandleProduce, GetProducers,
                HandleConsume, HandlePauseConsumer, HandleResumeConsumer, HandlePauseProducer,
                HandleResumeProducer, HandleCloseProducer, HandleCloseConsumer, HandleCloseClient, Disconnected,
                ConsumerMade, ProducerMade, vars
  <2> QED
    BY <1>4, <2>1 DEF local, clientVars
<1> QED
  BY <1>2, <1>6, <1>7, <1>8

\* What is said of microphones is in order on every socket.
MuteInvariant ==
    /\ \A u \in Users : OwnSend(u) /\ SocketIsOpen(u)
    /\ \A t \in Sockets : SocketInOrder(t)

LEMMA InitMute == Init => MuteInvariant
<1> SUFFICES ASSUME Init
             PROVE  MuteInvariant
  OBVIOUS
<1>1. \A M : ~Has(<< >>, M) /\ Once(<< >>, M)
  BY DEF Has, Once
<1>2. \A u \in Users : store[u].socket = None /\ store[u].send = None /\ store[u].producers = {}
  BY DEF Init, NoStore
<1>3. ASSUME NEW t \in Sockets
      PROVE  SocketInOrder(t)
  <2>1. /\ net[t] = "unused" /\ sending[t].mic = "none" /\ making[Mic(t)] = None
        /\ \A k \in Sockets : up[k] = << >> /\ down[k] = << >>
        /\ loading = {} /\ creating = {} /\ paused = {}
    BY MessageSorts DEF Init, NoTransport
  <2>2. ~InStore(t) /\ \A v \in Users : Mic(t) \notin store[v].producers
    BY <1>2, UserOfType DEF InStore
  <2>3. WireInOrder(t) /\ Homeward(t) /\ SetUpOnce(t)
    BY <1>1, <2>1, <2>2 DEF WireInOrder, Homeward, SetUpOnce
  <2>4. MadeOnce(t) /\ MadeAsMuted(t) /\ Seated(t)
    BY <1>1, <2>1, <2>2 DEF MadeOnce, MadeAsMuted, Seated
  <2>5. FollowsMute(t)
    BY <2>1, <2>2 DEF FollowsMute, IsBeingMade
  <2> QED
    BY <2>3, <2>4, <2>5 DEF SocketInOrder, MicInOrder
<1> QED
  BY <1>2, <1>3 DEF MuteInvariant, OwnSend, SocketIsOpen

LEMMA NextKeepsMute == Typed /\ RoomInvariant /\ CallInvariant /\ MuteInvariant /\ [Next]_vars => MuteInvariant'
<1> SUFFICES ASSUME TypeOK, SocketsInUse, RoomInvariant, CallInvariant, MuteInvariant, [Next]_vars
             PROVE  MuteInvariant'
  BY DEF Typed
<1>1. /\ \A v \in Users : OwnSocket(v) /\ OwnSend(v) /\ SocketIsOpen(v)
      /\ \A t \in Sockets : SocketInOrder(t) /\ SocketIsOpen(UserOf(t)) /\ OwnSocket(UserOf(t)) /\ WireInOrder(t)
  BY UserOfType DEF MuteInvariant, CallInvariant, SocketInOrder
<1>2. ASSUME \/ \E u \in Users : UserStep(u)
             \/ \E s \in Sockets : ClientStep(s) \/ ServerStep(s)
             \/ \E p \in Producers : ProducerMade(p)
             \/ UNCHANGED vars,
             SocketsStay, \A t \in Sockets : SocketInOrder(t)'
      PROVE  MuteInvariant'
  BY <1>1, <1>2, OwnSendStays, SocketsStayOpen DEF MuteInvariant
<1>3. ASSUME SocketsStay, \A t \in Sockets : Kept(t)
      PROVE  \A t \in Sockets : SocketInOrder(t)'
  BY <1>1, <1>3, KeptStays
<1>4. ASSUME NEW u \in Users, UserStep(u)
      PROVE  MuteInvariant'
  <2>1. SocketsStay /\ \A t \in Sockets : SocketInOrder(t)'
    <3>1. CASE SetMuted(u)
      BY <1>1, <3>1, MuteKeepsOrder
    <3>2. CASE ~SetMuted(u)
      BY <1>3, <1>4, <3>2, UserIsCalm
    <3> QED
      BY <3>1, <3>2
  <2> QED
    BY <1>2, <1>4, <2>1
<1>5. ASSUME NEW u \in Users, OnVoiceJoin(u) \/ OnVoiceLeave(u)
      PROVE  MuteInvariant'
  BY <1>1, <1>5, VoiceKeepsOrder DEF MuteInvariant
<1>6. ASSUME NEW s \in Sockets, ClientStep(s)
      PROVE  MuteInvariant'
  <2>1. SocketsStay /\ \A t \in Sockets : SocketInOrder(t)'
    <3>1. CASE Connect(s)
      BY <1>1, <3>1, ConnectKeepsOrder
    <3>2. CASE OnRoomJoined(s)
      BY <1>1, <3>2, JoinedKeepsOrder
    <3>3. CASE DeviceLoaded(s)
      BY <1>1, <3>3, LoadedKeepsOrder
    <3>4. CASE OnCreateSendTransport(s)
      BY <1>1, <3>4, SendKeepsOrder
    <3>5. CASE Produce(s)
      BY <1>1, <3>5, AskKeepsOrder
    <3>6. CASE OnProduced(s)
      BY <1>1, <3>6, ProducedKeepsOrder
    <3>7. CASE \/ OnCreateRecvTransport(s) \/ OnGetChannelProducers(s)
               \/ OnProducerJoined(s) \/ OnConsumerCreated(s) \/ OnCloseProducer(s)
      BY <1>3, <3>7, ClientIsCalm
    <3> QED
      BY <1>6, <3>1, <3>2, <3>3, <3>4, <3>5, <3>6, <3>7 DEF ClientStep
  <2> QED
    BY <1>2, <1>6, <2>1
<1>7. ASSUME NEW s \in Sockets, ServerStep(s)
      PROVE  MuteInvariant'
  <2>1. SocketsStay /\ \A t \in Sockets : SocketInOrder(t)'
    <3>1. CASE HandleJoinRoom(s) \/ RouterCreated(s)
      BY <1>1, <3>1, JoinKeepsOrder
    <3>2. CASE HandleCreateTransport(s)
      BY <1>1, <3>2, TransportKeepsOrder
    <3>3. CASE HandleProduce(s)
      BY <1>1, <3>3, ProduceKeepsOrder
    <3>4. CASE HandlePauseProducer(s) \/ HandleResumeProducer(s)
      BY <1>1, <3>4, TurnKeepsOrder
    <3>5. CASE \/ GetProducers(s) \/ HandleConsume(s) \/ HandlePauseConsumer(s) \/ HandleResumeConsumer(s)
               \/ HandleCloseProducer(s) \/ HandleCloseConsumer(s) \/ HandleCloseClient(s)
               \/ Disconnected(s) \/ \E p \in Producers : ConsumerMade(s, p)
      <4>1. WireInOrder(s)
        BY <1>1
      <4> QED
        BY <1>3, <3>5, <4>1, ServerIsCalm
    <3> QED
      BY <1>7, <3>1, <3>2, <3>3, <3>4, <3>5 DEF ServerStep
  <2> QED
    BY <1>2, <1>7, <2>1
<1>8. ASSUME NEW p \in Producers, ProducerMade(p)
      PROVE  MuteInvariant'
  <2>1. SocketsStay /\ \A t \in Sockets : SocketInOrder(t)'
    BY <1>1, <1>8, MadeKeepsOrder
  <2> QED
    BY <1>2, <1>8, <2>1
<1>9. CASE UNCHANGED vars
  <2>1. UNCHANGED <<store, settings, net, channelOf, loading, sending, up, down, rooms, creating, members,
                    listed, paused, making, raced>>
    BY <1>9 DEF vars, local, clientVars, serverVars, seats, media, awaits, historyVars
  <2>2. ASSUME NEW t \in Sockets
        PROVE  Kept(t)
    <3>1. \A k \in Sockets : UpCalm(k) /\ DownCalm(k)
      BY <2>1 DEF UpCalm, DownCalm
    <3>2. SameTransport(t) /\ (IsHeard(t)' => IsHeard(t))
      BY <2>1 DEF SameTransport, IsHeard, RoomOf
    <3> QED
      BY <2>1, <3>1, <3>2, CalmIsKept
  <2>3. SocketsStay
    BY <2>1 DEF SocketsStay
  <2> QED
    BY <1>2, <1>3, <1>9, <2>2, <2>3
<1> QED
  BY <1>4, <1>5, <1>6, <1>7, <1>8, <1>9 DEF Next, SystemStep

\* Once nothing is under way, of the microphones that sfu-service lists it has
\* paused that of a user who is muted and no other (the effect on isMuted of
\* PeerConnectionManager), unless the user muted or unmuted while it was made.
THEOREM MutedIsPaused == Spec => []MuteIsHonoured
<1>1. Typed /\ MuteInvariant => MuteIsHonoured
  <2> SUFFICES ASSUME TypeOK, SocketsInUse, MuteInvariant, Quiet, NEW u \in Users \ raced, HasOneSocket(u),
                      NEW p \in Microphones(u) \cap listed[RoomOf(store[u].socket)]
               PROVE  p \in paused <=> settings[u].muted
    BY DEF MuteIsHonoured, Typed
  <2>1. PICK t \in Sockets : p = Mic(t)
    <3>1. p \in Producers /\ IsAudio(p)
      BY DEF Microphones, TypeOK, Store
    <3> QED
      BY <3>1 DEF Producers, Kinds, IsAudio, Mic
  <2>2. Homeward(t) /\ MicInOrder(t) /\ SocketIsOpen(u)
    BY DEF MuteInvariant, SocketInOrder
  <2>3. OneSocket(u)
    BY DEF HasOneSocket, OneSocket
  <2>4. u = UserOf(t) /\ store[u].socket = t /\ InStore(t)
    BY <2>1, <2>2, <2>3 DEF Homeward, Microphones, InStore
  <2>5. Seated(t) /\ FollowsMute(t) /\ net[t] # "closed"
    BY <2>2, <2>3, <2>4, NotClosed DEF MicInOrder
  <2>6. IsHeard(t)
    <3>1. RoomOf(t) # None /\ net[t] # "unused"
      BY <2>4, <2>5, MediaAssumption DEF Seated, SocketsInUse, Sockets
    <3>2. RoomOf(t) \in Sockets
      <4>1. channelOf[t] \in Channels
        BY <3>1 DEF SocketsInUse
      <4> QED
        BY <3>1, <4>1 DEF TypeOK, RoomOf, Room
    <3> QED
      BY <2>1, <2>4, <3>2 DEF IsHeard
  <2>7. ComesToBe(settings[u].muted, Mic(t) \in paused, t, << >>)
    BY <2>4, <2>5, <2>6 DEF FollowsMute, Quiet
  <2>8. (Mic(t) \in paused) = settings[u].muted
    BY <2>7 DEF ComesToBe
  <2> QED
    BY <2>1, <2>8
<1>2. Init => RoomInvariant
  BY DEF Init, RoomInvariant, RoomsAreWhere, RoomsInUse, MadeForRoom, OnRecord, MakingAt
<1> QED
  BY <1>1, <1>2, InitTyped, NextTyped, NextKeepsRooms, InitCall, NextKeepsCall, InitMute, NextKeepsMute, PTL DEF Spec
=============================================================================
