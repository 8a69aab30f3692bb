-------------------------------- MODULE Media --------------------------------
(***************************************************************************)
(* The media of calls: the rooms, peers, producers and consumers of        *)
(* sfu-service, and the client that joins a room when its user joins a     *)
(* call (PeerConnectionManager and the mediasoup store).                   *)
(*                                                                         *)
(* Each session of a client has a socket of its own to sfu-service, which  *)
(* keeps the order of what is sent either way.  A handler of the server    *)
(* that awaits mediasoup interleaves with the others: it is a step that    *)
(* reads and a step that registers.  The client runs to completion between *)
(* its awaits: loading the device and asking for the microphone.           *)
(***************************************************************************)
EXTENDS Naturals, FiniteSets, SequencesExt

CONSTANTS
    Users,      \* one client each
    Channels,
    VoiceChannels, \* the channels of guilds: the others are direct-message channels
    Slots,      \* the sockets a client opens: 1..n
    Toggles,    \* bound: Toggles[u], how often u mutes, deafens or undoes it
    Clicks,     \* bound: Clicks[u], how often u asks to join or to leave
    Sharers,    \* bound: the users who share their screen
    None

ASSUME MediaAssumption ==
    /\ IsFiniteSet(Users) /\ Slots \subseteq Nat /\ IsFiniteSet(Slots)
    /\ Toggles \in [Users -> Nat] /\ Clicks \in [Users -> Nat]
    /\ Sharers \subseteq Users
    /\ VoiceChannels \subseteq Channels
    /\ None \notin Channels /\ None \notin Users \X Slots

VARIABLES
    \* the client of a user
    settings,   \* settings[u]: muted and deafened
    store,      \* store[u]: socket, device, channel, transports, producers, consumers
    calls,      \* calls[u]: the channels in whose call u's client shows u
    voice,      \* voice[u]: u's own voice events, asked for and not yet handled
    \* a socket, and what the client awaits for it
    net,        \* net[s]: "unused", "connecting", "open" or "closed"
    channelOf,  \* channelOf[s]: the channel it was opened for
    loading,    \* the sockets whose device is being loaded
    sending,    \* sending[s]: the send transport made with a reply on s
    receiving,  \* receiving[s]: the room of the receive transport made likewise
    up, down,   \* up[s] and down[s]: what is under way to and from sfu-service
    \* sfu-service
    rooms,      \* rooms[c]: the room of c, named after the socket that made it
    creating,   \* the sockets whose JOIN_ROOM awaits a router
    peers,      \* the sockets that have a peer
    members,    \* the sockets that are told of what happens in their room
    listed,     \* listed[r]: the producers of room r
    owned,      \* owned[s]: the producers that the peer of s has on record
    served,     \* served[s]: the producers it has consumers of
    paused,     \* the producers that are paused on the server
    making,     \* making[p]: the producer that mediasoup is making, or None
    consuming,  \* the consumers that mediasoup is making
    running,    \* running[s]: those whose consumers are not paused
    \* history
    clicks, toggles,
    hasty,      \* the users who joined or left while a socket was set up
    raced,      \* the users who muted while their producer was made
    late        \* the producers that were made when their peer was gone

clientVars == <<settings, store, calls, voice>>
local == <<clientVars, net, channelOf, loading, sending, receiving>>
seats == <<rooms, creating, peers, members>>
media == <<listed, owned, served, running, paused>>
awaits == <<making, consuming>>
serverVars == <<seats, media, awaits>>
historyVars == <<clicks, toggles, hasty, raced, late>>
vars == <<local, up, down, serverVars, historyVars>>

-----------------------------------------------------------------------------
Sockets == Users \X Slots
UserOf(s) == s[1]
SocketsOf(u) == {u} \X Slots

Kinds == {"audio", "screen"}

\* A transport is named after the socket on which its parameters were sent, and
\* a producer after its send transport: one of a kind each.
Producers == Sockets \X Kinds
TransportOf(p) == p[1]
OwnerOf(p) == UserOf(p[1])
IsAudio(p) == p[2] = "audio"
IsScreen(p) == p[2] = "screen"

Room == Sockets \cup {None}

NoStore == [socket |-> None, device |-> FALSE, channel |-> None, send |-> None, recv |-> None,
            producers |-> {}, consumers |-> [p \in Producers |-> 0], silenced |-> {}]

Store == [socket : Room, device : BOOLEAN, channel : Channels \cup {None}, send : Room, recv : Room,
          producers : SUBSET Producers, consumers : [Producers -> Nat], silenced : SUBSET Producers]

\* What is known of a send transport: its room, the socket its requests go to,
\* whether the user was muted, and how far the microphone is.
NoTransport == [mic |-> "none"]
Transport == [mic : {"asked", "given", "closed"}, room : Sockets, socket : Room, muted : BOOLEAN, share : BOOLEAN]

Making == [room : Sockets, paused : BOOLEAN, socket : Sockets]

ToServer ==
    [type : {"join", "send", "recv", "producers", "close", "bye", "pauseConsumers", "resumeConsumers"}]
    \cup [type : {"produce"}, producer : Producers, room : Room, paused : BOOLEAN]
    \cup [type : {"consume"}, producer : Producers, room : Room]
    \cup [type : {"pause", "resume", "closeProducer", "closeConsumer"}, producer : Producers]

ToClient ==
    [type : {"joined"}]
    \cup [type : {"send", "recv"}, room : Sockets]
    \cup [type : {"producers"}, producers : SUBSET Producers]
    \cup [type : {"produced", "producerJoined", "consumer", "closeProducer"}, producer : Producers]

\* Every variable has its type.
TypeOK ==
    /\ settings \in [Users -> [muted : BOOLEAN, deafened : BOOLEAN]]
    /\ store \in [Users -> Store]
    /\ calls \in [Users -> SUBSET Channels]
    /\ voice \in [Users -> Seq([type : {"join", "leave"}, channel : Channels])]
    /\ net \in [Sockets -> {"unused", "connecting", "open", "closed"}]
    /\ channelOf \in [Sockets -> Channels \cup {None}]
    /\ loading \subseteq Sockets
    /\ sending \in [Sockets -> Transport \cup {NoTransport}]
    /\ receiving \in [Sockets -> Room]
    /\ up \in [Sockets -> Seq(ToServer)]
    /\ down \in [Sockets -> Seq(ToClient)]
    /\ rooms \in [Channels -> Room]
    /\ creating \subseteq Sockets
    /\ peers \subseteq Sockets
    /\ members \subseteq Sockets
    /\ listed \in [Sockets -> SUBSET Producers]
    /\ owned \in [Sockets -> SUBSET Producers]
    /\ served \in [Sockets -> SUBSET Producers]
    /\ running \in [Sockets -> SUBSET Producers]
    /\ paused \subseteq Producers
    /\ making \in [Producers -> Making \cup {None}]
    /\ consuming \subseteq Sockets \X Producers
    /\ clicks \in [Users -> Nat]
    /\ toggles \in [Users -> Nat]
    /\ hasty \subseteq Users
    /\ raced \subseteq Users
    /\ late \subseteq Producers

-----------------------------------------------------------------------------
(* sfu-service.  An operator whose name ends in _Mutant is a plausible mistake *)
(* in the one it is named for, and part of no behaviour.                     *)

RoomOf(s) == rooms[channelOf[s]]

\* A handler that needs the room of a socket throws where there is none.
InRoom(s) == s \in members /\ RoomOf(s) # None

Asked(s, type) == up[s] # << >> /\ Head(up[s]).type = type

\* What a client that has closed its socket is sent is lost.
Reaches(s) == net[s] = "open"

Reply(s, messages) == [down EXCEPT ![s] = IF Reaches(s) THEN @ \o messages ELSE @]

Others(s) == {t \in members \ {s} : channelOf[t] = channelOf[s]}

\* A broadcast to the members of the room of s other than s itself.
Broadcast(s, messages) ==
    [t \in Sockets |-> IF t \in Others(s) /\ Reaches(t) THEN down[t] \o messages ELSE down[t]]

Taken(s) == up' = [up EXCEPT ![s] = Tail(@)]

HandleJoinRoom(s) ==
    /\ Asked(s, "join") /\ Taken(s)
    /\ members' = members \cup {s}
    /\ IF RoomOf(s) = None
       THEN /\ creating' = creating \cup {s}
            /\ UNCHANGED <<down, peers>>
       ELSE /\ peers' = peers \cup {s}
            /\ down' = Reply(s, <<[type |-> "joined"]>>)
            /\ UNCHANGED creating
    /\ UNCHANGED <<local, rooms, media, awaits, historyVars>>

\* The room is set without another look: it replaces one set meanwhile.
RouterCreated(s) ==
    /\ s \in creating
    /\ creating' = creating \ {s}
    /\ rooms' = [rooms EXCEPT ![channelOf[s]] = s]
    /\ peers' = peers \cup {s}
    /\ down' = Reply(s, <<[type |-> "joined"]>>)
    /\ UNCHANGED <<local, up, members, media, awaits, historyVars>>

HandleCreateTransport(s) ==
    /\ \E type \in {"send", "recv"} :
          /\ Asked(s, type) /\ Taken(s)
          /\ down' = IF InRoom(s) THEN Reply(s, <<[type |-> type, room |-> RoomOf(s)]>>) ELSE down
    /\ UNCHANGED <<local, serverVars, historyVars>>

\* The transport must be one of the room, and the socket must have a peer.
HandleProduce(s) ==
    LET request == Head(up[s]) IN
    /\ Asked(s, "produce") /\ Taken(s)
    /\ making' = IF InRoom(s) /\ request.room = RoomOf(s) /\ s \in peers
                 THEN [making EXCEPT ![request.producer] =
                           [room |-> request.room, paused |-> request.paused, socket |-> s]]
                 ELSE making
    /\ UNCHANGED <<local, down, seats, media, consuming, historyVars>>

PausedOnceMade_Mutant(p) == paused

PausedOnceMade(p) == IF making[p].paused THEN paused \cup {p} ELSE paused

\* The peer read before the await may have been removed: the producer is then
\* listed in the room, and on record with no peer.
ProducerMade(p) ==
    LET s == making[p].socket IN
    /\ making[p] # None
    /\ making' = [making EXCEPT ![p] = None]
    /\ paused' = PausedOnceMade(p)
    /\ down' = [Broadcast(s, <<[type |-> "producerJoined", producer |-> p]>>)
                   EXCEPT ![s] = Reply(s, <<[type |-> "produced", producer |-> p]>>)[s]]
    /\ listed' = [listed EXCEPT ![making[p].room] = @ \cup {p}]
    /\ owned' = [owned EXCEPT ![s] = IF s \in peers THEN @ \cup {p} ELSE @]
    /\ late' = IF s \in peers THEN late ELSE late \cup {p}
    /\ UNCHANGED <<local, up, seats, served, running, consuming, clicks, toggles, hasty,
                   raced>>

GetProducers(s) ==
    /\ Asked(s, "producers") /\ Taken(s)
    /\ down' = IF InRoom(s) THEN Reply(s, <<[type |-> "producers", producers |-> listed[RoomOf(s)]]>>) ELSE down
    /\ UNCHANGED <<local, serverVars, historyVars>>

\* Nothing is replied but null for a producer that is not, or no longer, listed.
HandleConsume(s) ==
    LET request == Head(up[s]) IN
    /\ Asked(s, "consume") /\ Taken(s)
    /\ <<s, request.producer>> \notin consuming
    /\ consuming' = IF InRoom(s) /\ request.room = RoomOf(s) /\ request.producer \in listed[RoomOf(s)]
                    THEN consuming \cup {<<s, request.producer>>} ELSE consuming
    /\ UNCHANGED <<local, down, seats, media, making, historyVars>>

\* It is made and replied even if the producer was closed meanwhile.
ConsumerMade(s, p) ==
    /\ <<s, p>> \in consuming
    /\ consuming' = consuming \ {<<s, p>>}
    /\ served' = [served EXCEPT ![s] = IF s \in peers THEN @ \cup {p} ELSE @]
    /\ running' = [running EXCEPT ![s] = IF s \in peers THEN @ \cup {p} ELSE @]
    /\ down' = Reply(s, <<[type |-> "consumer", producer |-> p]>>)
    /\ UNCHANGED <<local, up, seats, listed, owned, paused, making, historyVars>>

\* Every consumer of the peer is paused, or resumed, whichever the client names.
HandlePauseConsumer(s) ==
    /\ Asked(s, "pauseConsumers") /\ Taken(s)
    /\ running' = [running EXCEPT ![s] = {}]
    /\ UNCHANGED <<local, down, seats, listed, owned, served, paused, awaits,
                   historyVars>>

HandleResumeConsumer(s) ==
    /\ Asked(s, "resumeConsumers") /\ Taken(s)
    /\ running' = [running EXCEPT ![s] = served[s]]
    /\ UNCHANGED <<local, down, seats, listed, owned, served, paused, awaits,
                   historyVars>>

IsListed(s, p) == InRoom(s) /\ p \in listed[RoomOf(s)]

HandlePauseProducer(s) ==
    LET p == Head(up[s]).producer IN
    /\ Asked(s, "pause") /\ Taken(s)
    /\ paused' = IF IsListed(s, p) THEN paused \cup {p} ELSE paused
    /\ UNCHANGED <<local, down, seats, listed, owned, served, running, awaits,
                   historyVars>>

HandleResumeProducer(s) ==
    LET p == Head(up[s]).producer IN
    /\ Asked(s, "resume") /\ Taken(s)
    /\ paused' = IF IsListed(s, p) THEN paused \ {p} ELSE paused
    /\ UNCHANGED <<local, down, seats, listed, owned, served, running, awaits,
                   historyVars>>

\* The peer keeps a producer that was closed on its own on record.
HandleCloseProducer(s) ==
    LET p == Head(up[s]).producer IN
    /\ Asked(s, "closeProducer") /\ Taken(s)
    /\ IF IsListed(s, p)
       THEN /\ listed' = [listed EXCEPT ![RoomOf(s)] = @ \ {p}]
            /\ served' = [t \in Sockets |-> served[t] \ {p}]
            /\ running' = [t \in Sockets |-> running[t] \ {p}]
            /\ down' = Broadcast(s, <<[type |-> "closeProducer", producer |-> p]>>)
       ELSE UNCHANGED <<listed, served, running, down>>
    /\ UNCHANGED <<local, seats, owned, paused, awaits, historyVars>>

HandleCloseConsumer(s) ==
    LET p == Head(up[s]).producer IN
    /\ Asked(s, "closeConsumer") /\ Taken(s)
    /\ served' = [served EXCEPT ![s] = @ \ {p}]
    /\ running' = [running EXCEPT ![s] = @ \ {p}]
    /\ UNCHANGED <<local, down, seats, listed, owned, paused, awaits, historyVars>>

Closings(producers) == SetToSeq({[type |-> "closeProducer", producer |-> p] : p \in producers})

ListedOnceClosed_Mutant(s) == listed

ListedOnceClosed(s) == [listed EXCEPT ![RoomOf(s)] = @ \ owned[s]]

\* The transports of the peer, of which none is on record, stay.  What the
\* socket sent after its request is not taken: the server disconnects it.
HandleCloseClient(s) ==
    /\ Asked(s, "close")
    /\ IF s \in peers
       THEN /\ listed' = ListedOnceClosed(s)
            /\ peers' = peers \ {s} /\ members' = members \ {s}
            /\ owned' = [owned EXCEPT ![s] = {}]
            /\ served' = [served EXCEPT ![s] = {}] /\ running' = [running EXCEPT ![s] = {}]
            /\ down' = Broadcast(s, Closings(owned[s]))
            /\ up' = [up EXCEPT ![s] = << >>]
       ELSE Taken(s) /\ UNCHANGED <<listed, peers, members, owned, served, running, down>>
    /\ UNCHANGED <<local, rooms, creating, paused, awaits, historyVars>>

\* The end of a connection is not handled: what was registered for it stays.
Disconnected(s) ==
    /\ Asked(s, "bye") /\ Taken(s)
    /\ members' = members \ {s}
    /\ UNCHANGED <<local, down, rooms, creating, peers, media, awaits, historyVars>>

-----------------------------------------------------------------------------
(* The client: its user *)

\* What a click on a button asks of guild-service comes back as an event.
Click(u, type, c) ==
    /\ clicks[u] < Clicks[u]
    /\ clicks' = [clicks EXCEPT ![u] = @ + 1]
    /\ voice' = [voice EXCEPT ![u] = Append(@, [type |-> type, channel |-> c])]
    /\ UNCHANGED <<settings, store, calls, net, channelOf, loading, sending, receiving,
                   up, down, serverVars, toggles, hasty, raced, late>>

\* The header of a direct-message channel always offers to join, and to leave a
\* call one is shown in.
JoinCall(u, c) == c \notin VoiceChannels /\ Click(u, "join", c)

LeaveCall(u, c) == c \in calls[u] \ VoiceChannels /\ Click(u, "leave", c)

\* So does the button of a voice channel; that of the user area leaves the
\* channel the client is connected to.
JoinChannel(u, c) == c \in VoiceChannels /\ Click(u, "join", c)

HangUp(u) == store[u].channel # None /\ Click(u, "leave", store[u].channel)

\* The requests that a set of producers is sent, and the audio producers of a client.
Requests(type, producers) == SetToSeq({[type |-> type, producer |-> p] : p \in producers})

Microphones(u) == {p \in store[u].producers : IsAudio(p)}
ScreenOf(u) == {p \in store[u].producers : IsScreen(p)}

\* What the client asks of the server on its current socket; without one, nothing.
Sent(u, messages) ==
    [s \in Sockets |-> IF s = store[u].socket /\ net[s] # "closed" THEN up[s] \o messages ELSE up[s]]

\* A producer that is being made was given the setting of the moment it began.
IsBeingMade(t) == sending[t].mic \in {"asked", "given"} /\ <<t, "audio">> \notin store[UserOf(t)].producers

Raced(u) == IF \E t \in SocketsOf(u) : IsBeingMade(t) THEN raced \cup {u} ELSE raced \ {u}

\* The effect on isMuted acts on the producers that the store has.
FollowsMuted(u, muted) == Requests(IF muted THEN "pause" ELSE "resume", Microphones(u))

Undeafens_Mutant(u) == FALSE

Undeafens(u) == settings[u].deafened /\ settings[u].muted

\* Unmuting undeafens.
SetMuted(u) ==
    LET muted == ~settings[u].muted IN
    /\ toggles[u] < Toggles[u]
    /\ toggles' = [toggles EXCEPT ![u] = @ + 1]
    /\ settings' = [settings EXCEPT ![u] = [muted |-> muted, deafened |-> muted /\ @.deafened]]
    /\ up' = Sent(u, FollowsMuted(u, muted)
                     \o (IF Undeafens(u) THEN <<[type |-> "resumeConsumers"]>> ELSE << >>))
    /\ store' = [store EXCEPT ![u].silenced = IF Undeafens(u) THEN {} ELSE @]
    /\ raced' = Raced(u)
    /\ UNCHANGED <<calls, voice, net, channelOf, loading, sending, receiving, down,
                   serverVars, clicks, hasty, late>>

HasConsumer_Mutant(u, p) == TRUE

HasConsumer(u, p) == store[u].consumers[p] > 0

Held(u) == {p \in Producers : HasConsumer(u, p)}

\* The effect on isDeafened acts on the consumers that the store has.
SetDeafened(u) ==
    LET deafened == ~settings[u].deafened IN
    /\ toggles[u] < Toggles[u]
    /\ toggles' = [toggles EXCEPT ![u] = @ + 1]
    /\ settings' = [settings EXCEPT ![u].deafened = deafened]
    /\ up' = Sent(u, <<[type |-> IF deafened THEN "pauseConsumers" ELSE "resumeConsumers"]>>)
    /\ store' = [store EXCEPT ![u].silenced = IF deafened THEN {p \in Held(u) : IsAudio(p)} ELSE {}]
    /\ UNCHANGED <<calls, voice, net, channelOf, loading, sending, receiving, down,
                   serverVars, clicks, hasty, raced, late>>

\* The controls are in the header of a direct-message channel whose call shows the user.
ShowsControls(u) == calls[u] \ VoiceChannels # {}

\* The bound: a transport shares one screen.
StartScreenShare(u) ==
    LET t == store[u].send
        p == <<t, "screen">>
        k == sending[t].socket
    IN
    /\ u \in Sharers /\ ShowsControls(u) /\ ScreenOf(u) = {}
    /\ t # None /\ store[u].socket # None /\ store[u].channel # None
    /\ sending[t].share = FALSE
    /\ sending' = [sending EXCEPT ![t].share = TRUE]
    /\ up' = IF k # None /\ net[k] # "closed"
             THEN [up EXCEPT ![k] = Append(@, [type |-> "produce", producer |-> p, paused |-> FALSE,
                                               room |-> sending[t].room])]
             ELSE up
    /\ UNCHANGED <<clientVars, net, channelOf, loading, receiving, down, serverVars,
                   historyVars>>

StopScreenShare(u) ==
    /\ ShowsControls(u)
    /\ \E p \in ScreenOf(u) :
          /\ up' = Sent(u, Requests("closeProducer", {p}))
          /\ store' = [store EXCEPT ![u].producers = @ \ {p}]
    /\ UNCHANGED <<settings, calls, voice, net, channelOf, loading, sending, receiving,
                   down, serverVars, historyVars>>

\* What is played, and what is shown: a tile for each screen of others, and for
\* one's own; without any, the call shows its users only.
AudioElements(u) == {p \in Held(u) : IsAudio(p)}

Tiles(u) == {p \in Held(u) : IsScreen(p)} \cup ScreenOf(u)

-----------------------------------------------------------------------------
(* The client: voice events, and what the server sends *)

\* The requests with which a client takes its leave: of its screens it closes one.
Farewell(u) ==
    <<[type |-> "close"]>>
    \o (IF ScreenOf(u) = {} THEN << >> ELSE Requests("closeProducer", {CHOOSE p \in ScreenOf(u) : TRUE}))
    \o <<[type |-> "bye"]>>

\* The client of u closes its socket if it closes, and opens those in new.
SwapSocket(u, closes, new) ==
    LET Closed(s) == closes /\ s = store[u].socket IN
    /\ net' = [s \in Sockets |-> IF Closed(s) THEN "closed" ELSE IF s \in new THEN "connecting" ELSE net[s]]
    /\ up' = [s \in Sockets |-> IF ~Closed(s) THEN up[s]
                                ELSE IF Reaches(s) THEN up[s] \o Farewell(u) ELSE << >>]
    /\ down' = [s \in Sockets |-> IF Closed(s) THEN << >> ELSE down[s]]
    /\ sending' = [s \in Sockets |-> IF closes /\ s = store[u].send
                                     THEN [sending[s] EXCEPT !.mic = "closed"] ELSE sending[s]]

\* A socket is set up from the moment it is opened until its device is loaded.
Carries(queue, type) == \E i \in DOMAIN queue : queue[i].type = type

JoinUnderWay(s) == Carries(up[s], "join") \/ s \in creating \/ Carries(down[s], "joined")

IsSetUp(s) ==
    \/ net[s] = "connecting" \/ s \in loading
    \/ net[s] = "open" /\ JoinUnderWay(s)

SetsUp(u) == \E s \in SocketsOf(u) : IsSetUp(s)

Hasty(u) == IF SetsUp(u) THEN hasty \cup {u} ELSE hasty

\* A join of another channel leaves the one the client is connected to; the
\* socket the client may have does not keep it from opening a new one.
OnVoiceJoin(u) ==
    LET c == Head(voice[u]).channel
        switches == store[u].channel \notin {None, c}
    IN
    /\ voice[u] # << >> /\ Head(voice[u]).type = "join"
    /\ voice' = [voice EXCEPT ![u] = Tail(@) \o
           (IF switches THEN <<[type |-> "leave", channel |-> store[u].channel]>> ELSE << >>)]
    /\ calls' = [calls EXCEPT ![u] = @ \cup {c}]
    /\ \E s \in SocketsOf(u) :
          /\ net[s] = "unused" /\ \A t \in SocketsOf(u) : t[2] < s[2] => net[t] # "unused"
          /\ SwapSocket(u, switches, {s})
          /\ channelOf' = [channelOf EXCEPT ![s] = c]
          /\ store' = [store EXCEPT ![u] = [(IF switches THEN NoStore ELSE @) EXCEPT !.socket = s]]
    /\ hasty' = Hasty(u)
    /\ UNCHANGED <<settings, loading, receiving, serverVars, clicks, toggles, raced,
                   late>>

ClosesOnLeave_Mutant(u) == FALSE

\* The client closes on the event of its own leave of the channel it is connected to.
ClosesOnLeave(u) == Head(voice[u]).channel = store[u].channel

OnVoiceLeave(u) ==
    LET c == Head(voice[u]).channel IN
    /\ voice[u] # << >> /\ Head(voice[u]).type = "leave"
    /\ voice' = [voice EXCEPT ![u] = Tail(@)]
    /\ calls' = [calls EXCEPT ![u] = @ \ {c}]
    /\ SwapSocket(u, ClosesOnLeave(u), {})
    /\ store' = [store EXCEPT ![u] = IF ClosesOnLeave(u) THEN NoStore ELSE @]
    /\ hasty' = Hasty(u)
    /\ UNCHANGED <<settings, channelOf, loading, receiving, serverVars, clicks, toggles,
                   raced, late>>

\* What was asked before is sent before the request to join.
Connect(s) ==
    /\ net[s] = "connecting"
    /\ net' = [net EXCEPT ![s] = "open"]
    /\ up' = [up EXCEPT ![s] = Append(@, [type |-> "join"])]
    /\ UNCHANGED <<clientVars, channelOf, loading, sending, receiving, down, serverVars,
                   historyVars>>

Told(s, type) == down[s] # << >> /\ Head(down[s]).type = type

Heard(s) == down' = [down EXCEPT ![s] = Tail(@)]

OnRoomJoined(s) ==
    /\ Told(s, "joined") /\ Heard(s)
    /\ loading' = loading \cup {s}
    /\ UNCHANGED <<clientVars, net, channelOf, sending, receiving, up, serverVars,
                   historyVars>>

\* Device and channel are set even if the client has closed meanwhile.
DeviceLoaded(s) ==
    LET u == UserOf(s) IN
    /\ s \in loading
    /\ loading' = loading \ {s}
    /\ store' = [store EXCEPT ![u].device = TRUE, ![u].channel = channelOf[s]]
    /\ up' = IF net[s] = "open" THEN [up EXCEPT ![s] = @ \o <<[type |-> "send"], [type |-> "recv"]>>] ELSE up
    /\ UNCHANGED <<settings, calls, voice, net, channelOf, sending, receiving, down,
                   serverVars, historyVars>>

OnCreateSendTransport(s) ==
    LET u == UserOf(s) IN
    /\ Told(s, "send") /\ Heard(s)
    /\ IF store[u].device
       THEN /\ sending' = [sending EXCEPT ![s] = [mic |-> "asked", room |-> Head(down[s]).room, share |-> FALSE,
                                                  socket |-> store[u].socket, muted |-> settings[u].muted]]
            /\ store' = [store EXCEPT ![u].send = s]
       ELSE UNCHANGED <<sending, store>>
    /\ UNCHANGED <<settings, calls, voice, net, channelOf, loading, receiving, up,
                   serverVars, historyVars>>

\* The user has let the microphone be used.
Produce(t) ==
    LET k == sending[t].socket IN
    /\ sending[t].mic = "asked"
    /\ sending' = [sending EXCEPT ![t].mic = "given"]
    /\ up' = IF k # None /\ net[k] # "closed"
             THEN [up EXCEPT ![k] = Append(@, [type |-> "produce", producer |-> <<t, "audio">>,
                                               paused |-> sending[t].muted, room |-> sending[t].room])]
             ELSE up
    /\ UNCHANGED <<clientVars, net, channelOf, loading, receiving, down, serverVars,
                   historyVars>>

OnProduced(s) ==
    LET p == Head(down[s]).producer
        u == UserOf(s)
    IN
    /\ Told(s, "produced") /\ Heard(s)
    /\ store' = IF sending[TransportOf(p)].mic = "closed" THEN store
                ELSE [store EXCEPT ![u].producers = @ \cup {p}]
    /\ UNCHANGED <<settings, calls, voice, net, channelOf, loading, sending, receiving,
                   up, serverVars, historyVars>>

OnCreateRecvTransport(s) ==
    LET u == UserOf(s) IN
    /\ Told(s, "recv") /\ Heard(s)
    /\ IF store[u].device
       THEN /\ store' = [store EXCEPT ![u].recv = s]
            /\ receiving' = [receiving EXCEPT ![s] = Head(down[s]).room]
            /\ up' = IF store[u].channel = None THEN up ELSE Sent(u, <<[type |-> "producers"]>>)
       ELSE UNCHANGED <<store, receiving, up>>
    /\ UNCHANGED <<settings, calls, voice, net, channelOf, loading, sending, serverVars,
                   historyVars>>

CanConsume(u) == store[u].device /\ store[u].recv # None

\* createConsumer: of the producers of other users, if there is a transport.
Consumptions(u, producers) ==
    IF ~CanConsume(u) THEN << >>
    ELSE SetToSeq({[type |-> "consume", producer |-> p, room |-> receiving[store[u].recv]] :
                      p \in {q \in producers : OwnerOf(q) # u}})

OnGetChannelProducers(s) ==
    /\ Told(s, "producers") /\ Heard(s)
    /\ up' = Sent(UserOf(s), Consumptions(UserOf(s), Head(down[s]).producers))
    /\ UNCHANGED <<local, serverVars, historyVars>>

IsListening_Mutant(s) == FALSE

IsListening(s) == s = store[UserOf(s)].socket

\* Only the socket in the store is listened to.
OnProducerJoined(s) ==
    /\ Told(s, "producerJoined") /\ Heard(s)
    /\ up' = IF IsListening(s) THEN Sent(UserOf(s), Consumptions(UserOf(s), {Head(down[s]).producer})) ELSE up
    /\ UNCHANGED <<local, serverVars, historyVars>>

\* A new consumer is not paused, deafened or not; the server does not
\* acknowledge the request to resume.
OnConsumerCreated(s) ==
    LET u == UserOf(s)
        p == Head(down[s]).producer
    IN
    /\ Told(s, "consumer") /\ Heard(s)
    /\ IF store[u].recv = None THEN UNCHANGED <<store, up>>
       ELSE /\ store' = [store EXCEPT ![u].consumers[p] = @ + 1, ![u].silenced = @ \ {p}]
            /\ up' = IF IsScreen(p) THEN up ELSE Sent(u, <<[type |-> "resumeConsumers"]>>)
    /\ UNCHANGED <<settings, calls, voice, net, channelOf, loading, sending, receiving,
                   serverVars, historyVars>>

\* One consumer of the producer is removed, the first found.
OnCloseProducer(s) ==
    LET u == UserOf(s)
        p == Head(down[s]).producer
    IN
    /\ Told(s, "closeProducer") /\ Heard(s)
    /\ IF IsListening(s) /\ HasConsumer(u, p)
       THEN /\ store' = [store EXCEPT ![u].consumers[p] = @ - 1]
            /\ up' = Sent(u, Requests("closeConsumer", {p}))
       ELSE UNCHANGED <<store, up>>
    /\ UNCHANGED <<settings, calls, voice, net, channelOf, loading, sending, receiving,
                   serverVars, historyVars>>

-----------------------------------------------------------------------------
Init ==
    /\ settings = [u \in Users |-> [muted |-> FALSE, deafened |-> FALSE]]
    /\ store = [u \in Users |-> NoStore]
    /\ calls = [u \in Users |-> {}]
    /\ voice = [u \in Users |-> << >>]
    /\ net = [s \in Sockets |-> "unused"]
    /\ channelOf = [s \in Sockets |-> None]
    /\ loading = {}
    /\ sending = [s \in Sockets |-> NoTransport]
    /\ receiving = [s \in Sockets |-> None]
    /\ up = [s \in Sockets |-> << >>] /\ down = [s \in Sockets |-> << >>]
    /\ rooms = [c \in Channels |-> None]
    /\ creating = {} /\ peers = {} /\ members = {}
    /\ listed = [s \in Sockets |-> {}]
    /\ owned = [s \in Sockets |-> {}]
    /\ served = [s \in Sockets |-> {}] /\ running = [s \in Sockets |-> {}]
    /\ paused = {}
    /\ making = [p \in Producers |-> None]
    /\ consuming = {}
    /\ clicks = [u \in Users |-> 0] /\ toggles = [u \in Users |-> 0]
    /\ hasty = {} /\ raced = {} /\ late = {}

UserStep(u) ==
    \/ \E c \in Channels : JoinCall(u, c) \/ JoinChannel(u, c) \/ LeaveCall(u, c)
    \/ HangUp(u)
    \/ SetMuted(u) \/ SetDeafened(u)
    \/ StartScreenShare(u) \/ StopScreenShare(u)

ClientStep(s) ==
    \/ Connect(s) \/ OnRoomJoined(s) \/ DeviceLoaded(s)
    \/ OnCreateSendTransport(s) \/ Produce(s) \/ OnProduced(s)
    \/ OnCreateRecvTransport(s) \/ OnGetChannelProducers(s) \/ OnProducerJoined(s)
    \/ OnConsumerCreated(s) \/ OnCloseProducer(s)

ServerStep(s) ==
    \/ HandleJoinRoom(s) \/ RouterCreated(s) \/ HandleCreateTransport(s)
    \/ HandleProduce(s) \/ GetProducers(s) \/ HandleConsume(s)
    \/ HandlePauseConsumer(s) \/ HandleResumeConsumer(s)
    \/ HandlePauseProducer(s) \/ HandleResumeProducer(s)
    \/ HandleCloseProducer(s) \/ HandleCloseConsumer(s)
    \/ HandleCloseClient(s) \/ Disconnected(s)
    \/ \E p \in Producers : ConsumerMade(s, p)

SystemStep ==
    \/ \E u \in Users : OnVoiceJoin(u) \/ OnVoiceLeave(u)
    \/ \E s \in Sockets : ClientStep(s) \/ ServerStep(s)
    \/ \E p \in Producers : ProducerMade(p)

Next == SystemStep \/ \E u \in Users : UserStep(u)

Spec == Init /\ [][Next]_vars
-----------------------------------------------------------------------------
(* Properties *)

\* Nothing is under way; what waits is for a user to act.
Quiet ==
    /\ \A u \in Users : voice[u] = << >>
    /\ \A s \in Sockets : up[s] = << >> /\ down[s] = << >>
                          /\ net[s] # "connecting" /\ sending[s].mic # "asked"
    /\ loading = {} /\ creating = {} /\ consuming = {}
    /\ \A p \in Producers : making[p] = None

\* The socket of u's client is the peer of a room, and its transports are of that room.
Attends(u) ==
    LET s == store[u].socket IN
    /\ s # None /\ s \in peers
    /\ store[u].recv # None /\ receiving[store[u].recv] = RoomOf(s)

Missed(u, p) == Attends(u) /\ OwnerOf(p) # u /\ p \in listed[RoomOf(store[u].socket)] \ (AudioElements(u) \cup Tiles(u))

\* Once nothing is under way, a client whose transports are those of its room
\* plays or shows every producer the room lists for another user: one that it
\* missed in GET_PRODUCERS was announced, one announced too early was in the
\* reply.
EveryoneIsHeard ==
    Quiet => \A u \in Users : \A p \in Producers : ~Missed(u, p)

\* A producer that a room lists is on record with a peer, so that it goes when
\* the peer's client closes; one made after that stays for good.
ListedHasPeer ==
    \A c \in Channels : rooms[c] # None =>
        \A p \in listed[rooms[c]] : p \in late \/ \E s \in peers : p \in owned[s]

\* The socket of u's client is the only one it has open.
HasOneSocket(u) ==
    /\ store[u].socket # None
    /\ \A s \in SocketsOf(u) : net[s] \in {"connecting", "open"} => s = store[u].socket

\* Once nothing is under way, of the microphones its room lists the server has
\* paused that of a user who is muted and no other, unless the user muted or
\* unmuted while it was made.
MuteIsHonoured ==
    Quiet => \A u \in Users \ raced : HasOneSocket(u) =>
        \A p \in Microphones(u) \cap listed[RoomOf(store[u].socket)] : p \in paused <=> settings[u].muted

\* Once nothing is under way, a client is connected to media if and only if
\* its user is in a call, unless the user joined or left while it was set up.
MediaFollowsCall ==
    Quiet => \A u \in Users \ hasty :
        /\ store[u].channel # None => store[u].channel \in calls[u]
        /\ calls[u] # {} => store[u].socket # None

\* Once nothing is under way, a user who is not deafened hears every listed
\* microphone its client has a consumer of: it runs on the server and here.
UndeafenedHears ==
    Quiet => \A u \in Users : ~settings[u].deafened /\ Attends(u) =>
        \A p \in Held(u) \cap listed[RoomOf(store[u].socket)] : IsAudio(p) =>
            p \in running[store[u].socket] /\ p \notin store[u].silenced
=============================================================================
