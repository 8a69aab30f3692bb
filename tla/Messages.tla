------------------------------ MODULE Messages ------------------------------
(***************************************************************************)
(* The messages of one channel, of two users or of a guild: message-       *)
(* service stores them, guild-service counts them and remembers what was   *)
(* read, and the clients of the users show a list and a count.             *)
(*                                                                         *)
(* Handlers interleave between their commands to the database and to       *)
(* Redis.  A message goes to everyone but its sender; the events of a      *)
(* client keep their order unless they have several recipients.            *)
(***************************************************************************)
EXTENDS Integers, FiniteSets, SequencesExt

CONSTANTS
    Users,     \* the recipients of the channel, or the members who can view it
    InGuild,   \* whether it is a text channel of a guild
    Late,      \* the users whose client loads while messages are sent
    Inviters,  \* the users who may send a message from the invite dialog of a guild
    Messages,  \* bound: the messages that are ever sent
    Visits,    \* bound: how often each user opens the channel
    sender,    \* sender[m]: the user who may send m
    NoEntry,   \* no last message, no message read
    NoList,    \* no messages in the client's cache
    Faults     \* whether saving, uploading and fetching can fail

ASSUME MessagesAssumption ==
    /\ IsFiniteSet(Messages)
    /\ InGuild \in BOOLEAN
    /\ ~InGuild => Cardinality(Users) = 2
    /\ Late \subseteq Users
    /\ Inviters \subseteq IF InGuild THEN {} ELSE Users
    /\ Visits \in [Users -> Nat]
    /\ sender \in [Messages -> Users]
    /\ NoEntry \notin Messages \cup [msg : Messages, slot : Nat]
    /\ NoList \notin Seq([msg : Messages, slot : Nat])
    /\ Faults \in BOOLEAN

VARIABLES
    sending,      \* sending[m]: how far message-service is with m
    slot,         \* slot[m]: the number in the provisional id of m, until the reply
    reused,       \* the messages a fetch showed before their reply, whose number went to a
                  \* later message since
    invited,      \* the messages that were sent from the invite dialog
    saved,        \* the messages in the database, oldest first
    counting,     \* counting[m]: how far guild-service is with MESSAGE_CREATED of m
    acks,         \* the acknowledgements under way
    lastMessage,  \* channel.lastMessageId
    lastRead,     \* lastRead[u]: the message u's row of user_channel_states names
    unread,       \* unread[u]: u's unread count in Redis
    inbox,        \* inbox[u]: the events under way to u's client
    load,         \* load[u]: how far u's client is with loading
    visits,       \* visits[u]: how often u has opened the channel
    open,         \* the users whose client has the channel open
    view,         \* view[u]: the channel as u's client keeps it
    list,         \* list[u]: the messages u's client caches
    stale,        \* the users whose cached list is to be fetched again
    fetch         \* fetch[u]: the request for the messages u's client has made

server == <<sending, saved, counting, acks, lastMessage, lastRead, unread>>
client == <<visits, open, view, list, stale, fetch>>
vars == <<slot, reused, invited, server, inbox, load, client>>

-----------------------------------------------------------------------------
\* A message as a client knows it: under its id (slot 0), or under a provisional one that
\* says how long the list was.
Entry == [msg : Messages, slot : Nat]

Shown(m) == [msg |-> m, slot |-> 0]

View == [last : Entry \cup {NoEntry}, read : Entry \cup {NoEntry}, unread : Nat]

\* What the gateway has gathered for a client that is loading.
Loading == [stage : {"off", "asked", "on"}]
           \cup [stage : {"row"}, last : Messages \cup {NoEntry}]
           \cup [stage : {"state"}, last : Messages \cup {NoEntry}, read : Messages \cup {NoEntry}]
           \cup [stage : {"answered"}]

Event == [msg : Messages] \cup [snapshot : View]

Counting == [stage : {"none", "row", "done"}]
            \cup [stage : {"get"}, left : SUBSET Users]
            \cup [stage : {"set"}, left : SUBSET Users, user : Users, count : Nat]

Request == [stage : {"none", "asked"}] \cup [stage : {"read"}, found : Seq(Messages)]

\* Every variable has its type.
TypeOK ==
    /\ sending \in [Messages -> {"new", "asked", "saved", "sent", "failed", "done"}]
    /\ slot \in [Messages -> Nat]
    /\ saved \in Seq(Messages)
    /\ reused \subseteq Messages
    /\ invited \subseteq Messages
    /\ counting \in [Messages -> Counting]
    /\ acks \subseteq [user : Users, msg : Messages, stage : {"save", "reset"}]
    /\ lastMessage \in Messages \cup {NoEntry}
    /\ lastRead \in [Users -> Messages \cup {NoEntry}]
    /\ unread \in [Users -> Nat]
    /\ inbox \in [Users -> Seq(Event)]
    /\ load \in [Users -> Loading]
    /\ visits \in [Users -> Nat]
    /\ \A u \in Users : visits[u] <= Visits[u]
    /\ open \subseteq Users
    /\ view \in [Users -> View]
    /\ list \in [Users -> Seq(Entry) \cup {NoList}]
    /\ stale \subseteq Users
    /\ fetch \in [Users -> Request]

To(m, stage) == sending' = [sending EXCEPT ![m] = stage]

-----------------------------------------------------------------------------
(* Clients.  An operator whose name ends in _Mutant is a plausible mistake   *)
(* in the one it is named for, and part of no behaviour.                     *)

Loaded(u) == load[u].stage = "on"

\* A list that is set counts as fresh.
Cache(u, entries) ==
    /\ list' = [list EXCEPT ![u] = entries]
    /\ stale' = stale \ {u}

\* A cache that was empty stays empty, as a list: the change that was meant for it is lost.
CacheChanged(u, entries) == Cache(u, IF list[u] = NoList THEN << >> ELSE entries)

Fetching(u, stage) == fetch' = [fetch EXCEPT ![u] = [stage |-> stage]]

\* A channel that is opened fetches its messages, unless the cache has them.
Open(u) ==
    /\ Loaded(u)
    /\ u \notin open /\ visits[u] < Visits[u]
    /\ visits' = [visits EXCEPT ![u] = @ + 1]
    /\ open' = open \cup {u}
    /\ IF (list[u] = NoList \/ u \in stale) /\ fetch[u].stage = "none"
       THEN Fetching(u, "asked")
       ELSE UNCHANGED fetch
    /\ UNCHANGED <<slot, reused, invited, server, inbox, load, view, list, stale>>

FetchRead(u) ==
    /\ fetch[u].stage = "asked"
    /\ fetch' = [fetch EXCEPT ![u] = [stage |-> "read", found |-> saved]]
    /\ UNCHANGED <<slot, reused, invited, server, inbox, load, visits, open, view, list, stale>>

\* What was fetched replaces the cached list.
FetchReply(u) ==
    /\ fetch[u].stage = "read"
    /\ Cache(u, [i \in DOMAIN fetch[u].found |-> Shown(fetch[u].found[i])])
    /\ Fetching(u, "none")
    /\ UNCHANGED <<slot, reused, invited, server, inbox, load, visits, open, view>>

\* A request that fails counts as one that found nothing.
FetchFails(u) ==
    /\ Faults
    /\ fetch[u].stage = "asked"
    /\ Cache(u, << >>)
    /\ Fetching(u, "none")
    /\ UNCHANGED <<slot, reused, invited, server, inbox, load, visits, open, view>>

\* The cache drops a list that no page has used for a while.
Collect(u) ==
    /\ u \notin open
    /\ list[u] # NoList
    /\ fetch[u].stage = "none"
    /\ Cache(u, NoList)
    /\ UNCHANGED <<slot, reused, invited, server, inbox, load, visits, open, view, fetch>>

\* Closing a channel acknowledges its last message, unless it is read.
Close(u) ==
    /\ u \in open
    /\ open' = open \ {u}
    /\ IF view[u].last \in {NoEntry, view[u].read}
       THEN UNCHANGED <<view, acks>>
       ELSE /\ view' = [view EXCEPT ![u].read = view[u].last, ![u].unread = 0]
            /\ acks' = acks \cup {[user |-> u, msg |-> view[u].last.msg, stage |-> "save"]}
    /\ UNCHANGED <<slot, reused, invited, sending, saved, counting, lastMessage, lastRead, unread,
                   inbox, load, visits, list, stale, fetch>>

Own_Mutant(entry) == [last |-> entry, read |-> NoEntry, unread |-> 0]

\* The user's own message is the last one, and is read.
Own(entry) == [last |-> entry, read |-> entry, unread |-> 0]

\* The number in a provisional id: one more than the messages that are listed.
Place(u) == IF list[u] = NoList THEN 1 ELSE Len(list[u]) + 1

\* The unanswered messages of u that the list shows as they were stored, and whose number
\* the next message gets.
Overtaken(u) ==
    {m \in Messages : /\ sender[m] = u /\ slot[m] = Place(u)
                      /\ list[u] # NoList /\ Shown(m) \in ToSet(list[u])}

Pending(u, m) ==
    LET entry == [msg |-> m, slot |-> Place(u)] IN
    /\ sending[m] = "new"
    /\ sender[m] = u
    /\ To(m, "asked")
    /\ slot' = [slot EXCEPT ![m] = entry.slot]
    /\ reused' = reused \cup Overtaken(u)
    /\ CacheChanged(u, Append(list[u], entry))
    /\ UNCHANGED <<saved, counting, acks, lastMessage, lastRead, unread, inbox, load, visits,
                   open, fetch>>

SendNow(u, m) ==
    /\ Pending(u, m)
    /\ view' = [view EXCEPT ![u] = Own([msg |-> m, slot |-> Place(u)])]
    /\ UNCHANGED invited

\* The message is shown under a provisional id until the reply.  Without a list its place in
\* it cannot be computed, and nothing is sent.
Send(u, m) ==
    /\ ~InGuild
    /\ u \in open
    /\ list[u] # NoList
    /\ SendNow(u, m)

\* In a guild, a message that is sent without a list is sent, and not shown.
SendInGuild(u, m) ==
    /\ InGuild
    /\ u \in open
    /\ SendNow(u, m)

\* The invite dialog sends its link with the code for guild channels, which does not find
\* the channel of the friend among them.
SendInvite(u, m) ==
    /\ u \in Inviters /\ Loaded(u) /\ u \notin open
    /\ Pending(u, m)
    /\ invited' = invited \cup {m}
    /\ UNCHANGED view

Replaced_Mutant(entries, m) == Append(entries, Shown(m))

\* The reply's message takes the place of what has the provisional id, if anything has.
Replaced(entries, m) ==
    [i \in DOMAIN entries |-> IF entries[i].slot = slot[m] THEN Shown(m) ELSE entries[i]]

Answered(m, stage) ==
    /\ sending[m] = stage
    /\ To(m, "done")
    /\ slot' = [slot EXCEPT ![m] = 0]
    /\ UNCHANGED <<reused, invited, saved, counting, acks, lastMessage, lastRead, unread, inbox,
                   load, visits, open>>

SendReply(m) ==
    LET u == sender[m] IN
    /\ m \notin invited
    /\ Answered(m, "sent")
    /\ view' = [view EXCEPT ![u] = Own(Shown(m))]
    /\ CacheChanged(u, Replaced(list[u], m))
    /\ UNCHANGED fetch

\* After a failure the provisional message stays as it is: the code that would mark it reads
\* a variable too early, and throws.
FailureReply(m) ==
    LET u == sender[m] IN
    /\ m \notin invited
    /\ Answered(m, "failed")
    /\ IF list[u] \in {NoList, << >>} THEN Cache(u, << >>) ELSE UNCHANGED <<list, stale>>
    /\ UNCHANGED <<view, fetch>>

\* The dialog has no provisional message to look for: with a list it throws, and leaves its
\* message pending; without one it asks for the messages to be fetched again.
InviteReply(m) ==
    LET u == sender[m] IN
    /\ m \in invited
    /\ \E stage \in {"sent", "failed"} : Answered(m, stage)
    /\ IF list[u] \notin {NoList, << >>} THEN UNCHANGED <<list, stale, fetch>>
       ELSE /\ list' = [list EXCEPT ![u] = << >>]
            /\ IF u \in open
               THEN Fetching(u, "asked") /\ UNCHANGED stale
               ELSE stale' = stale \cup {u} /\ UNCHANGED fetch
    /\ UNCHANGED view

\* A client loads: it asks the gateway for what it is to show.
Load(u) ==
    /\ load[u].stage = "off"
    /\ load' = [load EXCEPT ![u] = [stage |-> "asked"]]
    /\ UNCHANGED <<slot, reused, invited, server, inbox, client>>

Taken(u, i) == inbox' = [inbox EXCEPT ![u] = RemoveAt(@, i)]

TakeSnapshot(u, i) ==
    /\ "snapshot" \in DOMAIN inbox[u][i]
    /\ Taken(u, i)
    /\ view' = [view EXCEPT ![u] = inbox[u][i].snapshot]
    /\ load' = [load EXCEPT ![u] = [stage |-> "on"]]
    /\ UNCHANGED <<slot, reused, invited, server, visits, open, list, stale, fetch>>

\* A message that arrives counts as unread, whether or not the channel is open.  A client
\* that is loading does not know the channel, and drops it.
Receive(u, i) ==
    LET event == inbox[u][i] IN
    /\ "msg" \in DOMAIN event
    /\ Taken(u, i)
    /\ IF Loaded(u)
       THEN /\ view' = [view EXCEPT ![u].last = Shown(event.msg), ![u].unread = @ + 1]
            /\ CacheChanged(u, Append(list[u], Shown(event.msg)))
       ELSE UNCHANGED <<view, list, stale>>
    /\ UNCHANGED <<slot, reused, invited, server, load, visits, open, fetch>>

-----------------------------------------------------------------------------
(* message-service *)

Recipients(m) == Users \ {sender[m]}

\* The recipients whose counts are still to be raised, one after the other.
CountFor(m, left) ==
    counting' = [counting EXCEPT ![m] = IF left = {} THEN [stage |-> "row"]
                                        ELSE [stage |-> "get", left |-> left]]

Save(m) ==
    /\ sending[m] = "asked"
    /\ saved' = Append(saved, m)
    /\ To(m, "saved")
    /\ UNCHANGED <<slot, reused, invited, counting, acks, lastMessage, lastRead, unread, inbox,
                   load, client>>

\* The message cannot be saved, or the mentions after it: then it is stored and never announced.
FailSave(m) ==
    /\ Faults
    /\ sending[m] \in {"asked", "saved"}
    /\ To(m, "failed")
    /\ UNCHANGED <<slot, reused, invited, saved, counting, acks, lastMessage, lastRead, unread,
                   inbox, load, client>>

\* The acknowledgement for the sender goes its own way.
Publish(m) ==
    /\ sending[m] = "saved"
    /\ To(m, "sent")
    /\ CountFor(m, Recipients(m))
    /\ acks' = acks \cup {[user |-> sender[m], msg |-> m, stage |-> "save"]}
    /\ UNCHANGED <<slot, reused, invited, saved, lastMessage, lastRead, unread, inbox, load,
                   client>>

FailUpload_Mutant(m) ==
    /\ Faults
    /\ sending[m] \in {"saved", "sent"}
    /\ \E i \in DOMAIN saved : saved[i] = m /\ saved' = RemoveAt(saved, i)
    /\ To(m, "failed")
    /\ UNCHANGED <<slot, reused, invited, counting, acks, lastMessage, lastRead, unread, inbox,
                   load, client>>

\* A message whose upload fails is deleted before anybody is told of it.
FailUpload(m) ==
    /\ Faults
    /\ sending[m] = "saved"
    /\ \E i \in DOMAIN saved : saved[i] = m /\ saved' = RemoveAt(saved, i)
    /\ To(m, "failed")
    /\ UNCHANGED <<slot, reused, invited, counting, acks, lastMessage, lastRead, unread, inbox,
                   load, client>>

-----------------------------------------------------------------------------
(* guild-service *)

\* The count is read here and written in the next step, for one recipient after the other.
CountGet(m) ==
    /\ counting[m].stage = "get"
    /\ \E u \in counting[m].left :
         counting' = [counting EXCEPT ![m] = [stage |-> "set", left |-> @.left \ {u}, user |-> u,
                                              count |-> unread[u]]]
    /\ UNCHANGED <<slot, reused, invited, sending, saved, acks, lastMessage, lastRead, unread,
                   inbox,
                   load, client>>

Counted_Mutant(count) == count + 2

Counted(count) == count + 1

CountSet(m) ==
    LET c == counting[m] IN
    /\ c.stage = "set"
    /\ unread' = [unread EXCEPT ![c.user] = Counted(c.count)]
    /\ CountFor(m, c.left)
    /\ UNCHANGED <<slot, reused, invited, sending, saved, acks, lastMessage, lastRead, inbox,
                   load, client>>

CountRow_Mutant(m) ==
    /\ counting[m].stage = "row"
    /\ lastMessage' = m
    /\ counting' = [counting EXCEPT ![m] = [stage |-> "done"]]
    /\ UNCHANGED <<slot, reused, invited, sending, saved, acks, lastRead, unread, inbox, load,
                   client>>

\* The channel's row is saved, then the message goes out to whoever is connected.
CountRow(m) ==
    /\ counting[m].stage = "row"
    /\ lastMessage' = m
    /\ inbox' = [u \in Users |-> IF u \in Recipients(m) /\ load[u].stage # "off"
                                THEN Append(inbox[u], [msg |-> m]) ELSE inbox[u]]
    /\ counting' = [counting EXCEPT ![m] = [stage |-> "done"]]
    /\ UNCHANGED <<slot, reused, invited, sending, saved, acks, lastRead, unread, load, client>>

\* The row cannot be saved: the message is stored and counted, and nobody is told of it.
CountFails(m) ==
    /\ Faults
    /\ counting[m].stage = "row"
    /\ counting' = [counting EXCEPT ![m] = [stage |-> "done"]]
    /\ UNCHANGED <<slot, reused, invited, sending, saved, acks, lastMessage, lastRead, unread,
                   inbox, load, client>>

AckSave(ack) ==
    /\ ack.stage = "save"
    /\ lastRead' = [lastRead EXCEPT ![ack.user] = ack.msg]
    /\ acks' = (acks \ {ack}) \cup {[ack EXCEPT !.stage = "reset"]}
    /\ UNCHANGED <<slot, reused, invited, sending, saved, counting, lastMessage, unread, inbox,
                   load, client>>

AckReset(ack) ==
    /\ ack.stage = "reset"
    /\ unread' = [unread EXCEPT ![ack.user] = 0]
    /\ acks' = acks \ {ack}
    /\ UNCHANGED <<slot, reused, invited, sending, saved, counting, lastMessage, lastRead, inbox,
                   load, client>>

-----------------------------------------------------------------------------
(* Loading: the rows of channels are read first, then the message the user   *)
(* has read, then the count.  A count that is not cached is shown as 0.      *)

At(u, stage) == load[u].stage = stage

LoadRow(u) ==
    /\ At(u, "asked")
    /\ load' = [load EXCEPT ![u] = [stage |-> "row", last |-> lastMessage]]
    /\ UNCHANGED <<slot, reused, invited, server, inbox, client>>

LoadState(u) ==
    /\ At(u, "row")
    /\ load' = [load EXCEPT ![u] = [stage |-> "state", last |-> @.last, read |-> lastRead[u]]]
    /\ UNCHANGED <<slot, reused, invited, server, inbox, client>>

\* A message as it was stored, if there is one.
Stored(m) == IF m = NoEntry THEN NoEntry ELSE Shown(m)

LoadCount(u) ==
    LET known == [last |-> Stored(load[u].last), read |-> Stored(load[u].read),
                  unread |-> unread[u]] IN
    /\ At(u, "state")
    /\ inbox' = [inbox EXCEPT ![u] = Append(@, [snapshot |-> known])]
    /\ load' = [load EXCEPT ![u] = [stage |-> "answered"]]
    /\ UNCHANGED <<slot, reused, invited, server, client>>

-----------------------------------------------------------------------------
Init ==
    /\ sending = [m \in Messages |-> "new"]
    /\ slot = [m \in Messages |-> 0]
    /\ reused = {}
    /\ invited = {}
    /\ saved = << >>
    /\ counting = [m \in Messages |-> [stage |-> "none"]]
    /\ acks = {}
    /\ lastMessage = NoEntry
    /\ lastRead = [u \in Users |-> NoEntry]
    /\ unread = [u \in Users |-> 0]
    /\ inbox = [u \in Users |-> << >>]
    /\ load = [u \in Users |-> [stage |-> IF u \in Late THEN "off" ELSE "on"]]
    /\ visits = [u \in Users |-> 0]
    /\ open = {}
    /\ view = [u \in Users |-> [last |-> NoEntry, read |-> NoEntry, unread |-> 0]]
    /\ list = [u \in Users |-> NoList]
    /\ stale = {}
    /\ fetch = [u \in Users |-> [stage |-> "none"]]

UserStep(u) ==
    \/ Load(u) \/ Open(u) \/ Close(u) \/ Collect(u)
    \/ \E m \in Messages : Send(u, m) \/ SendInGuild(u, m) \/ SendInvite(u, m)

LoadStep(u) == LoadRow(u) \/ LoadState(u) \/ LoadCount(u)

\* The only recipient of every message gets them in order.
ReceiveStep(u) ==
    \E i \in DOMAIN inbox[u] : (i = 1 \/ InGuild) /\ (TakeSnapshot(u, i) \/ Receive(u, i))

FetchStep(u) == FetchRead(u) \/ FetchReply(u) \/ FetchFails(u)

SendStep(m) ==
    \/ Save(m) \/ FailSave(m) \/ Publish(m) \/ FailUpload(m)
    \/ SendReply(m) \/ FailureReply(m) \/ InviteReply(m)

CountStep(m) == CountGet(m) \/ CountSet(m) \/ CountRow(m) \/ CountFails(m)

AckStep == \E ack \in acks : AckSave(ack) \/ AckReset(ack)

Next ==
    \/ \E u \in Users : UserStep(u) \/ LoadStep(u) \/ FetchStep(u) \/ ReceiveStep(u)
    \/ \E m \in Messages : SendStep(m) \/ CountStep(m)
    \/ AckStep

Spec == Init /\ [][Next]_vars

\* What the event loops, the queue and the sockets have to do gets done.
Fairness ==
    /\ \A u \in Users : WF_vars(FetchStep(u)) /\ WF_vars(ReceiveStep(u)) /\ WF_vars(LoadStep(u))
    /\ \A m \in Messages : WF_vars(SendStep(m)) /\ WF_vars(CountStep(m))

FairSpec == Spec /\ Fairness

-----------------------------------------------------------------------------
(* Properties.  They read users and messages off the state, so that they can be stated of   *)
(* instances that differ in both.                                                           *)

\* No message is counted twice: however gets and sets of the count interleave with each
\* other and with acknowledgements, a user has at most as many unread messages as the other
\* has sent (channels.service.ts:1193, which reads and writes the count in two commands).
UnreadIsBounded ==
    \A u \in DOMAIN unread :
        unread[u] <= Cardinality({m \in DOMAIN counting : /\ sender[m] # u
                                                         /\ counting[m].stage # "none"})

\* A message that is deleted because its upload failed was never the last message of the
\* channel, nor the last that somebody read, nor on its way to a client
\* (messages.service.ts:142-150 deletes it, 153-164 announce it).
PointersAreStored ==
    LET arriving(u) == {e \in ToSet(inbox[u]) : "msg" \in DOMAIN e}
        named == {lastMessage} \cup {lastRead[u] : u \in DOMAIN lastRead}
                 \cup {ack.msg : ack \in acks}
                 \cup UNION {{e.msg : e \in arriving(u)} : u \in DOMAIN inbox}
    IN named \subseteq ToSet(saved) \cup {NoEntry}

\* A client never acknowledges a provisional id: the last message is provisional only while
\* it also counts as read (mutations.ts:111 and 163 against page.tsx:237-251).
ProvisionalIsRead ==
    \A u \in DOMAIN view : LET v == view[u] IN (v.last # NoEntry /\ v.last.slot # 0) => v.read = v.last

\* The client of the sender lists no message of its own twice, as it was typed and as it was
\* stored, whatever was fetched, collected and received between sending it and the reply
\* (mutations.ts:149-161 and 240-245, which find the entry by the number in its provisional
\* id).  The one way to list it twice: a fetch brings the message before its reply and makes
\* the list so much shorter that a later message gets the same number.
OwnMessageOnce ==
    \A m \in DOMAIN sending \ reused :
        LET own == {i \in DOMAIN list[sender[m]] : list[sender[m]][i].msg = m}
        IN list[sender[m]] # NoList => Cardinality(own) <= 1

\* When nothing fails, a message that is stored and announced reaches every client that has
\* loaded, as the last message of the channel (channels.service.ts:1203-1211, socket.context.tsx:94).
EveryMessageArrives ==
    \A m \in Messages : \A u \in Users \ {sender[m]} :
        (counting[m].stage = "get" /\ Loaded(u)) ~> view[u].last = Shown(m)

\* Nothing is under way.
AtRest ==
    /\ \A m \in Messages : sending[m] \in {"new", "done"} /\ counting[m].stage \in {"none", "done"}
    /\ \A u \in Users : inbox[u] = << >> /\ fetch[u].stage = "none"

\* README.md:15 promises "Realtime chat & updates": when nothing is under way, a channel that
\* is open shows every message that is stored.
OpenListShowsAll ==
    AtRest => \A u \in open : ToSet(saved) \subseteq {e.msg : e \in ToSet(list[u])}
=============================================================================
