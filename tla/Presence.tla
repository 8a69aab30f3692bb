------------------------------ MODULE Presence ------------------------------
(***************************************************************************)
(* Whether one user is shown as online to the viewers who follow the user: *)
(* the user's connections to the gateway, the presence key in Redis, the   *)
(* status in user-service, and how a viewer's client is loaded and told.   *)
(*                                                                         *)
(* The handlers of connections, of queue messages and of socket messages   *)
(* interleave between their commands, those of viewers with everything.    *)
(* With Overlap FALSE what the user does waits until what the user did     *)
(* before is announced, and the user has one connection at a time.         *)
(***************************************************************************)
EXTENDS Naturals, FiniteSets, SequencesExt

CONSTANTS
    Sockets,    \* the connections the user can have at once
    Viewers,    \* the clients of friends, each with one connection
    Overlap,    \* whether what the user does can overlap
    MaxPending  \* bound: announcements, and what is under way to a viewer, when the user acts

ASSUME PresenceAssumption ==
    /\ Overlap \in BOOLEAN
    /\ MaxPending \in Nat \ {0}

VARIABLES
    status,      \* the status in the user's profile: "visible" stands for all but Invisible
    link,        \* the sockets that are connected
    opening,     \* opening[s]: what is left of handleConnection for s
    closing,     \* closing: the sockets whose handleDisconnect is under way
    registered,  \* the user_sockets set of the user
    presence,    \* whether the presence key of the user is set
    change,      \* the status change under way
    jobs,        \* the announcements under way, the oldest first
    subscribed,  \* the viewers among the subscribers of the user's presence
    load,        \* load[v]: how far v's client is with loading
    inbox,       \* inbox[v]: replies and events under way to v's client
    shown,       \* shown[v]: whether v's client shows the user as online
    missed       \* history: the viewers whose client was loading when an announcement was made

userVars == <<status, link, opening, closing, registered, change>>
viewerVars == <<subscribed, load, inbox, shown, missed>>
vars == <<userVars, presence, jobs, viewerVars>>

-----------------------------------------------------------------------------
\* An announcement waits for the profile to be read, for the key to be written, for the
\* subscribers to be read, and for those it is still to be told to.
Job == [online : BOOLEAN, stage : {"read", "key", "subscribers", "tell"}, todo : SUBSET Viewers]

NewJob(online, stage) == [online |-> online, stage |-> stage, todo |-> {}]

\* The reply to CLIENT_READY, the reply to GET_USERS_PRESENCE, or an event.
Item == [kind : {"ready", "merge", "event"}, online : BOOLEAN]

\* Stages of a viewer: not there, asked for the snapshot (the user visible or not), got it
\* (and still to be subscribed, or asked again), loaded.
Load == [stage : {"away", "ready", "wait"}]
        \cup [stage : {"keys"}, visible : BOOLEAN]
        \cup [stage : {"follow"}, left : SUBSET {"subscribe", "ask", "merge"}]

Away == [stage |-> "away"]
Loaded == [stage |-> "follow", left |-> {}]

\* Every variable has its type.
TypeOK ==
    /\ status \in {"visible", "invisible"}
    /\ link \subseteq Sockets
    /\ opening \in [Sockets -> {"done", "key", "add"}]
    /\ closing \subseteq Sockets
    /\ registered \subseteq Sockets
    /\ presence \in BOOLEAN
    /\ change \in [stage : {"none"}] \cup [stage : {"save"}, from : {"visible", "invisible"}, to : {"visible", "invisible"}]
    /\ jobs \in Seq(Job)
    /\ subscribed \subseteq Viewers
    /\ load \in [Viewers -> Load]
    /\ inbox \in [Viewers -> Seq(Item)]
    /\ shown \in [Viewers -> BOOLEAN]
    /\ missed \subseteq Viewers

\* What the user has done is announced.
Announced ==
    /\ jobs = << >>
    /\ change.stage = "none"
    /\ closing = {} /\ \A s \in Sockets : opening[s] = "done"

MayAct ==
    /\ Overlap \/ Announced
    /\ Len(jobs) < MaxPending /\ \A v \in Viewers : Len(inbox[v]) < MaxPending

-----------------------------------------------------------------------------
(* The user.  An operator whose name ends in _Mutant is a plausible mistake  *)
(* in the one it is named for, and part of no behaviour.                     *)

Connect(s) ==
    /\ MayAct
    /\ s \notin link /\ opening[s] = "done" /\ s \notin closing
    /\ Overlap \/ link = {}
    /\ link' = link \cup {s}
    /\ opening' = [opening EXCEPT ![s] = "key"]
    /\ UNCHANGED <<status, closing, registered, change, presence, jobs, viewerVars>>

ConnectKey(s) ==
    /\ opening[s] = "key"
    /\ presence' = TRUE
    /\ opening' = [opening EXCEPT ![s] = "add"]
    /\ UNCHANGED <<status, link, closing, registered, change, jobs, viewerVars>>

ConnectAdd(s) ==
    /\ opening[s] = "add"
    /\ registered' = registered \cup {s}
    /\ opening' = [opening EXCEPT ![s] = "done"]
    /\ jobs' = Append(jobs, NewJob(TRUE, "read"))
    /\ UNCHANGED <<status, link, closing, change, presence, viewerVars>>

Disconnect(s) ==
    /\ MayAct
    /\ s \in link
    /\ link' = link \ {s}
    /\ closing' = closing \cup {s}
    /\ UNCHANGED <<status, opening, registered, change, presence, jobs, viewerVars>>

Disconnected(s) ==
    /\ s \in closing
    /\ registered' = registered \ {s}
    /\ closing' = closing \ {s}
    /\ jobs' = Append(jobs, NewJob(FALSE, "read"))
    /\ UNCHANGED <<status, link, opening, change, presence, viewerVars>>

\* The client offers to change the status while it is connected.
ChangeStatus(to) ==
    /\ MayAct
    /\ link # {} /\ change.stage = "none"
    /\ change' = [stage |-> "save", from |-> status, to |-> to]
    /\ UNCHANGED <<status, link, opening, closing, registered, presence, jobs, viewerVars>>

\* A change to or from invisible is announced without another look at the profile.
SaveStatus ==
    /\ change.stage = "save"
    /\ status' = change.to
    /\ change' = [stage |-> "none"]
    /\ jobs' = CASE change.to = "invisible" -> Append(jobs, NewJob(FALSE, "key"))
                 [] change.to = "visible" /\ change.from = "invisible" ->
                        Append(jobs, NewJob(TRUE, "key"))
                 [] OTHER -> jobs
    /\ UNCHANGED <<link, opening, closing, registered, presence, viewerVars>>

\* The profile cannot be read or saved: the answer is an error, and nothing is announced.
FailStatus ==
    /\ change.stage = "save"
    /\ change' = [stage |-> "none"]
    /\ UNCHANGED <<status, link, opening, closing, registered, presence, jobs, viewerVars>>

-----------------------------------------------------------------------------
(* Announcements *)

\* Connections and disconnections of a user who is invisible are not announced.
ReadProfile(i) ==
    /\ jobs[i].stage = "read"
    /\ jobs' = IF status = "invisible" THEN RemoveAt(jobs, i)
               ELSE [jobs EXCEPT ![i].stage = "key"]
    /\ UNCHANGED <<userVars, presence, viewerVars>>

WriteKey_Mutant(i) ==
    /\ jobs[i].stage = "key"
    /\ presence' = (presence \/ jobs[i].online)
    /\ jobs' = [jobs EXCEPT ![i].stage = "subscribers"]
    /\ UNCHANGED <<userVars, viewerVars>>

WriteKey(i) ==
    /\ jobs[i].stage = "key"
    /\ presence' = jobs[i].online
    /\ jobs' = [jobs EXCEPT ![i].stage = "subscribers"]
    /\ UNCHANGED <<userVars, viewerVars>>

ReadSubscribers(i) ==
    /\ jobs[i].stage = "subscribers"
    /\ jobs' = [jobs EXCEPT ![i].stage = "tell", ![i].todo = subscribed]
    /\ missed' = missed \cup {v \in Viewers \ subscribed : load[v] \notin {Away, Loaded}}
    /\ UNCHANGED <<userVars, presence, subscribed, load, inbox, shown>>

Remaining_Mutant(i, v) == {}

Remaining(i, v) == jobs[i].todo \ {v}

Tell(i, v) ==
    /\ v \in jobs[i].todo
    /\ inbox' = [inbox EXCEPT ![v] = Append(@, [kind |-> "event", online |-> jobs[i].online])]
    /\ jobs' = [jobs EXCEPT ![i].todo = Remaining(i, v)]
    /\ UNCHANGED <<userVars, presence, subscribed, load, shown, missed>>

AllTold(i) ==
    /\ jobs[i].stage = "tell" /\ jobs[i].todo = {}
    /\ jobs' = RemoveAt(jobs, i)
    /\ UNCHANGED <<userVars, presence, viewerVars>>

-----------------------------------------------------------------------------
(* Viewers *)

\* A viewer's client connects and asks for its snapshot.
Arrive(v) ==
    /\ load[v] = Away
    /\ load' = [load EXCEPT ![v] = [stage |-> "ready"]]
    /\ UNCHANGED <<userVars, presence, jobs, subscribed, inbox, shown, missed>>

\* The snapshot is asked for those who are not invisible ...
ReadVisible(v) ==
    /\ load[v].stage = "ready"
    /\ load' = [load EXCEPT ![v] = [stage |-> "keys", visible |-> status = "visible"]]
    /\ UNCHANGED <<userVars, presence, jobs, subscribed, inbox, shown, missed>>

\* ... and says which of them have a presence key.
ReadKeys(v) ==
    /\ load[v].stage = "keys"
    /\ inbox' = [inbox EXCEPT ![v] =
                    Append(@, [kind |-> "ready", online |-> load[v].visible /\ presence])]
    /\ load' = [load EXCEPT ![v] = [stage |-> "wait"]]
    /\ UNCHANGED <<userVars, presence, jobs, subscribed, shown, missed>>

Done(v, part) == load' = [load EXCEPT ![v].left = @ \ {part}]

\* The client subscribes and asks a second time, by two messages the gateway handles at once.
Subscribe_Mutant(v) ==
    /\ load[v].stage = "follow" /\ "subscribe" \in load[v].left
    /\ Done(v, "subscribe")
    /\ UNCHANGED <<userVars, presence, jobs, subscribed, inbox, shown, missed>>

Subscribe(v) ==
    /\ load[v].stage = "follow" /\ "subscribe" \in load[v].left
    /\ subscribed' = subscribed \cup {v}
    /\ Done(v, "subscribe")
    /\ UNCHANGED <<userVars, presence, jobs, inbox, shown, missed>>

\* The second answer is about everybody, invisible or not.
AskAgain(v) ==
    /\ load[v].stage = "follow" /\ "ask" \in load[v].left
    /\ inbox' = [inbox EXCEPT ![v] = Append(@, [kind |-> "merge", online |-> presence])]
    /\ Done(v, "ask")
    /\ UNCHANGED <<userVars, presence, jobs, subscribed, shown, missed>>

Got(v, kind) ==
    /\ inbox[v] # << >> /\ Head(inbox[v]).kind = kind
    /\ inbox' = [inbox EXCEPT ![v] = Tail(@)]

\* The snapshot replaces what is shown, and the client goes on to subscribe and ask again.
ReceiveReady(v) ==
    /\ Got(v, "ready")
    /\ shown' = [shown EXCEPT ![v] = Head(inbox[v]).online]
    /\ load' = [load EXCEPT ![v] = [stage |-> "follow", left |-> {"subscribe", "ask", "merge"}]]
    /\ UNCHANGED <<userVars, presence, jobs, subscribed, missed>>

\* The second answer names those who are online: it only adds.
ReceiveMerge(v) ==
    /\ Got(v, "merge")
    /\ shown' = [shown EXCEPT ![v] = @ \/ Head(inbox[v]).online]
    /\ Done(v, "merge")
    /\ UNCHANGED <<userVars, presence, jobs, subscribed, missed>>

HandlePresenceUpdate(v) ==
    /\ Got(v, "event")
    /\ shown' = [shown EXCEPT ![v] = Head(inbox[v]).online]
    /\ UNCHANGED <<userVars, presence, jobs, subscribed, load, missed>>

Receive(v) == ReceiveReady(v) \/ ReceiveMerge(v) \/ HandlePresenceUpdate(v)

\* A viewer who has gone: nothing tells its socket anything more.
Depart(v) ==
    /\ load[v] = Loaded
    /\ load' = [load EXCEPT ![v] = Away]
    /\ subscribed' = subscribed \ {v}
    /\ inbox' = [inbox EXCEPT ![v] = << >>]
    /\ shown' = [shown EXCEPT ![v] = FALSE]
    /\ missed' = missed \ {v}
    /\ jobs' = [i \in DOMAIN jobs |-> [jobs[i] EXCEPT !.todo = @ \ {v}]]
    /\ UNCHANGED <<userVars, presence>>

-----------------------------------------------------------------------------
Init ==
    /\ status = "visible"
    /\ link = {} /\ closing = {} /\ registered = {}
    /\ opening = [s \in Sockets |-> "done"]
    /\ presence = FALSE
    /\ change = [stage |-> "none"]
    /\ jobs = << >>
    /\ subscribed = {}
    /\ load = [v \in Viewers |-> Away]
    /\ inbox = [v \in Viewers |-> << >>]
    /\ shown = [v \in Viewers |-> FALSE]
    /\ missed = {}

UserAct ==
    \/ \E s \in Sockets : Connect(s) \/ Disconnect(s)
    \/ \E to \in {"visible", "invisible"} : ChangeStatus(to)

SocketStep(s) == ConnectKey(s) \/ ConnectAdd(s) \/ Disconnected(s)

JobStep(i) ==
    \/ ReadProfile(i) \/ WriteKey(i) \/ ReadSubscribers(i) \/ AllTold(i)
    \/ \E v \in Viewers : Tell(i, v)

LoadStep(v) == ReadVisible(v) \/ ReadKeys(v) \/ Subscribe(v) \/ AskAgain(v)

Next ==
    \/ UserAct
    \/ SaveStatus \/ FailStatus
    \/ \E s \in Sockets : SocketStep(s)
    \/ \E i \in DOMAIN jobs : JobStep(i)
    \/ \E v \in Viewers : Arrive(v) \/ Depart(v) \/ LoadStep(v) \/ Receive(v)

Spec == Init /\ [][Next]_vars

\* The gateway finishes an announcement, and sockets deliver.
Fairness ==
    /\ WF_vars(\E i \in DOMAIN jobs : JobStep(i))
    /\ \A v \in Viewers : WF_vars(Receive(v))

FairSpec == Spec /\ Fairness

-----------------------------------------------------------------------------
(* Properties *)

\* When the user does one thing at a time, the presence key of a user who is not invisible says
\* whether the user is connected (ws.gateway.ts:70-87, 141-147), whatever the status was before
\* and however connections were opened and closed while it was invisible.
KeyFollowsConnection ==
    Announced /\ status = "visible" => presence = (link # {})

\* The window between the snapshot and the subscription (layout.tsx:364-377) is the only one: a
\* viewer who has loaded and received everything shows a user who is not invisible as the key
\* says, unless an announcement was made while its client was loading.
ViewersShowTheKey ==
    Announced /\ status = "visible" =>
        \A v \in Viewers \ missed : load[v] = Loaded /\ inbox[v] = << >> => shown[v] = presence

\* An announcement reaches every viewer who is subscribed when it is made, unless the viewer
\* leaves (ws.gateway.ts:148-160).
AnnouncementArrives ==
    \A v \in Viewers, online \in BOOLEAN :
        (jobs # << >> /\ jobs[1] = NewJob(online, "subscribers") /\ v \in subscribed)
            ~> (shown[v] = online \/ load[v] = Away)

\* The menu that makes a user invisible says "You will appear offline"
\* (user-profile-card.tsx:294): when all is announced, nobody shows the user as online.
InvisibleAppearsOffline ==
    Announced /\ status = "invisible" =>
        \A v \in Viewers : load[v] = Loaded /\ inbox[v] = << >> /\ v \notin missed => ~shown[v]
=============================================================================
