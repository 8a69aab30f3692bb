-------------------------------- MODULE Voice --------------------------------
(***************************************************************************)
(* The call of one direct-message channel: the voice states and rings that *)
(* guild-service keeps in Redis, the timers of its rings, and what the     *)
(* clients are told.                                                       *)
(*                                                                         *)
(* Handlers interleave between Redis commands.  The code that runs on the  *)
(* reply to a handler's last command, the emission, is part of that step.  *)
(* The queue to the gateway keeps its order, but the gateway serves the    *)
(* recipients of an event one after the other: an event that names a       *)
(* client first can overtake one that names it second.                     *)
(***************************************************************************)
EXTENDS Naturals, FiniteSets, SequencesExt

CONSTANTS
    Users,      \* the two recipients of the channel
    First,      \* the one that comes first in the channel's list
    Watchers,   \* the users whose client is followed
    Flags,      \* what a voice state says on or off of: muted, deafened
    NoState,    \* no voice state under a key
    NoRing,     \* no ring under a key
    Requests,   \* slots: the queue messages handled at once
    Callers,    \* bound: the users who ring the others
    MaxRings,   \* bound: pending timers for a recipient when a ring starts
    MaxInbox    \* bound: events under way to a client when a message is taken

ASSUME VoiceAssumption ==
    /\ First \in Users /\ Cardinality(Users) = 2
    /\ Watchers \subseteq Users
    /\ Callers \subseteq Users
    /\ Requests \cap Users = {}
    /\ NoState \notin [Flags -> BOOLEAN]
    /\ NoRing \notin Users
    /\ MaxRings \in Nat

VARIABLES
    voiceStates,   \* voice:<channel>:<user>
    voiceChannel,  \* voice:channel:<channel>, the users in the call
    ringKeys,      \* ring:<channel>:<user>, the user who rings
    ringChannel,   \* ring:channel:<channel>, the users who are rung
    timers,        \* timers[u]: the timers that will dismiss a ring of u
    tasks,         \* tasks[t]: what runs in slot t, or after a timer of user t
    inbox,         \* inbox[w]: the events under way to w's client, as emitted
    shown,         \* shown[w][u]: the voice state of u that w's client shows
    ringing        \* ringing[w]: the users whose ring w's client has

redis == <<voiceStates, voiceChannel, ringKeys, ringChannel>>
clients == <<inbox, shown, ringing>>
vars == <<redis, timers, tasks, clients>>

-----------------------------------------------------------------------------
Tasks == Requests \cup Users

VoiceState == [Flags -> BOOLEAN]

Idle == [op |-> "idle"]

\* A join, a leave, an update, a dismissal or one of the two snapshots under way.
Task ==
    [op : {"join"}, user : Users, stage : {"member"}, state : VoiceState]
    \cup [op : {"join"}, user : Users, stage : {"get"}, state : VoiceState]
    \cup [op : {"join"}, user : Users, stage : {"del", "rem"}, state : VoiceState, by : Users]
    \cup [op : {"dismiss"}, user : Users, stage : {"get"}]
    \cup [op : {"dismiss"}, user : Users, stage : {"del", "rem"}, by : Users]
    \cup [op : {"leave"}, user : Users, stage : {"member", "members", "rings", "del"}]
    \cup [op : {"leave"}, user : Users, stage : {"clear"}, todo : SUBSET Users]
    \cup [op : {"update"}, user : Users, stage : {"set", "emit"}, state : VoiceState]
    \cup [op : {"states", "rings"}, user : Users, found : SUBSET Users]

Event ==
    [kind : {"state"}, user : Users, state : VoiceState]
    \cup [kind : {"leave", "dismiss"}, user : Users]
    \cup [kind : {"states"}, states : [Users -> VoiceState \cup {NoState}]]
    \cup [kind : {"ring", "rings"}, users : SUBSET Users]

\* Every variable has its type.
TypeOK ==
    /\ voiceStates \in [Users -> VoiceState \cup {NoState}]
    /\ voiceChannel \subseteq Users
    /\ ringKeys \in [Users -> Users \cup {NoRing}]
    /\ ringChannel \subseteq Users
    /\ timers \in [Users -> Nat]
    /\ tasks \in [Tasks -> Task \cup {Idle}]
    /\ inbox \in [Watchers -> Seq([event : Event, late : BOOLEAN])]
    /\ shown \in [Watchers -> [Users -> VoiceState \cup {NoState}]]
    /\ ringing \in [Watchers -> SUBSET Users]

-----------------------------------------------------------------------------
To(t, task) == tasks' = [tasks EXCEPT ![t] = task]

Finish(t) == To(t, Idle)

At(t, op, stage) == tasks[t].op = op /\ tasks[t].stage = stage

CanTake(q) == tasks[q] = Idle /\ \A w \in Watchers : Len(inbox[w]) < MaxInbox

\* What is sent to w of an event for the recipients, the first of which is named.
Sent(w, recipients, first, event) ==
    IF w \in recipients THEN <<[event |-> event, late |-> w # first]>> ELSE << >>

Emit(recipients, first, event) ==
    /\ inbox' = [w \in Watchers |-> inbox[w] \o Sent(w, recipients, first, event)]
    /\ UNCHANGED <<shown, ringing>>

-----------------------------------------------------------------------------
(* Rings.  An operator whose name ends in _Mutant is a plausible mistake in  *)
(* the one it is named for, and part of no behaviour.                        *)

RingTimers_Mutant(rung) == timers

\* Every ring gets a timer, which nothing ever cancels.
RingTimers(rung) == [u \in Users |-> IF u \in rung THEN timers[u] + 1 ELSE timers[u]]

\* The keys and the set are written in one transaction.  The check lets pass who is no
\* recipient of a direct channel, too; only what recipients ask for is modelled.
Ring(by) ==
    LET rung == Users \ {by} IN
    /\ \A u \in rung : timers[u] < MaxRings
    /\ \A w \in Watchers : Len(inbox[w]) < MaxInbox
    /\ ringKeys' = [u \in Users |-> IF u \in rung THEN by ELSE ringKeys[u]]
    /\ ringChannel' = ringChannel \cup rung
    /\ timers' = RingTimers(rung)
    /\ Emit(Users, First, [kind |-> "ring", users |-> rung])
    /\ UNCHANGED <<voiceStates, voiceChannel, tasks>>

\* The timer of a ring fires, of whichever ring of the user.
Timeout(u) ==
    /\ timers[u] > 0
    /\ tasks[u] = Idle
    /\ timers' = [timers EXCEPT ![u] = @ - 1]
    /\ To(u, [op |-> "dismiss", user |-> u, stage |-> "get"])
    /\ UNCHANGED <<redis, clients>>

AfterDismissal_Mutant(w, task) == << >>

\* What a dismissal is followed by: a join tells the call, a timer tells nobody else.
AfterDismissal(w, task) ==
    IF task.op = "join"
    THEN Sent(w, Users, First, [kind |-> "state", user |-> task.user, state |-> task.state])
    ELSE << >>

Dismissing(t) == tasks[t].op \in {"join", "dismiss"}

DismissGet(t) ==
    LET u == tasks[t].user IN
    /\ Dismissing(t) /\ tasks[t].stage = "get"
    /\ IF ringKeys[u] = NoRing
       THEN /\ inbox' = [w \in Watchers |-> inbox[w] \o AfterDismissal(w, tasks[t])]
            /\ Finish(t)
       ELSE /\ To(t, IF tasks[t].op = "join"
                     THEN [op |-> "join", user |-> u, stage |-> "del", by |-> ringKeys[u],
                           state |-> tasks[t].state]
                     ELSE [op |-> "dismiss", user |-> u, stage |-> "del", by |-> ringKeys[u]])
            /\ UNCHANGED inbox
    /\ UNCHANGED <<redis, timers, shown, ringing>>

DismissDel(t) ==
    /\ Dismissing(t) /\ tasks[t].stage = "del"
    /\ ringKeys' = [ringKeys EXCEPT ![tasks[t].user] = NoRing]
    /\ tasks' = [tasks EXCEPT ![t].stage = "rem"]
    /\ UNCHANGED <<voiceStates, voiceChannel, ringChannel, timers, clients>>

ToldOfDismissal_Mutant(task) == {task.by}

ToldOfDismissal(task) == {task.by, task.user}

DismissRem_Mutant(t) ==
    /\ Dismissing(t) /\ tasks[t].stage = "rem"
    /\ Emit(ToldOfDismissal(tasks[t]), tasks[t].by, [kind |-> "dismiss", user |-> tasks[t].user])
    /\ Finish(t)
    /\ UNCHANGED <<redis, timers>>

DismissRem(t) ==
    LET task         == tasks[t]
        Dismissed(w) == Sent(w, ToldOfDismissal(task), task.by, [kind |-> "dismiss", user |-> task.user])
    IN
    /\ Dismissing(t) /\ task.stage = "rem"
    /\ ringChannel' = ringChannel \ {task.user}
    /\ inbox' = [w \in Watchers |-> inbox[w] \o Dismissed(w) \o AfterDismissal(w, task)]
    /\ Finish(t)
    /\ UNCHANGED <<voiceStates, voiceChannel, ringKeys, timers, shown, ringing>>

-----------------------------------------------------------------------------
(* The call *)

Join(q, u, state) ==
    /\ CanTake(q)
    /\ voiceStates' = [voiceStates EXCEPT ![u] = state]
    /\ To(q, [op |-> "join", user |-> u, stage |-> "member", state |-> state])
    /\ UNCHANGED <<voiceChannel, ringKeys, ringChannel, timers, clients>>

JoinMember(q) ==
    /\ At(q, "join", "member")
    /\ voiceChannel' = voiceChannel \cup {tasks[q].user}
    /\ tasks' = [tasks EXCEPT ![q].stage = "get"]
    /\ UNCHANGED <<voiceStates, ringKeys, ringChannel, timers, clients>>

Leave_Mutant(q, u) ==
    /\ CanTake(q)
    /\ To(q, [op |-> "leave", user |-> u, stage |-> "member"])
    /\ UNCHANGED <<redis, timers, clients>>

Leave(q, u) ==
    /\ CanTake(q)
    /\ voiceStates' = [voiceStates EXCEPT ![u] = NoState]
    /\ To(q, [op |-> "leave", user |-> u, stage |-> "member"])
    /\ UNCHANGED <<voiceChannel, ringKeys, ringChannel, timers, clients>>

LeaveMember(q) ==
    /\ At(q, "leave", "member")
    /\ voiceChannel' = voiceChannel \ {tasks[q].user}
    /\ tasks' = [tasks EXCEPT ![q].stage = "members"]
    /\ UNCHANGED <<voiceStates, ringKeys, ringChannel, timers, clients>>

EmitLeave(q) == Emit(Users, First, [kind |-> "leave", user |-> tasks[q].user])

\* When the last one has left, the rings are cleared.
LeaveMembers(q) ==
    /\ At(q, "leave", "members")
    /\ IF voiceChannel = {}
       THEN tasks' = [tasks EXCEPT ![q].stage = "rings"] /\ UNCHANGED clients
       ELSE EmitLeave(q) /\ Finish(q)
    /\ UNCHANGED <<redis, timers>>

ClearRings(q) ==
    /\ At(q, "leave", "rings")
    /\ To(q, [op |-> "leave", user |-> tasks[q].user, stage |-> "clear", todo |-> ringChannel])
    /\ UNCHANGED <<redis, timers, clients>>

\* Those who take part in a ring are told of its end; its key stays.
ClearRing(q, u) ==
    /\ At(q, "leave", "clear")
    /\ u \in tasks[q].todo
    /\ tasks' = [tasks EXCEPT ![q].todo = @ \ {u}]
    /\ IF ringKeys[u] = NoRing
       THEN UNCHANGED clients
       ELSE Emit({u, ringKeys[u]}, u, [kind |-> "dismiss", user |-> u])
    /\ UNCHANGED <<redis, timers>>

ClearChannel(q) ==
    /\ At(q, "leave", "clear")
    /\ tasks[q].todo = {}
    /\ ringChannel' = {}
    /\ EmitLeave(q)
    /\ Finish(q)
    /\ UNCHANGED <<voiceStates, voiceChannel, ringKeys, timers>>

\* An update is for a voice state that is there.
UpdateGet(q, u, flag, on) ==
    /\ CanTake(q)
    /\ voiceStates[u] # NoState
    /\ To(q, [op |-> "update", user |-> u, stage |-> "set",
              state |-> [voiceStates[u] EXCEPT ![flag] = on]])
    /\ UNCHANGED <<redis, timers, clients>>

UpdateSet(q) ==
    /\ At(q, "update", "set")
    /\ voiceStates' = [voiceStates EXCEPT ![tasks[q].user] = tasks[q].state]
    /\ tasks' = [tasks EXCEPT ![q].stage = "emit"]
    /\ UNCHANGED <<voiceChannel, ringKeys, ringChannel, timers, clients>>

UpdateEmit(q) ==
    LET task == tasks[q] IN
    /\ At(q, "update", "emit")
    /\ Emit(Users, First, [kind |-> "state", user |-> task.user, state |-> task.state])
    /\ Finish(q)
    /\ UNCHANGED <<redis, timers>>

-----------------------------------------------------------------------------
(* Snapshots, which a client asks for when it is ready *)

GetStates(q, u) ==
    /\ CanTake(q)
    /\ To(q, [op |-> "states", user |-> u, found |-> voiceChannel])
    /\ UNCHANGED <<redis, timers, clients>>

\* Users of the set without a state are left out.
SendStates(q) ==
    LET task == tasks[q] IN
    /\ task.op = "states"
    /\ Emit({task.user}, task.user, [kind |-> "states", states |-> [u \in Users |->
               IF u \in task.found THEN voiceStates[u] ELSE NoState]])
    /\ Finish(q)
    /\ UNCHANGED <<redis, timers>>

GetRings(q, u) ==
    /\ CanTake(q)
    /\ To(q, [op |-> "rings", user |-> u, found |-> ringChannel])
    /\ UNCHANGED <<redis, timers, clients>>

SendRings(q) ==
    LET task == tasks[q] IN
    /\ task.op = "rings"
    /\ Emit({task.user}, task.user, [kind |-> "rings",
                                     users |-> {u \in task.found : ringKeys[u] # NoRing}])
    /\ Finish(q)
    /\ UNCHANGED <<redis, timers>>

-----------------------------------------------------------------------------
(* Clients *)

\* Whether the gateway can send the i-th event under way to w before the earlier ones.
Overtakes(w, i) ==
    ~inbox[w][i].late /\ \A j \in 1..i - 1 : inbox[w][j].late

\* What a client keeps of the voice states, and what an event makes of it: a snapshot
\* replaces them, any other event of the call changes one.
UpdateVoiceState(states, u, state) == [states EXCEPT ![u] = state]

RemoveVoiceState(states, u) == [states EXCEPT ![u] = NoState]

StatesAfter(event, states) ==
    CASE event.kind = "state"  -> UpdateVoiceState(states, event.user, event.state)
      [] event.kind = "leave"  -> RemoveVoiceState(states, event.user)
      [] event.kind = "states" -> event.states
      [] OTHER                 -> states

\* What a client keeps of the rings, and what an event makes of it.
BatchUpdateVoiceRingState(rings, users) == rings \cup users

RemoveVoiceRingState(rings, u) == rings \ {u}

RingsAfter(event, rings) ==
    CASE event.kind = "ring"    -> BatchUpdateVoiceRingState(rings, event.users)
      [] event.kind = "dismiss" -> RemoveVoiceRingState(rings, event.user)
      [] event.kind = "rings"   -> event.users
      [] OTHER                  -> rings

Receive(w, i) ==
    LET event == inbox[w][i].event IN
    /\ i = 1 \/ Overtakes(w, i)
    /\ inbox' = [inbox EXCEPT ![w] = RemoveAt(@, i)]
    /\ shown' = [shown EXCEPT ![w] = StatesAfter(event, @)]
    /\ ringing' = [ringing EXCEPT ![w] = RingsAfter(event, @)]
    /\ UNCHANGED <<redis, timers, tasks>>

-----------------------------------------------------------------------------
Init ==
    /\ voiceStates = [u \in Users |-> NoState]
    /\ voiceChannel = {}
    /\ ringKeys = [u \in Users |-> NoRing]
    /\ ringChannel = {}
    /\ timers = [u \in Users |-> 0]
    /\ tasks = [t \in Tasks |-> Idle]
    /\ inbox = [w \in Watchers |-> << >>]
    /\ shown = [w \in Watchers |-> [u \in Users |-> NoState]]
    /\ ringing = [w \in Watchers |-> {}]

Arrive(q) ==
    \/ \E u \in Users :
        \/ \E state \in VoiceState : Join(q, u, state)
        \/ Leave(q, u)
        \/ \E flag \in Flags, on \in BOOLEAN : UpdateGet(q, u, flag, on)
    \/ \E w \in Watchers : GetStates(q, w) \/ GetRings(q, w)

CallStep(q) ==
    \/ JoinMember(q)
    \/ LeaveMember(q) \/ LeaveMembers(q)
    \/ ClearRings(q) \/ (\E u \in Users : ClearRing(q, u)) \/ ClearChannel(q)
    \/ UpdateSet(q) \/ UpdateEmit(q)
    \/ SendStates(q) \/ SendRings(q)

DismissStep(t) == DismissGet(t) \/ DismissDel(t) \/ DismissRem(t)

Next ==
    \/ \E u \in Callers : Ring(u)
    \/ \E u \in Users : Timeout(u)
    \/ \E q \in Requests : Arrive(q) \/ CallStep(q)
    \/ \E t \in Tasks : DismissStep(t)
    \/ \E w \in Watchers : \E i \in 1..Len(inbox[w]) : Receive(w, i)

Spec == Init /\ [][Next]_vars

\* The event loop runs what a timer or a Redis reply has made ready.
Fairness ==
    /\ \A u \in Users : WF_vars(Timeout(u))
    /\ \A t \in Tasks : WF_vars(DismissStep(t))
    /\ \A q \in Requests : WF_vars(CallStep(q))
    /\ \A w \in Watchers : WF_vars(\E i \in 1..Len(inbox[w]) : Receive(w, i))

FairSpec == Spec /\ Fairness

-----------------------------------------------------------------------------
(* Properties *)

AtRest ==
    /\ tasks = [t \in Tasks |-> Idle]
    /\ \A w \in DOMAIN inbox : inbox[w] = << >>

\* A ring that is stored has a timer to end it, or a dismissal already past the timer that
\* will delete whatever ring it finds (channels.service.ts:682-688): however rings, answers
\* and earlier timers overtake each other, no ring is left without its end.
RingHasTimer ==
    \A u \in Users : ringKeys[u] # NoRing =>
        \/ timers[u] > 0
        \/ tasks[u] # Idle /\ tasks[u].stage \in {"get", "del"}

\* A user is listed as rung only while the ring is stored, or until the dismissal that has
\* just deleted it takes the user off the list (739-740).
ListedRingIsStored ==
    \A u \in ringChannel : ringKeys[u] = NoRing =>
        \E t \in Tasks : Dismissing(t) /\ tasks[t].user = u /\ tasks[t].stage = "rem"

\* Nobody's client is left ringing: when the timers have fired and all has been said, it
\* has been told of the end of every ring of its user.
NoClientLeftRinging ==
    AtRest /\ (\A u \in Users : timers[u] = 0) => \A w \in DOMAIN ringing : w \notin ringing[w]

\* Every ring that is stored is deleted in the end, answered or not.
RingEnds == \A u \in Users : ringKeys[u] # NoRing ~> ringKeys[u] = NoRing

\* With one message handled at a time, the call's list and its states name the same users
\* (798-799, 836-837).
CallIsConsistent ==
    AtRest => \A u \in Users : u \in voiceChannel <=> voiceStates[u] # NoState

\* With one message handled at a time, a client that has received everything shows the
\* call as it is, through joins, leaves, updates and snapshots in any order.
ClientsShowTheCall ==
    AtRest => \A w \in DOMAIN shown : shown[w] = voiceStates
=============================================================================
