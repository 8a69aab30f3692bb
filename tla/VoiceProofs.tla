----------------------------- MODULE VoiceProofs -----------------------------
(***************************************************************************)
(* Theorems about the call of a channel, for every number of requests in   *)
(* flight, of pending timers and of events under way.                      *)
(***************************************************************************)
EXTENDS Voice, SequenceTheorems, TLAPS

-----------------------------------------------------------------------------
(* Types *)

\* An event that is sent keeps every client's inbox a sequence of events.
LEMMA SentType ==
    ASSUME TypeOK, NEW recipients, NEW first, NEW event \in Event
    PROVE  \A w \in Watchers :
              /\ Sent(w, recipients, first, event) \in Seq([event : Event, late : BOOLEAN])
              /\ inbox[w] \o Sent(w, recipients, first, event)
                    \in Seq([event : Event, late : BOOLEAN])
<1> DEFINE Item == [event : Event, late : BOOLEAN]
<1> SUFFICES ASSUME NEW w \in Watchers
             PROVE  /\ Sent(w, recipients, first, event) \in Seq(Item)
                    /\ inbox[w] \o Sent(w, recipients, first, event) \in Seq(Item)
  OBVIOUS
<1>1. [event |-> event, late |-> w # first] \in Item
  OBVIOUS
<1>2. Sent(w, recipients, first, event) \in Seq(Item)
  <2> HIDE DEF Item
  <2> QED
    BY <1>1 DEF Sent
<1>3. inbox[w] \in Seq(Item)
  BY DEF TypeOK
<1> HIDE DEF Item
<1> QED
  BY <1>2, <1>3, ConcatProperties

\* Emitting an event keeps the clients well typed.
LEMMA EmitType ==
    ASSUME TypeOK, NEW recipients, NEW first, NEW event \in Event,
           Emit(recipients, first, event)
    PROVE  /\ inbox' \in [Watchers -> Seq([event : Event, late : BOOLEAN])]
           /\ shown' \in [Watchers -> [Users -> VoiceState \cup {NoState}]]
           /\ ringing' \in [Watchers -> SUBSET Users]
BY SentType DEF Emit, TypeOK

\* A task that is at an operation has the fields of that operation.
LEMMA TaskFields ==
    ASSUME NEW task \in Task \cup {Idle}
    PROVE  /\ task.op # "idle" => task \in Task /\ task.user \in Users
           /\ task.op \in {"join", "update"} => task.state \in VoiceState
           /\ task.op \in {"join", "dismiss"} /\ task.stage \in {"del", "rem"} =>
                 task.by \in Users
           /\ task.op = "leave" /\ task.stage = "clear" => task.todo \in SUBSET Users
           /\ task.op \in {"states", "rings"} => task.found \in SUBSET Users
BY DEF Task, Idle

\* The next stage of a task is a task.
LEMMA TaskStages ==
    ASSUME NEW task \in Task \cup {Idle}
    PROVE  /\ task.op = "join" /\ task.stage = "member" =>
                 [task EXCEPT !.stage = "get"] \in Task
           /\ task.op \in {"join", "dismiss"} /\ task.stage = "del" =>
                 [task EXCEPT !.stage = "rem"] \in Task
           /\ task.op = "leave" /\ task.stage = "member" =>
                 [task EXCEPT !.stage = "members"] \in Task
           /\ task.op = "leave" /\ task.stage = "members" =>
                 [task EXCEPT !.stage = "rings"] \in Task
           /\ task.op = "leave" /\ task.stage = "clear" =>
                 \A u \in Users : [task EXCEPT !.todo = @ \ {u}] \in Task
           /\ task.op = "update" /\ task.stage = "set" =>
                 [task EXCEPT !.stage = "emit"] \in Task
BY DEF Task, Idle

\* The call as it starts is well typed.
LEMMA InitType == Init => TypeOK
BY VoiceAssumption DEF Init, TypeOK

\* Rings and their timers keep the types.
LEMMA RingType ==
    ASSUME TypeOK, NEW u \in Users, Ring(u) \/ Timeout(u)
    PROVE  TypeOK'
<1>1. CASE Ring(u)
  <2> DEFINE rung == Users \ {u}
  <2>1. [kind |-> "ring", users |-> rung] \in Event
    BY DEF Event
  <2>2. /\ inbox' \in [Watchers -> Seq([event : Event, late : BOOLEAN])]
        /\ shown' \in [Watchers -> [Users -> VoiceState \cup {NoState}]]
        /\ ringing' \in [Watchers -> SUBSET Users]
    BY <1>1, <2>1, EmitType DEF Ring
  <2>3. timers' \in [Users -> Nat]
    BY <1>1 DEF Ring, RingTimers, TypeOK
  <2> QED
    BY <1>1, <2>2, <2>3 DEF Ring, TypeOK
<1>2. CASE Timeout(u)
  <2>1. [op |-> "dismiss", user |-> u, stage |-> "get"] \in Task
    BY DEF Task
  <2>2. timers' \in [Users -> Nat]
    BY <1>2 DEF Timeout, TypeOK
  <2> QED
    BY <1>2, <2>1, <2>2 DEF Timeout, To, TypeOK, Tasks, redis, clients
<1> QED
  BY <1>1, <1>2

\* A dismissal, after a join or after a timer, keeps the types.
LEMMA DismissType ==
    ASSUME TypeOK, NEW t \in Tasks, DismissStep(t)
    PROVE  TypeOK'
<1> DEFINE task == tasks[t]
           u    == task.user
<1>1. task \in Task \cup {Idle}
  BY DEF TypeOK
<1>2. /\ Dismissing(t) => u \in Users
      /\ Dismissing(t) /\ task.op = "join" => task.state \in VoiceState
  BY <1>1, TaskFields DEF Dismissing
<1>3. ASSUME Dismissing(t)
      PROVE  \A w \in Watchers :
                /\ AfterDismissal(w, task) \in Seq([event : Event, late : BOOLEAN])
                /\ inbox[w] \o AfterDismissal(w, task) \in Seq([event : Event, late : BOOLEAN])
  <2> SUFFICES ASSUME NEW w \in Watchers
               PROVE  /\ AfterDismissal(w, task) \in Seq([event : Event, late : BOOLEAN])
                      /\ inbox[w] \o AfterDismissal(w, task)
                            \in Seq([event : Event, late : BOOLEAN])
    OBVIOUS
  <2>1. CASE task.op = "join"
    <3>1. [kind |-> "state", user |-> u, state |-> task.state] \in Event
      BY <1>2, <1>3, <2>1 DEF Event
    <3> QED
      BY <2>1, <3>1, SentType DEF AfterDismissal
  <2>2. CASE task.op # "join"
    BY <2>2, EmptySeq, ConcatProperties DEF AfterDismissal, TypeOK
  <2> QED
    BY <2>1, <2>2
<1>4. CASE DismissGet(t)
  <2>1. CASE ringKeys[u] = NoRing
    <3>1. inbox' \in [Watchers -> Seq([event : Event, late : BOOLEAN])]
      BY <1>3, <1>4, <2>1 DEF DismissGet
    <3> QED
      BY <1>4, <2>1, <3>1 DEF DismissGet, Finish, To, TypeOK, redis
  <2>2. CASE ringKeys[u] # NoRing
    <3>1. ringKeys[u] \in Users
      BY <1>2, <1>4, <2>2 DEF DismissGet, TypeOK
    <3>2. tasks' \in [Tasks -> Task \cup {Idle}]
      <4>1. task.op = "join" =>
              [op |-> "join", user |-> u, stage |-> "del", by |-> ringKeys[u],
               state |-> task.state] \in Task
        BY <1>2, <1>4, <3>1 DEF DismissGet, Task
      <4>2. [op |-> "dismiss", user |-> u, stage |-> "del", by |-> ringKeys[u]] \in Task
        BY <1>2, <1>4, <3>1 DEF DismissGet, Task
      <4> QED
        BY <1>4, <2>2, <4>1, <4>2 DEF DismissGet, To, TypeOK
    <3> QED
      BY <1>4, <2>2, <3>2 DEF DismissGet, TypeOK, redis
  <2> QED
    BY <2>1, <2>2
<1>5. CASE DismissDel(t)
  <2>1. [task EXCEPT !.stage = "rem"] \in Task
    BY <1>1, <1>5, TaskStages DEF DismissDel, Dismissing
  <2>2. tasks' \in [Tasks -> Task \cup {Idle}]
    BY <1>5, <2>1 DEF DismissDel, TypeOK
  <2>3. ringKeys' \in [Users -> Users \cup {NoRing}]
    BY <1>5 DEF DismissDel, TypeOK
  <2> QED
    BY <1>5, <2>2, <2>3 DEF DismissDel, TypeOK, clients
<1>6. CASE DismissRem(t)
  <2>1. [kind |-> "dismiss", user |-> u] \in Event
    BY <1>2, <1>6 DEF DismissRem, Event
  <2> DEFINE Dismissed(w) == Sent(w, ToldOfDismissal(task), task.by, [kind |-> "dismiss", user |-> u])
  <2>2. \A w \in Watchers :
           inbox[w] \o Dismissed(w) \in Seq([event : Event, late : BOOLEAN])
    BY <2>1, SentType
  <2>3. \A w \in Watchers : inbox[w] \o Dismissed(w) \o AfterDismissal(w, task)
                                \in Seq([event : Event, late : BOOLEAN])
    <3> HIDE DEF Dismissed
    <3> QED
      BY <1>3, <1>6, <2>2, ConcatProperties DEF DismissRem
  <2>4. inbox' \in [Watchers -> Seq([event : Event, late : BOOLEAN])]
    BY <1>6, <2>3 DEF DismissRem
  <2> QED
    BY <1>6, <2>4 DEF DismissRem, Finish, To, TypeOK
<1> QED
  BY <1>4, <1>5, <1>6 DEF DismissStep

\* A message that is taken starts a task of its kind.
LEMMA ArriveType ==
    ASSUME TypeOK, NEW q \in Requests, Arrive(q)
    PROVE  TypeOK'
<1> USE DEF TypeOK, Tasks, To
<1>1. ASSUME NEW u \in Users, NEW state \in VoiceState, Join(q, u, state)
      PROVE  TypeOK'
  <2>1. [op |-> "join", user |-> u, stage |-> "member", state |-> state] \in Task
    BY DEF Task
  <2> QED
    BY <1>1, <2>1 DEF Join, clients
<1>2. ASSUME NEW u \in Users, Leave(q, u)
      PROVE  TypeOK'
  <2>1. [op |-> "leave", user |-> u, stage |-> "member"] \in Task
    BY DEF Task
  <2> QED
    BY <1>2, <2>1 DEF Leave, clients
<1>3. ASSUME NEW u \in Users, NEW flag \in Flags, NEW on \in BOOLEAN, UpdateGet(q, u, flag, on)
      PROVE  TypeOK'
  <2>1. voiceStates[u] \in VoiceState
    BY <1>3 DEF UpdateGet
  <2>2. [voiceStates[u] EXCEPT ![flag] = on] \in VoiceState
    BY <2>1 DEF VoiceState
  <2>3. [op |-> "update", user |-> u, stage |-> "set",
         state |-> [voiceStates[u] EXCEPT ![flag] = on]] \in Task
    BY <2>2 DEF Task
  <2> QED
    BY <1>3, <2>3 DEF UpdateGet, redis, clients
<1>4. ASSUME NEW w \in Watchers, GetStates(q, w) \/ GetRings(q, w)
      PROVE  TypeOK'
  <2>1. w \in Users
    BY VoiceAssumption
  <2>2. /\ [op |-> "states", user |-> w, found |-> voiceChannel] \in Task
        /\ [op |-> "rings", user |-> w, found |-> ringChannel] \in Task
    BY <2>1 DEF Task
  <2>3. CASE GetStates(q, w)
    BY <2>2, <2>3 DEF GetStates, redis, clients
  <2>4. CASE GetRings(q, w)
    BY <2>2, <2>4 DEF GetRings, redis, clients
  <2> QED
    BY <1>4, <2>3, <2>4
<1> QED
  BY <1>1, <1>2, <1>3, <1>4 DEF Arrive

\* The further steps of a task keep the types.
LEMMA CallType ==
    ASSUME TypeOK, NEW q \in Requests, CallStep(q)
    PROVE  TypeOK'
<1> DEFINE task == tasks[q]
           u    == task.user
<1>1. task \in Task \cup {Idle}
  BY DEF TypeOK, Tasks
<1>2. q \in Tasks
  BY DEF Tasks
<1>3. CASE JoinMember(q)
  <2>1. u \in Users /\ [task EXCEPT !.stage = "get"] \in Task
    BY <1>1, <1>3, TaskFields, TaskStages DEF JoinMember, At
  <2> QED
    BY <1>2, <1>3, <2>1 DEF JoinMember, TypeOK, clients
<1>4. CASE LeaveMember(q)
  <2>1. u \in Users /\ [task EXCEPT !.stage = "members"] \in Task
    BY <1>1, <1>4, TaskFields, TaskStages DEF LeaveMember, At
  <2> QED
    BY <1>2, <1>4, <2>1 DEF LeaveMember, TypeOK, clients
<1>5. ASSUME u \in Users, EmitLeave(q)
      PROVE  /\ inbox' \in [Watchers -> Seq([event : Event, late : BOOLEAN])]
             /\ shown' \in [Watchers -> [Users -> VoiceState \cup {NoState}]]
             /\ ringing' \in [Watchers -> SUBSET Users]
  <2>1. [kind |-> "leave", user |-> u] \in Event
    BY <1>5 DEF Event
  <2> QED
    BY <1>5, <2>1, EmitType DEF EmitLeave
<1>6. CASE LeaveMembers(q)
  <2>1. u \in Users /\ [task EXCEPT !.stage = "rings"] \in Task
    BY <1>1, <1>6, TaskFields, TaskStages DEF LeaveMembers, At
  <2>2. CASE voiceChannel = {}
    BY <1>2, <1>6, <2>1, <2>2 DEF LeaveMembers, TypeOK, redis, clients
  <2>3. CASE voiceChannel # {}
    BY <1>2, <1>5, <1>6, <2>1, <2>3 DEF LeaveMembers, Finish, To, TypeOK, redis
  <2> QED
    BY <2>2, <2>3
<1>7. CASE ClearRings(q)
  <2>1. u \in Users
    BY <1>1, <1>7, TaskFields DEF ClearRings, At
  <2>2. [op |-> "leave", user |-> u, stage |-> "clear", todo |-> ringChannel] \in Task
    BY <2>1 DEF Task, TypeOK
  <2> QED
    BY <1>2, <1>7, <2>2 DEF ClearRings, To, TypeOK, redis, clients
<1>8. ASSUME NEW v \in Users, ClearRing(q, v)
      PROVE  TypeOK'
  <2>1. [task EXCEPT !.todo = @ \ {v}] \in Task
    BY <1>1, <1>8, TaskStages DEF ClearRing, At
  <2>2. tasks' \in [Tasks -> Task \cup {Idle}]
    BY <1>2, <1>8, <2>1 DEF ClearRing, TypeOK
  <2>3. [kind |-> "dismiss", user |-> v] \in Event
    BY DEF Event
  <2>4. CASE ringKeys[v] = NoRing
    BY <1>8, <2>2, <2>4 DEF ClearRing, TypeOK, redis, clients
  <2>5. CASE ringKeys[v] # NoRing
    <3>1. /\ inbox' \in [Watchers -> Seq([event : Event, late : BOOLEAN])]
          /\ shown' \in [Watchers -> [Users -> VoiceState \cup {NoState}]]
          /\ ringing' \in [Watchers -> SUBSET Users]
      BY <1>8, <2>3, <2>5, EmitType DEF ClearRing
    <3> QED
      BY <1>8, <2>2, <3>1 DEF ClearRing, TypeOK, redis
  <2> QED
    BY <2>4, <2>5
<1>9. CASE ClearChannel(q)
  <2>1. u \in Users
    BY <1>1, <1>9, TaskFields DEF ClearChannel, At
  <2> QED
    BY <1>2, <1>5, <1>9, <2>1 DEF ClearChannel, Finish, To, TypeOK
<1>10. CASE UpdateSet(q)
  <2>1. /\ u \in Users /\ task.state \in VoiceState
        /\ [task EXCEPT !.stage = "emit"] \in Task
    BY <1>1, <1>10, TaskFields, TaskStages DEF UpdateSet, At
  <2> QED
    BY <1>2, <1>10, <2>1 DEF UpdateSet, TypeOK, clients
<1>11. CASE UpdateEmit(q)
  <2>1. u \in Users /\ task.state \in VoiceState
    BY <1>1, <1>11, TaskFields DEF UpdateEmit, At
  <2>2. [kind |-> "state", user |-> u, state |-> task.state] \in Event
    BY <2>1 DEF Event
  <2>3. /\ inbox' \in [Watchers -> Seq([event : Event, late : BOOLEAN])]
        /\ shown' \in [Watchers -> [Users -> VoiceState \cup {NoState}]]
        /\ ringing' \in [Watchers -> SUBSET Users]
    BY <1>11, <2>2, EmitType DEF UpdateEmit
  <2> QED
    BY <1>11, <2>3 DEF UpdateEmit, Finish, To, TypeOK, redis
<1>12. CASE SendStates(q)
  <2> DEFINE states == [v \in Users |-> IF v \in task.found THEN voiceStates[v] ELSE NoState]
  <2>1. states \in [Users -> VoiceState \cup {NoState}]
    BY DEF TypeOK
  <2>2. [kind |-> "states", states |-> states] \in Event
    <3> HIDE DEF states
    <3> QED
      BY <2>1 DEF Event
  <2>3. /\ inbox' \in [Watchers -> Seq([event : Event, late : BOOLEAN])]
        /\ shown' \in [Watchers -> [Users -> VoiceState \cup {NoState}]]
        /\ ringing' \in [Watchers -> SUBSET Users]
    BY <1>12, <2>2, EmitType DEF SendStates
  <2> QED
    BY <1>12, <2>3 DEF SendStates, Finish, To, TypeOK, redis
<1>13. CASE SendRings(q)
  <2> DEFINE rung == {v \in task.found : ringKeys[v] # NoRing}
  <2>1. rung \in SUBSET Users
    BY <1>1, <1>13, TaskFields DEF SendRings
  <2>2. [kind |-> "rings", users |-> rung] \in Event
    BY <2>1 DEF Event
  <2>3. /\ inbox' \in [Watchers -> Seq([event : Event, late : BOOLEAN])]
        /\ shown' \in [Watchers -> [Users -> VoiceState \cup {NoState}]]
        /\ ringing' \in [Watchers -> SUBSET Users]
    BY <1>13, <2>2, EmitType DEF SendRings
  <2> QED
    BY <1>13, <2>3 DEF SendRings, Finish, To, TypeOK, redis
<1> QED
  BY <1>3, <1>4, <1>6, <1>7, <1>8, <1>9, <1>10, <1>11, <1>12, <1>13 DEF CallStep

\* What a client does with an event keeps what it shows well typed.
LEMMA ReceiveType ==
    ASSUME TypeOK, NEW w \in Watchers, NEW i \in 1..Len(inbox[w]), Receive(w, i)
    PROVE  TypeOK'
<1> DEFINE Item == [event : Event, late : BOOLEAN]
           event == inbox[w][i].event
<1>1. inbox[w] \in Seq(Item)
  BY DEF TypeOK
<1>2. event \in Event
  <2>1. inbox[w][i] \in Item
    <3> HIDE DEF Item
    <3> QED
      BY <1>1, ElementOfSeq
  <2> QED
    BY <2>1
<1>3. RemoveAt(inbox[w], i) \in Seq(Item)
  <2> HIDE DEF Item
  <2>1. Len(inbox[w]) \in Nat
    BY <1>1, LenProperties
  <2>2. \A j \in 1..Len(inbox[w]) : inbox[w][j] \in Item
    BY <1>1, ElementOfSeq
  <2>3. SubSeq(inbox[w], 1, i - 1) \in Seq(Item)
    BY <2>1, <2>2, SubSeqProperties
  <2>4. SubSeq(inbox[w], i + 1, Len(inbox[w])) \in Seq(Item)
    BY <2>1, <2>2, SubSeqProperties
  <2> QED
    BY <2>3, <2>4, ConcatProperties DEF RemoveAt
<1>4. inbox' \in [Watchers -> Seq(Item)]
  <2> HIDE DEF Item
  <2>1. inbox \in [Watchers -> Seq(Item)]
    BY DEF TypeOK, Item
  <2> QED
    BY <1>3, <2>1 DEF Receive
<1>5. /\ event.kind = "state" => event.user \in Users /\ event.state \in VoiceState
      /\ event.kind \in {"leave", "dismiss"} => event.user \in Users
      /\ event.kind = "states" => event.states \in [Users -> VoiceState \cup {NoState}]
      /\ event.kind \in {"ring", "rings"} => event.users \in SUBSET Users
  BY <1>2 DEF Event
<1>6. shown' \in [Watchers -> [Users -> VoiceState \cup {NoState}]]
  <2> HIDE DEF event
  <2>1. StatesAfter(event, shown[w]) \in [Users -> VoiceState \cup {NoState}]
    BY <1>5 DEF TypeOK, StatesAfter, UpdateVoiceState, RemoveVoiceState
  <2>2. shown' = [shown EXCEPT ![w] = StatesAfter(event, shown[w])]
    BY DEF Receive, event
  <2> QED
    BY <2>1, <2>2 DEF TypeOK
<1>7. ringing' \in [Watchers -> SUBSET Users]
  <2> HIDE DEF event
  <2>1. RingsAfter(event, ringing[w]) \in SUBSET Users
    BY <1>5 DEF TypeOK, RingsAfter, BatchUpdateVoiceRingState, RemoveVoiceRingState
  <2>2. ringing' = [ringing EXCEPT ![w] = RingsAfter(event, ringing[w])]
    BY DEF Receive, event
  <2> QED
    BY <2>1, <2>2 DEF TypeOK
<1> QED
  BY <1>4, <1>6, <1>7 DEF Receive, TypeOK, redis

\* The types are kept by every behaviour of the call, whatever the number of requests,
\* timers and events under way (channels.service.ts:638-961).
THEOREM TypeCorrect == Spec => []TypeOK
<1>1. ASSUME TypeOK, [Next]_vars
      PROVE  TypeOK'
  <2>1. ASSUME Next
        PROVE  TypeOK'
    <3>1. Callers \subseteq Users
      BY VoiceAssumption
    <3> QED
      BY <1>1, <2>1, <3>1, RingType, ArriveType, CallType, DismissType, ReceiveType DEF Next
  <2>2. CASE UNCHANGED vars
    BY <1>1, <2>2 DEF TypeOK, vars, redis, clients
  <2> QED
    BY <1>1, <2>1, <2>2
<1> QED
  BY <1>1, InitType, PTL DEF Spec

-----------------------------------------------------------------------------
(* Rings *)

\* What runs after a timer of a user is a dismissal for that user: a message never takes
\* the place of a timer, nor a timer of one user that of another.
TimerTaskIsOwn ==
    \A u \in Users : tasks[u] # Idle => tasks[u].op = "dismiss" /\ tasks[u].user = u

RingInvariant == TypeOK /\ TimerTaskIsOwn /\ RingHasTimer /\ ListedRingIsStored

\* Nothing rings at first.
LEMMA RingInvariantInit == Init => RingInvariant
BY InitType DEF Init, RingInvariant, TimerTaskIsOwn, RingHasTimer, ListedRingIsStored, Tasks

\* A new ring is stored with its listing and its timer.
LEMMA RingKeeps ==
    ASSUME RingInvariant, NEW by \in Users, Ring(by)
    PROVE  TimerTaskIsOwn' /\ RingHasTimer' /\ ListedRingIsStored'
<1> DEFINE rung == Users \ {by}
<1>1. /\ tasks' = tasks
      /\ ringKeys' = [u \in Users |-> IF u \in rung THEN by ELSE ringKeys[u]]
      /\ ringChannel' = ringChannel \cup rung
      /\ timers' = [u \in Users |-> IF u \in rung THEN timers[u] + 1 ELSE timers[u]]
  BY DEF Ring, RingTimers
<1>2. TimerTaskIsOwn'
  BY <1>1 DEF RingInvariant, TimerTaskIsOwn
<1>3. RingHasTimer'
  <2> SUFFICES ASSUME NEW u \in Users, ringKeys'[u] # NoRing
               PROVE  timers'[u] > 0 \/ (tasks'[u] # Idle /\ tasks'[u].stage \in {"get", "del"})
    BY DEF RingHasTimer
  <2>1. timers[u] \in Nat
    BY DEF RingInvariant, TypeOK
  <2>2. CASE u \in rung
    BY <1>1, <2>1, <2>2
  <2>3. CASE u \notin rung
    BY <1>1, <2>3 DEF RingInvariant, RingHasTimer
  <2> QED
    BY <2>2, <2>3
<1>4. ListedRingIsStored'
  <2> SUFFICES ASSUME NEW u \in ringChannel', ringKeys'[u] = NoRing
               PROVE  \E t \in Tasks : Dismissing(t)' /\ tasks'[t].user = u /\ tasks'[t].stage = "rem"
    BY DEF ListedRingIsStored
  <2>1. u \in Users
    BY <1>1 DEF RingInvariant, TypeOK
  <2>2. by # NoRing
    BY VoiceAssumption
  <2>3. u \in ringChannel /\ ringKeys[u] = NoRing
    BY <1>1, <2>1, <2>2
  <2> QED
    BY <1>1, <2>3 DEF RingInvariant, ListedRingIsStored, Dismissing
<1> QED
  BY <1>2, <1>3, <1>4

\* A timer that fires leaves its dismissal in its place.
LEMMA TimeoutKeeps ==
    ASSUME RingInvariant, NEW v \in Users, Timeout(v)
    PROVE  TimerTaskIsOwn' /\ RingHasTimer' /\ ListedRingIsStored'
<1>1. /\ tasks[v] = Idle
      /\ tasks' = [tasks EXCEPT ![v] = [op |-> "dismiss", user |-> v, stage |-> "get"]]
      /\ timers' = [timers EXCEPT ![v] = @ - 1]
      /\ ringKeys' = ringKeys /\ ringChannel' = ringChannel
  BY DEF Timeout, To, redis
<1>2. v \in Tasks /\ Users \subseteq Tasks /\ tasks \in [Tasks -> Task \cup {Idle}]
  BY DEF Tasks, RingInvariant, TypeOK
<1>3. TimerTaskIsOwn'
  BY <1>1, <1>2 DEF RingInvariant, TimerTaskIsOwn
<1>4. RingHasTimer'
  <2> SUFFICES ASSUME NEW u \in Users, ringKeys'[u] # NoRing
               PROVE  timers'[u] > 0 \/ (tasks'[u] # Idle /\ tasks'[u].stage \in {"get", "del"})
    BY DEF RingHasTimer
  <2>1. CASE u = v
    BY <1>1, <1>2, <2>1 DEF Idle
  <2>2. CASE u # v
    <3>1. tasks'[u] = tasks[u]
      BY <1>1, <1>2, <2>2
    <3>2. timers'[u] = timers[u]
      BY <1>1, <2>2 DEF RingInvariant, TypeOK
    <3> QED
      BY <1>1, <3>1, <3>2 DEF RingInvariant, RingHasTimer
  <2> QED
    BY <2>1, <2>2
<1>5. ListedRingIsStored'
  <2> SUFFICES ASSUME NEW u \in ringChannel, ringKeys[u] = NoRing
               PROVE  \E t \in Tasks : Dismissing(t)' /\ tasks'[t].user = u /\ tasks'[t].stage = "rem"
    BY <1>1 DEF ListedRingIsStored
  <2>1. PICK t \in Tasks : Dismissing(t) /\ tasks[t].user = u /\ tasks[t].stage = "rem"
    BY DEF RingInvariant, ListedRingIsStored
  <2>2. t # v
    BY <1>1, <2>1 DEF Dismissing, Idle
  <2>3. tasks'[t] = tasks[t]
    BY <1>1, <1>2, <2>2
  <2> QED
    BY <2>1, <2>3 DEF Dismissing
<1> QED
  BY <1>3, <1>4, <1>5

\* A step of a request that leaves rings and timers alone, but may clear the list, keeps
\* the invariant, unless it ends a dismissal.
LEMMA RequestKeeps ==
    ASSUME RingInvariant, NEW q \in Requests,
           \E task : tasks' = [tasks EXCEPT ![q] = task],
           ~ (Dismissing(q) /\ tasks[q].stage = "rem"),
           ringKeys' = ringKeys, ringChannel' \subseteq ringChannel, timers' = timers
    PROVE  TimerTaskIsOwn' /\ RingHasTimer' /\ ListedRingIsStored'
<1>1. q \in Tasks /\ Users \subseteq Tasks /\ q \notin Users
  BY VoiceAssumption DEF Tasks
<1>2. tasks \in [Tasks -> Task \cup {Idle}]
  BY DEF RingInvariant, TypeOK
<1>3. \A t \in Tasks \ {q} : tasks'[t] = tasks[t]
  BY <1>1, <1>2
<1>4. \A u \in Users : tasks'[u] = tasks[u]
  BY <1>1, <1>3
<1>5. TimerTaskIsOwn'
  BY <1>4 DEF RingInvariant, TimerTaskIsOwn
<1>6. RingHasTimer'
  BY <1>4 DEF RingInvariant, RingHasTimer
<1>7. ListedRingIsStored'
  <2> SUFFICES ASSUME NEW u \in ringChannel, ringKeys[u] = NoRing
               PROVE  \E t \in Tasks : Dismissing(t)' /\ tasks'[t].user = u /\ tasks'[t].stage = "rem"
    BY DEF ListedRingIsStored
  <2>1. PICK t \in Tasks : Dismissing(t) /\ tasks[t].user = u /\ tasks[t].stage = "rem"
    BY DEF RingInvariant, ListedRingIsStored
  <2>2. tasks'[t] = tasks[t]
    BY <1>3, <2>1
  <2> QED
    BY <2>1, <2>2 DEF Dismissing
<1> QED
  BY <1>5, <1>6, <1>7

\* A message that is taken touches no ring.
LEMMA ArriveKeeps ==
    ASSUME RingInvariant, NEW q \in Requests, Arrive(q)
    PROVE  TimerTaskIsOwn' /\ RingHasTimer' /\ ListedRingIsStored'
<1>1. tasks[q] = Idle /\ UNCHANGED <<ringKeys, ringChannel, timers>>
  BY DEF Arrive, Join, Leave, UpdateGet, GetStates, GetRings, CanTake, redis
<1>2. \E task : tasks' = [tasks EXCEPT ![q] = task]
  BY DEF Arrive, Join, Leave, UpdateGet, GetStates, GetRings, To
<1>3. ~ Dismissing(q)
  BY <1>1 DEF Dismissing, Idle
<1> QED
  BY <1>1, <1>2, <1>3, RequestKeeps

\* A further step of a call touches no ring, but for the list that the end of the call
\* empties.
LEMMA CallKeeps ==
    ASSUME RingInvariant, NEW q \in Requests, CallStep(q)
    PROVE  TimerTaskIsOwn' /\ RingHasTimer' /\ ListedRingIsStored'
<1>1. ringKeys' = ringKeys /\ ringChannel' \subseteq ringChannel /\ timers' = timers
  BY DEF CallStep, JoinMember, LeaveMember, LeaveMembers, ClearRings, ClearRing,
         ClearChannel, UpdateSet, UpdateEmit, SendStates, SendRings, redis
<1>2. \E task : tasks' = [tasks EXCEPT ![q] = task]
  BY DEF CallStep, JoinMember, LeaveMember, LeaveMembers, ClearRings, ClearRing,
         ClearChannel, UpdateSet, UpdateEmit, SendStates, SendRings, To, Finish
<1>3. ~ (Dismissing(q) /\ tasks[q].stage = "rem")
  BY DEF CallStep, JoinMember, LeaveMember, LeaveMembers, ClearRings, ClearRing,
         ClearChannel, UpdateSet, UpdateEmit, SendStates, SendRings, At, Dismissing
<1> QED
  BY <1>1, <1>2, <1>3, RequestKeeps

\* A dismissal deletes the ring before it leaves the timer's place, and takes the user off
\* the list before it is done.
LEMMA DismissKeeps ==
    ASSUME RingInvariant, NEW t \in Tasks, DismissStep(t)
    PROVE  TimerTaskIsOwn' /\ RingHasTimer' /\ ListedRingIsStored'
<1> DEFINE v == tasks[t].user
<1>1. /\ tasks \in [Tasks -> Task \cup {Idle}] /\ Users \subseteq Tasks
      /\ ringKeys \in [Users -> Users \cup {NoRing}] /\ ringChannel \subseteq Users
  BY DEF RingInvariant, TypeOK, Tasks
<1>2. timers' = timers /\ Dismissing(t)
  BY DEF DismissStep, DismissGet, DismissDel, DismissRem
<1>3. v \in Users
  BY <1>1, <1>2, TaskFields DEF Dismissing
<1>4. t \in Users => tasks[t].op = "dismiss" /\ v = t
  BY <1>2 DEF RingInvariant, TimerTaskIsOwn, Dismissing, Idle
<1>5. CASE DismissGet(t)
  <2>1. ringKeys' = ringKeys /\ ringChannel' = ringChannel /\ tasks[t].stage = "get"
    BY <1>5 DEF DismissGet, redis
  <2>2. \A s \in Tasks \ {t} : tasks'[s] = tasks[s]
    BY <1>1, <1>5 DEF DismissGet, To, Finish
  <2>3. \/ tasks'[t] = Idle /\ ringKeys[v] = NoRing
        \/ /\ tasks'[t].stage = "del" /\ tasks'[t].user = v /\ tasks'[t].op = tasks[t].op
           /\ tasks'[t] # Idle
    <3>1. CASE ringKeys[v] = NoRing
      BY <1>1, <1>5, <3>1 DEF DismissGet, To, Finish
    <3>2. CASE ringKeys[v] # NoRing
      BY <1>1, <1>2, <1>5, <3>2 DEF DismissGet, To, Dismissing, Idle
    <3> QED
      BY <3>1, <3>2
  <2>4. TimerTaskIsOwn'
    BY <1>1, <1>4, <2>2, <2>3 DEF RingInvariant, TimerTaskIsOwn
  <2>5. RingHasTimer'
    <3> SUFFICES ASSUME NEW u \in Users, ringKeys[u] # NoRing, ~ timers[u] > 0
                 PROVE  tasks'[u] # Idle /\ tasks'[u].stage \in {"get", "del"}
      BY <1>2, <2>1 DEF RingHasTimer
    <3>1. tasks[u] # Idle /\ tasks[u].stage \in {"get", "del"}
      BY DEF RingInvariant, RingHasTimer
    <3>2. CASE u = t
      BY <1>4, <2>3, <3>2
    <3>3. CASE u # t
      BY <1>1, <2>2, <3>1, <3>3
    <3> QED
      BY <3>2, <3>3
  <2>6. ListedRingIsStored'
    <3> SUFFICES ASSUME NEW u \in ringChannel, ringKeys[u] = NoRing
                 PROVE  \E s \in Tasks : Dismissing(s)' /\ tasks'[s].user = u /\ tasks'[s].stage = "rem"
      BY <2>1 DEF ListedRingIsStored
    <3>1. PICK s \in Tasks : Dismissing(s) /\ tasks[s].user = u /\ tasks[s].stage = "rem"
      BY DEF RingInvariant, ListedRingIsStored
    <3>2. tasks'[s] = tasks[s]
      BY <2>1, <2>2, <3>1
    <3> QED
      BY <3>1, <3>2 DEF Dismissing
  <2> QED
    BY <2>4, <2>5, <2>6
<1>6. CASE DismissDel(t)
  <2>1. /\ ringKeys' = [ringKeys EXCEPT ![v] = NoRing] /\ ringChannel' = ringChannel
        /\ tasks' = [tasks EXCEPT ![t] = [tasks[t] EXCEPT !.stage = "rem"]]
        /\ tasks[t].stage = "del"
    BY <1>6 DEF DismissDel
  <2>2. tasks[t] \in Task
    BY <1>1, <1>2, TaskFields DEF Dismissing
  <2>3. /\ tasks'[t].op = tasks[t].op /\ tasks'[t].user = v /\ tasks'[t].stage = "rem"
        /\ \A s \in Tasks \ {t} : tasks'[s] = tasks[s]
    <3>1. [tasks[t] EXCEPT !.stage = "rem"] \in Task
      BY <1>1, <1>2, <2>1, TaskStages DEF Dismissing
    <3>2. /\ [tasks[t] EXCEPT !.stage = "rem"].op = tasks[t].op
          /\ [tasks[t] EXCEPT !.stage = "rem"].user = v
          /\ [tasks[t] EXCEPT !.stage = "rem"].stage = "rem"
      BY <2>1, <2>2 DEF Task
    <3> QED
      BY <1>1, <2>1, <3>2
  <2>4. TimerTaskIsOwn'
    BY <1>1, <1>4, <2>3 DEF RingInvariant, TimerTaskIsOwn
  <2>5. RingHasTimer'
    <3> SUFFICES ASSUME NEW u \in Users, ringKeys'[u] # NoRing, ~ timers[u] > 0
                 PROVE  tasks'[u] # Idle /\ tasks'[u].stage \in {"get", "del"}
      BY <1>2 DEF RingHasTimer
    <3>1. u # v /\ ringKeys[u] # NoRing
      BY <1>1, <1>3, <2>1
    <3>2. tasks'[u] = tasks[u]
      BY <1>1, <1>4, <2>3, <3>1
    <3> QED
      BY <3>1, <3>2 DEF RingInvariant, RingHasTimer
  <2>6. ListedRingIsStored'
    <3> SUFFICES ASSUME NEW u \in ringChannel, ringKeys'[u] = NoRing
                 PROVE  \E s \in Tasks : Dismissing(s)' /\ tasks'[s].user = u /\ tasks'[s].stage = "rem"
      BY <2>1 DEF ListedRingIsStored
    <3>1. CASE u = v
      BY <1>2, <2>3, <3>1 DEF Dismissing
    <3>2. CASE u # v
      <4>1. ringKeys[u] = NoRing
        BY <1>1, <2>1, <3>2
      <4>2. PICK s \in Tasks : Dismissing(s) /\ tasks[s].user = u /\ tasks[s].stage = "rem"
        BY <4>1 DEF RingInvariant, ListedRingIsStored
      <4>3. tasks'[s] = tasks[s]
        BY <2>1, <2>3, <4>2
      <4> QED
        BY <4>2, <4>3 DEF Dismissing
    <3> QED
      BY <3>1, <3>2
  <2> QED
    BY <2>4, <2>5, <2>6
<1>7. CASE DismissRem(t)
  <2>1. /\ ringKeys' = ringKeys /\ ringChannel' = ringChannel \ {v}
        /\ tasks' = [tasks EXCEPT ![t] = Idle] /\ tasks[t].stage = "rem"
    BY <1>7 DEF DismissRem, Finish, To
  <2>2. tasks'[t] = Idle /\ \A s \in Tasks \ {t} : tasks'[s] = tasks[s]
    BY <1>1, <2>1
  <2>3. TimerTaskIsOwn'
    BY <1>1, <2>2 DEF RingInvariant, TimerTaskIsOwn
  <2>4. RingHasTimer'
    <3> SUFFICES ASSUME NEW u \in Users, ringKeys[u] # NoRing, ~ timers[u] > 0
                 PROVE  tasks'[u] # Idle /\ tasks'[u].stage \in {"get", "del"}
      BY <1>2, <2>1 DEF RingHasTimer
    <3>1. tasks[u] # Idle /\ tasks[u].stage \in {"get", "del"}
      BY DEF RingInvariant, RingHasTimer
    <3> QED
      BY <1>1, <2>1, <2>2, <3>1
  <2>5. ListedRingIsStored'
    <3> SUFFICES ASSUME NEW u \in ringChannel \ {v}, ringKeys[u] = NoRing
                 PROVE  \E s \in Tasks : Dismissing(s)' /\ tasks'[s].user = u /\ tasks'[s].stage = "rem"
      BY <2>1 DEF ListedRingIsStored
    <3>1. PICK s \in Tasks : Dismissing(s) /\ tasks[s].user = u /\ tasks[s].stage = "rem"
      BY DEF RingInvariant, ListedRingIsStored
    <3>2. tasks'[s] = tasks[s]
      BY <2>2, <3>1
    <3> QED
      BY <3>1, <3>2 DEF Dismissing
  <2> QED
    BY <2>3, <2>4, <2>5
<1> QED
  BY <1>5, <1>6, <1>7 DEF DismissStep

\* A client that receives an event touches no ring.
LEMMA ReceiveKeeps ==
    ASSUME RingInvariant, UNCHANGED <<redis, timers, tasks>>
    PROVE  TimerTaskIsOwn' /\ RingHasTimer' /\ ListedRingIsStored'
BY DEF RingInvariant, TimerTaskIsOwn, RingHasTimer, ListedRingIsStored, Dismissing, redis

\* The invariant of rings is kept by every behaviour.
LEMMA RingInvariantHolds == Spec => []RingInvariant
<1>1. ASSUME RingInvariant, TypeOK', [Next]_vars
      PROVE  RingInvariant'
  <2>1. Callers \subseteq Users
    BY VoiceAssumption
  <2>2. TimerTaskIsOwn' /\ RingHasTimer' /\ ListedRingIsStored'
    <3>1. CASE \E u \in Callers : Ring(u)
      BY <1>1, <2>1, <3>1, RingKeeps
    <3>2. CASE \E u \in Users : Timeout(u)
      BY <1>1, <3>2, TimeoutKeeps
    <3>3. CASE \E q \in Requests : Arrive(q) \/ CallStep(q)
      BY <1>1, <3>3, ArriveKeeps, CallKeeps
    <3>4. CASE \E t \in Tasks : DismissStep(t)
      BY <1>1, <3>4, DismissKeeps
    <3>5. CASE \E w \in Watchers : \E i \in 1..Len(inbox[w]) : Receive(w, i)
      BY <1>1, <3>5, ReceiveKeeps DEF Receive
    <3>6. CASE UNCHANGED vars
      BY <1>1, <3>6, ReceiveKeeps DEF vars
    <3> QED
      BY <1>1, <3>1, <3>2, <3>3, <3>4, <3>5, <3>6 DEF Next
  <2> QED
    BY <1>1, <2>2 DEF RingInvariant
<1> QED
  BY <1>1, RingInvariantInit, TypeCorrect, PTL DEF Spec

\* No ring is left without a timer, or a dismissal past its timer, that will delete it,
\* for every number of rings, timers and requests that overlap (channels.service.ts:682-740).
THEOREM RingsAreTimed == Spec => []RingHasTimer
BY RingInvariantHolds, PTL DEF RingInvariant

\* A user who is listed as rung has a ring, but for the step between the deletion of the
\* ring and that of the listing (739-740), for every number of dismissals that overlap.
THEOREM ListMatchesRings == Spec => []ListedRingIsStored
BY RingInvariantHolds, PTL DEF RingInvariant

-----------------------------------------------------------------------------
(* Events under way *)

Item == [event : Event, late : BOOLEAN]

\* What is sent of an event is the event or nothing.
LEMMA SentItems ==
    ASSUME NEW w, NEW recipients, NEW first, NEW event \in Event
    PROVE  LET s == Sent(w, recipients, first, event) IN
           /\ s \in Seq(Item)
           /\ \A k \in 1..Len(s) : s[k] = [event |-> event, late |-> w # first]
           /\ w \in recipients => s = <<[event |-> event, late |-> w # first]>>
           /\ w \notin recipients => Len(s) = 0
<1>1. [event |-> event, late |-> w # first] \in Item
  BY DEF Item
<1>2. CASE w \in recipients
  BY <1>1, <1>2 DEF Sent
<1>3. CASE w \notin recipients
  <2>1. Sent(w, recipients, first, event) = << >>
    BY <1>3 DEF Sent
  <2> QED
    BY <1>3, <2>1, EmptySeq
<1> QED
  BY <1>2, <1>3

\* What is left in the place of each event when one is taken out.
LEMMA RemoveAtItems ==
    ASSUME NEW S, NEW s \in Seq(S), NEW i \in 1..Len(s), NEW r, r = RemoveAt(s, i)
    PROVE  /\ r \in Seq(S) /\ Len(r) \in Nat /\ Len(s) = Len(r) + 1
           /\ \A k \in 1..Len(r) : r[k] = IF k < i THEN s[k] ELSE s[k + 1]
<1>1. Len(s) \in Nat /\ \A j \in 1..Len(s) : s[j] \in S
  BY LenProperties, ElementOfSeq
<1>2. PICK a, b : a = SubSeq(s, 1, i - 1) /\ b = SubSeq(s, i + 1, Len(s))
  OBVIOUS
<1>3. /\ a \in Seq(S) /\ Len(a) = i - 1
      /\ \A k \in 1..(i - 1) : a[k] = s[k]
  BY <1>1, <1>2, SubSeqProperties
<1>4. /\ b \in Seq(S) /\ Len(b) = Len(s) - i
      /\ \A k \in 1..(Len(s) - i) : b[k] = s[k + i]
  <2>1. \A k \in (i + 1)..Len(s) : s[k] \in S
    BY <1>1
  <2>2. /\ b \in Seq(S) /\ Len(b) = IF i + 1 <= Len(s) THEN Len(s) - (i + 1) + 1 ELSE 0
        /\ \A k \in 1..(Len(s) - (i + 1) + 1) : b[k] = s[(i + 1) + k - 1]
    BY <1>1, <1>2, <2>1, SubSeqProperties
  <2> QED
    BY <1>1, <2>2
<1>5. r = a \o b
  BY <1>2 DEF RemoveAt
<1>6. /\ r \in Seq(S) /\ Len(r) = Len(s) - 1
      /\ \A k \in 1..(Len(s) - 1) : r[k] = IF k <= i - 1 THEN a[k] ELSE b[k - (i - 1)]
  <2>1. /\ r \in Seq(S) /\ Len(r) = Len(a) + Len(b)
        /\ \A k \in 1..(Len(a) + Len(b)) : r[k] = IF k <= Len(a) THEN a[k] ELSE b[k - Len(a)]
    <3>1. a \in Seq(S) /\ b \in Seq(S)
      BY <1>3, <1>4
    <3>2. /\ a \o b \in Seq(S) /\ Len(a \o b) = Len(a) + Len(b)
          /\ \A k \in 1..(Len(a) + Len(b)) :
                (a \o b)[k] = IF k <= Len(a) THEN a[k] ELSE b[k - Len(a)]
      BY <3>1, ConcatProperties
    <3> QED
      BY <1>5, <3>2
  <2>2. Len(a) + Len(b) = Len(s) - 1
    BY <1>1, <1>3, <1>4
  <2> QED
    BY <1>3, <2>1, <2>2
<1>7. PICK n \in Nat : Len(s) = n + 1 /\ Len(r) = n
  BY <1>1, <1>6
<1>8. ASSUME NEW k \in 1..n
      PROVE  r[k] = IF k < i THEN s[k] ELSE s[k + 1]
  <2>1. CASE k < i
    BY <1>1, <1>3, <1>6, <1>7, <2>1
  <2>2. CASE ~ k < i
    <3>1. k - (i - 1) \in 1..(Len(s) - i) /\ k - (i - 1) + i = k + 1
      BY <1>1, <1>7, <2>2
    <3>2. r[k] = b[k - (i - 1)]
      BY <1>1, <1>6, <1>7, <2>2
    <3> QED
      BY <1>4, <2>2, <3>1, <3>2
  <2> QED
    BY <2>1, <2>2
<1> QED
  BY <1>6, <1>7, <1>8

\* Where each event is before and after.
LEMMA RemoveAtMoves ==
    ASSUME NEW S, NEW s \in Seq(S), NEW i \in 1..Len(s), NEW r, r = RemoveAt(s, i),
           NEW n \in Nat, n = Len(r)
    PROVE  /\ \A k \in 1..(n + 1) : k # i =>
                 \E l \in 1..n : l = (IF k < i THEN k ELSE k - 1) /\ r[l] = s[k]
           /\ \A l \in 1..n :
                 \E k \in 1..(n + 1) : k = (IF l < i THEN l ELSE l + 1) /\ r[l] = s[k]
<1>1. /\ Len(s) = n + 1 /\ i \in 1..(n + 1)
      /\ \A k \in 1..n : r[k] = IF k < i THEN s[k] ELSE s[k + 1]
  BY RemoveAtItems
<1>2. ASSUME NEW k \in 1..(n + 1), k # i
      PROVE  \E l \in 1..n : l = (IF k < i THEN k ELSE k - 1) /\ r[l] = s[k]
  <2>1. PICK l : l = IF k < i THEN k ELSE k - 1
    OBVIOUS
  <2>2. l \in 1..n /\ r[l] = s[k]
    BY <1>1, <1>2, <2>1
  <2> QED
    BY <2>1, <2>2
<1>3. ASSUME NEW l \in 1..n
      PROVE  \E k \in 1..(n + 1) : k = (IF l < i THEN l ELSE l + 1) /\ r[l] = s[k]
  BY <1>1
<1> QED
  BY <1>2, <1>3

-----------------------------------------------------------------------------
(* The end of a ring reaches the client *)

Rings(event, w) == event.kind \in {"ring", "rings"} /\ w \in event.users

\* The dismissal of a ring by a client that is not its caller's, which nothing overtakes.
Ends(item, w) == item.late /\ item.event.kind = "dismiss" /\ item.event.user = w

\* Whatever rings at w's client, or will, is followed by its end.
EndsRinging(events, rings, w) ==
    /\ w \in rings => \E j \in 1..Len(events) : Ends(events[j], w)
    /\ \A k \in 1..Len(events) : Rings(events[k].event, w) =>
          \E j \in 1..Len(events) : j > k /\ Ends(events[j], w)

\* A dismissal that will tell u of the end of a ring is under way.
Ending(u) ==
    \E t \in Tasks : Dismissing(t) /\ tasks[t].user = u /\ tasks[t].stage \in {"del", "rem"}

NobodyRingsAlone ==
    /\ \A u \in Users : ringKeys[u] # u
    /\ \A t \in Tasks : Dismissing(t) /\ tasks[t].stage \in {"del", "rem"} =>
          tasks[t].by # tasks[t].user

RingsAreEnded ==
    \A w \in Watchers :
        ringKeys[w] = NoRing /\ ~Ending(w) => EndsRinging(inbox[w], ringing[w], w)

\* Events that ring nobody leave the end of what rings to come.
LEMMA QuietEvents ==
    ASSUME NEW w, NEW rings, NEW events \in Seq(Item), EndsRinging(events, rings, w),
           NEW s \in Seq(Item), \A k \in 1..Len(s) : ~Rings(s[k].event, w)
    PROVE  EndsRinging(events \o s, rings, w)
<1>1. PICK m, n \in Nat : m = Len(events) /\ n = Len(s)
  BY LenProperties
<1>2. PICK all : all = events \o s
  OBVIOUS
<1>3. /\ Len(all) = m + n
      /\ \A k \in 1..(m + n) : all[k] = IF k <= m THEN events[k] ELSE s[k - m]
  BY <1>1, <1>2, ConcatProperties
<1>4. \A j \in 1..m : j \in 1..(m + n) /\ all[j] = events[j]
  BY <1>1, <1>3
<1>5. ASSUME NEW k \in 1..(m + n), Rings(all[k].event, w)
      PROVE  \E j \in 1..(m + n) : j > k /\ Ends(all[j], w)
  <2>1. k <= m
    <3> SUFFICES ASSUME ~ k <= m PROVE FALSE
      OBVIOUS
    <3>1. k - m \in 1..n /\ all[k] = s[k - m]
      BY <1>1, <1>3
    <3> QED
      BY <1>1, <1>5, <3>1
  <2>2. PICK j \in 1..m : j > k /\ Ends(events[j], w)
    BY <1>1, <1>4, <1>5, <2>1 DEF EndsRinging
  <2> QED
    BY <1>4, <2>2
<1>6. w \in rings => \E j \in 1..(m + n) : Ends(all[j], w)
  BY <1>1, <1>4 DEF EndsRinging
<1> QED
  BY <1>2, <1>3, <1>5, <1>6 DEF EndsRinging

\* A dismissal that is sent ends all that was sent before.
LEMMA DismissalEnds ==
    ASSUME NEW w, NEW rings, NEW events \in Seq(Item), NEW item \in Item, Ends(item, w)
    PROVE  EndsRinging(events \o <<item>>, rings, w)
<1>1. PICK m \in Nat : m = Len(events)
  BY LenProperties
<1>2. PICK all : all = events \o <<item>>
  OBVIOUS
<1>3. /\ Len(all) = m + 1
      /\ \A k \in 1..(m + 1) : all[k] = IF k <= m THEN events[k] ELSE <<item>>[k - m]
  BY <1>1, <1>2, ConcatProperties
<1>4. m + 1 \in 1..(m + 1) /\ all[m + 1] = item
  BY <1>1, <1>3
<1>5. \A k \in 1..(m + 1) : Rings(all[k].event, w) => k < m + 1
  <2>1. ~Rings(item.event, w)
    BY DEF Rings, Ends
  <2> QED
    BY <1>1, <1>4, <2>1
<1> QED
  BY <1>2, <1>3, <1>4, <1>5 DEF EndsRinging

\* An event that is received leaves the end of what rings to come: a ring is not overtaken by
\* its end.
LEMMA ReceiveEnds ==
    ASSUME NEW w \in Users, NEW rings, NEW events \in Seq(Item), EndsRinging(events, rings, w),
           NEW i \in 1..Len(events), i = 1 \/ ~events[i].late,
           NEW r, r = RemoveAt(events, i)
    PROVE  EndsRinging(r, RingsAfter(events[i].event, rings), w)
<1>1. PICK n \in Nat : n = Len(r)
  BY RemoveAtItems
<1>2. /\ Len(events) = n + 1
      /\ \A k \in 1..n : r[k] = IF k < i THEN events[k] ELSE events[k + 1]
  BY <1>1, RemoveAtItems
<1>3. \A k \in 1..(n + 1) : k # i =>
         \E l \in 1..n : l = (IF k < i THEN k ELSE k - 1) /\ r[l] = events[k]
  <2> SUFFICES ASSUME NEW k \in 1..(n + 1), k # i
               PROVE  \E l \in 1..n : l = (IF k < i THEN k ELSE k - 1) /\ r[l] = events[k]
    OBVIOUS
  <2>1. i \in 1..(n + 1)
    BY <1>2
  <2>2. CASE k < i
    <3>1. k \in 1..n /\ r[k] = events[k]
      BY <1>2, <2>1, <2>2
    <3> QED
      BY <2>2, <3>1
  <2>3. CASE k > i
    <3>1. k - 1 \in 1..n /\ ~(k - 1 < i) /\ (k - 1) + 1 = k
      BY <2>1, <2>3
    <3>2. r[k - 1] = events[k]
      BY <1>2, <3>1
    <3> QED
      BY <2>3, <3>1, <3>2
  <2> QED
    BY <2>1, <2>2, <2>3
<1>4. PICK event : event = events[i].event
  OBVIOUS
<1>5. ASSUME w \in RingsAfter(event, rings)
      PROVE  \E j \in 1..n : Ends(r[j], w)
  <2>1. \E j \in 1..(n + 1) : j # i /\ Ends(events[j], w)
    <3>1. CASE Rings(event, w)
      BY <1>1, <1>2, <1>4, <3>1 DEF EndsRinging
    <3>2. CASE ~Rings(event, w)
      <4>1. w \in rings /\ ~(event.kind = "dismiss" /\ event.user = w)
        BY <1>5, <3>2 DEF RingsAfter, BatchUpdateVoiceRingState, RemoveVoiceRingState, Rings
      <4> QED
        BY <1>2, <1>4, <4>1 DEF EndsRinging, Ends
    <3> QED
      BY <3>1, <3>2
  <2> QED
    BY <1>3, <2>1
<1>6. ASSUME NEW l \in 1..n, Rings(r[l].event, w)
      PROVE  \E j \in 1..n : j > l /\ Ends(r[j], w)
  <2>1. PICK k \in 1..(n + 1) : k = (IF l < i THEN l ELSE l + 1) /\ r[l] = events[k]
    BY <1>1, <1>2
  <2>2. PICK j \in 1..(n + 1) : j > k /\ Ends(events[j], w)
    BY <1>2, <1>6, <2>1 DEF EndsRinging
  <2>3. j # i
    BY <1>1, <1>2, <2>1, <2>2 DEF Ends
  <2>4. PICK m \in 1..n : m = (IF j < i THEN j ELSE j - 1) /\ r[m] = events[j]
    BY <1>3, <2>3
  <2>5. m > l
    BY <2>1, <2>2, <2>3, <2>4
  <2> QED
    BY <2>2, <2>4, <2>5
<1> QED
  BY <1>1, <1>4, <1>5, <1>6 DEF EndsRinging

\* A dismissal that is under way stays so when another task steps.
LEMMA EndingStays ==
    ASSUME NEW t, NEW w, \A s \in Tasks \ {t} : tasks'[s] = tasks[s],
           ~(Dismissing(t) /\ tasks[t].user = w /\ tasks[t].stage \in {"del", "rem"}),
           ~Ending(w)'
    PROVE  ~Ending(w)
BY DEF Ending, Dismissing

\* A step that sends w only events that do not ring, or that are of a ring w still has.
LEMMA QuietStep ==
    ASSUME TypeOK, RingsAreEnded, NEW w \in Watchers, ringKeys[w] = NoRing, ~Ending(w),
           UNCHANGED ringing, NEW s \in Seq(Item), inbox'[w] = inbox[w] \o s,
           \A k \in 1..Len(s) : ~Rings(s[k].event, w)
    PROVE  EndsRinging(inbox[w], ringing[w], w)'
<1>1. inbox[w] \in Seq(Item)
  BY DEF TypeOK, Item
<1>2. EndsRinging(inbox[w], ringing[w], w)
  BY DEF RingsAreEnded
<1>3. EndsRinging(inbox[w] \o s, ringing[w], w)
  BY <1>1, <1>2, QuietEvents
<1> QED
  BY <1>3

\* As when it sends nothing at all.
LEMMA SilentStep ==
    ASSUME RingsAreEnded, NEW w \in Watchers, ringKeys[w] = NoRing, ~Ending(w),
           UNCHANGED <<inbox, ringing>>
    PROVE  EndsRinging(inbox[w], ringing[w], w)'
BY DEF RingsAreEnded

\* As when it emits one event.
LEMMA EmitStep ==
    ASSUME TypeOK, RingsAreEnded, NEW w \in Watchers, ringKeys[w] = NoRing, ~Ending(w),
           NEW recipients, NEW first, NEW event \in Event, Emit(recipients, first, event),
           ~Rings(event, w)
    PROVE  EndsRinging(inbox[w], ringing[w], w)'
<1>1. PICK s : s = Sent(w, recipients, first, event)
  OBVIOUS
<1>2. s \in Seq(Item) /\ \A k \in 1..Len(s) : s[k] = [event |-> event, late |-> w # first]
  BY <1>1, SentItems
<1>3. inbox'[w] = inbox[w] \o s /\ UNCHANGED ringing
  BY <1>1 DEF Emit
<1>4. \A k \in 1..Len(s) : ~Rings(s[k].event, w)
  BY <1>2
<1> QED
  BY <1>2, <1>3, <1>4, QuietStep

\* What a dismissal is followed by does not ring.
LEMMA AfterDismissalIsQuiet ==
    ASSUME NEW w, NEW task \in Task \cup {Idle}
    PROVE  /\ AfterDismissal(w, task) \in Seq(Item)
           /\ \A k \in 1..Len(AfterDismissal(w, task)) :
                 ~Rings(AfterDismissal(w, task)[k].event, w)
<1> DEFINE event == [kind |-> "state", user |-> task.user, state |-> task.state]
<1>1. CASE task.op = "join"
  <2>1. task.user \in Users /\ task.state \in VoiceState
    BY <1>1, TaskFields
  <2>2. event \in Event /\ ~Rings(event, w)
    BY <2>1 DEF Event, Rings
  <2>3. AfterDismissal(w, task) = Sent(w, Users, First, event)
    BY <1>1 DEF AfterDismissal
  <2> HIDE DEF event
  <2>4. PICK s : s = Sent(w, Users, First, event)
    OBVIOUS
  <2>5. s \in Seq(Item) /\ \A k \in 1..Len(s) : s[k] = [event |-> event, late |-> w # First]
    BY <2>2, <2>4, SentItems
  <2> QED
    BY <2>2, <2>3, <2>4, <2>5
<1>2. CASE task.op # "join"
  <2>1. AfterDismissal(w, task) = << >>
    BY <1>2 DEF AfterDismissal
  <2> QED
    BY <2>1, EmptySeq
<1> QED
  BY <1>1, <1>2

\* A new ring, and a timer that fires.
LEMMA RingIsEnded ==
    ASSUME RingInvariant, NobodyRingsAlone, RingsAreEnded,
           NEW by \in Users, Ring(by) \/ Timeout(by)
    PROVE  RingsAreEnded' /\ NobodyRingsAlone'
<1>1. TypeOK /\ Watchers \subseteq Users
  BY VoiceAssumption DEF RingInvariant
<1>2. CASE Ring(by)
  <2>1. /\ UNCHANGED tasks
        /\ ringKeys' = [u \in Users |-> IF u \in Users \ {by} THEN by ELSE ringKeys[u]]
        /\ Emit(Users, First, [kind |-> "ring", users |-> Users \ {by}])
    BY <1>2 DEF Ring
  <2>2. NobodyRingsAlone'
    BY <2>1 DEF NobodyRingsAlone, Dismissing
  <2>3. by # NoRing
    BY VoiceAssumption
  <2>4. ASSUME NEW w \in Watchers, ringKeys'[w] = NoRing, ~Ending(w)'
        PROVE  EndsRinging(inbox[w], ringing[w], w)'
    <3> DEFINE event == [kind |-> "ring", users |-> Users \ {by}]
    <3>1. w = by /\ ringKeys[w] = NoRing
      BY <1>1, <2>1, <2>3, <2>4
    <3>2. ~Ending(w)
      BY <2>1, <2>4 DEF Ending, Dismissing
    <3>3. event \in Event /\ ~Rings(event, w) /\ Emit(Users, First, event)
      BY <2>1, <3>1 DEF Event, Rings
    <3> HIDE DEF event
    <3> QED
      BY <1>1, <3>1, <3>2, <3>3, EmitStep
  <2> QED
    BY <2>2, <2>4 DEF RingsAreEnded
<1>3. CASE Timeout(by)
  <2>1. /\ UNCHANGED <<redis, clients>> /\ tasks[by] = Idle
        /\ tasks' = [tasks EXCEPT ![by] = [op |-> "dismiss", user |-> by, stage |-> "get"]]
        /\ tasks \in [Tasks -> Task \cup {Idle}] /\ by \in Tasks
    BY <1>1, <1>3 DEF Timeout, To, TypeOK, Tasks
  <2>2. NobodyRingsAlone'
    BY <2>1 DEF NobodyRingsAlone, Dismissing, redis
  <2>3. ASSUME NEW w \in Watchers, ringKeys'[w] = NoRing, ~Ending(w)'
        PROVE  EndsRinging(inbox[w], ringing[w], w)'
    <3>1. ~Ending(w)
      BY <2>1, <2>3, EndingStays DEF Dismissing, Idle
    <3> QED
      BY <2>1, <2>3, <3>1, SilentStep DEF redis, clients
  <2> QED
    BY <2>2, <2>3 DEF RingsAreEnded
<1> QED
  BY <1>2, <1>3

\* A dismissal that has deleted a ring tells its user.
LEMMA DismissIsTold ==
    ASSUME RingInvariant, NobodyRingsAlone, RingsAreEnded, NEW t \in Tasks, DismissStep(t)
    PROVE  RingsAreEnded' /\ NobodyRingsAlone'
<1>1. PICK task : task = tasks[t]
  OBVIOUS
<1>2. /\ TypeOK /\ Watchers \subseteq Users /\ tasks \in [Tasks -> Task \cup {Idle}]
      /\ ringKeys \in [Users -> Users \cup {NoRing}]
  BY VoiceAssumption DEF RingInvariant, TypeOK
<1>3. /\ task.op \in {"join", "dismiss"} /\ task \in Task /\ task.user \in Users
      /\ task.op = "join" => task.state \in VoiceState
  <2>1. task.op \in {"join", "dismiss"}
    BY <1>1 DEF DismissStep, DismissGet, DismissDel, DismissRem, Dismissing
  <2> QED
    BY <1>1, <1>2, <2>1, TaskFields
<1>4. CASE DismissGet(t)
  <2>1. task.stage = "get" /\ UNCHANGED <<ringKeys, ringing>>
    BY <1>1, <1>4 DEF DismissGet, redis
  <2>2. /\ \A s \in Tasks \ {t} : tasks'[s] = tasks[s]
        /\ \/ tasks'[t] = Idle
           \/ /\ tasks'[t].by = ringKeys[task.user] /\ tasks'[t].user = task.user
    <3>1. CASE ringKeys[task.user] = NoRing
      BY <1>1, <1>2, <1>4, <3>1 DEF DismissGet, Finish, To
    <3>2. CASE ringKeys[task.user] # NoRing
      <4>1. PICK new : /\ tasks' = [tasks EXCEPT ![t] = new]
                       /\ new.by = ringKeys[task.user] /\ new.user = task.user
        BY <1>1, <1>4, <3>2 DEF DismissGet, To
      <4> QED
        BY <1>2, <4>1
    <3> QED
      BY <3>1, <3>2
  <2>3. NobodyRingsAlone'
    BY <1>3, <2>1, <2>2 DEF NobodyRingsAlone, Dismissing, Idle
  <2>4. ASSUME NEW w \in Watchers, ringKeys'[w] = NoRing, ~Ending(w)'
        PROVE  EndsRinging(inbox[w], ringing[w], w)'
    <3>1. ~Ending(w) /\ ringKeys[w] = NoRing
      BY <1>1, <2>1, <2>2, <2>4, EndingStays
    <3>2. CASE ringKeys[task.user] = NoRing
      <4>1. inbox'[w] = inbox[w] \o AfterDismissal(w, task)
        BY <1>1, <1>4, <3>2 DEF DismissGet
      <4> QED
        BY <1>2, <1>3, <2>1, <3>1, <4>1, AfterDismissalIsQuiet, QuietStep
    <3>3. CASE ringKeys[task.user] # NoRing
      <4>1. UNCHANGED inbox
        BY <1>1, <1>4, <3>3 DEF DismissGet
      <4> QED
        BY <2>1, <3>1, <4>1, SilentStep
    <3> QED
      BY <3>2, <3>3
  <2> QED
    BY <2>3, <2>4 DEF RingsAreEnded
<1>5. CASE DismissDel(t)
  <2>1. /\ ringKeys' = [ringKeys EXCEPT ![task.user] = NoRing] /\ task.stage = "del"
        /\ UNCHANGED clients
        /\ tasks' = [tasks EXCEPT ![t] = [task EXCEPT !.stage = "rem"]]
    BY <1>1, <1>5 DEF DismissDel
  <2>2. PICK new : /\ new = [task EXCEPT !.stage = "rem"] /\ new.by = task.by
                   /\ new.op = task.op /\ new.user = task.user /\ new.stage = "rem"
    <3>1. task.op \in {"join", "dismiss"} /\ task.stage = "del"
      BY <1>3, <2>1
    <3>2. PICK new : new = [task EXCEPT !.stage = "rem"]
      OBVIOUS
    <3>3. {"op", "user", "stage", "by"} \subseteq DOMAIN task
      BY <1>3, <3>1 DEF Task
    <3>4. /\ new.by = task.by /\ new.op = task.op /\ new.user = task.user
          /\ new.stage = "rem"
      BY <3>2, <3>3
    <3> QED
      BY <3>2, <3>4
  <2>3. tasks'[t] = new /\ \A s \in Tasks \ {t} : tasks'[s] = tasks[s]
    BY <1>2, <2>1, <2>2
  <2>4. NobodyRingsAlone'
    <3>1. task.by # task.user
      BY <1>1, <1>3, <2>1 DEF NobodyRingsAlone, Dismissing
    <3>2. \A u \in Users : ringKeys'[u] # u
      BY <1>2, <2>1, VoiceAssumption DEF NobodyRingsAlone
    <3> QED
      BY <2>2, <2>3, <3>1, <3>2 DEF NobodyRingsAlone, Dismissing
  <2>5. ASSUME NEW w \in Watchers, ringKeys'[w] = NoRing, ~Ending(w)'
        PROVE  EndsRinging(inbox[w], ringing[w], w)'
    <3>1. w # task.user
      BY <1>3, <2>2, <2>3, <2>5 DEF Ending, Dismissing
    <3>2. ~Ending(w) /\ ringKeys[w] = NoRing
      BY <1>1, <1>2, <2>1, <2>3, <2>5, <3>1, EndingStays
    <3> QED
      BY <2>1, <3>2, SilentStep DEF clients
  <2> QED
    BY <2>4, <2>5 DEF RingsAreEnded
<1>6. CASE DismissRem(t)
  <2> DEFINE event == [kind |-> "dismiss", user |-> task.user]
             Dismissed(w) == Sent(w, ToldOfDismissal(task), task.by, event)
  <2>1. /\ task.stage = "rem" /\ UNCHANGED <<ringKeys, ringing>>
        /\ tasks' = [tasks EXCEPT ![t] = Idle]
        /\ inbox' = [w \in Watchers |-> inbox[w] \o Dismissed(w) \o AfterDismissal(w, task)]
    BY <1>1, <1>6 DEF DismissRem, Finish, To
  <2>2. tasks'[t] = Idle /\ \A s \in Tasks \ {t} : tasks'[s] = tasks[s]
    BY <1>2, <2>1
  <2>3. NobodyRingsAlone'
    BY <2>1, <2>2 DEF NobodyRingsAlone, Dismissing, Idle
  <2>4. task.by # task.user
    BY <1>1, <1>3, <2>1 DEF NobodyRingsAlone, Dismissing
  <2>5. ASSUME NEW w \in Watchers, ringKeys'[w] = NoRing, ~Ending(w)'
        PROVE  EndsRinging(inbox[w], ringing[w], w)'
    <3>1. PICK a, b : a = Dismissed(w) /\ b = AfterDismissal(w, task)
      OBVIOUS
    <3>2. inbox'[w] = (inbox[w] \o a) \o b /\ inbox[w] \in Seq(Item)
      BY <1>2, <2>1, <3>1 DEF TypeOK, Item
    <3>3. event \in Event /\ ~Rings(event, w)
      BY <1>3 DEF Event, Rings
    <3>4. /\ a \in Seq(Item) /\ \A k \in 1..Len(a) : ~Rings(a[k].event, w)
          /\ w = task.user => a = <<[event |-> event, late |-> w # task.by]>>
      <4> HIDE DEF event
      <4> QED
        BY <3>1, <3>3, SentItems DEF ToldOfDismissal
    <3>5. b \in Seq(Item) /\ \A k \in 1..Len(b) : ~Rings(b[k].event, w)
      BY <1>3, <3>1, AfterDismissalIsQuiet
    <3>6. EndsRinging(inbox[w] \o a, ringing[w], w) /\ inbox[w] \o a \in Seq(Item)
      <4>1. inbox[w] \o a \in Seq(Item)
        BY <3>2, <3>4, ConcatProperties
      <4>2. CASE w = task.user
        <5>1. PICK item : item = [event |-> event, late |-> w # task.by]
          OBVIOUS
        <5>2. item \in Item /\ Ends(item, w)
          BY <2>4, <3>3, <4>2, <5>1 DEF Item, Ends
        <5> QED
          BY <3>2, <3>4, <4>1, <4>2, <5>1, <5>2, DismissalEnds
      <4>3. CASE w # task.user
        <5>1. ~Ending(w) /\ ringKeys[w] = NoRing
          BY <1>1, <2>1, <2>2, <2>5, <4>3, EndingStays
        <5>2. EndsRinging(inbox[w], ringing[w], w)
          BY <5>1 DEF RingsAreEnded
        <5> QED
          BY <3>2, <3>4, <4>1, <5>2, QuietEvents
      <4> QED
        BY <4>2, <4>3
    <3>7. EndsRinging((inbox[w] \o a) \o b, ringing[w], w)
      BY <3>5, <3>6, QuietEvents
    <3> QED
      BY <2>1, <3>2, <3>7
  <2> QED
    BY <2>3, <2>5 DEF RingsAreEnded
<1> QED
  BY <1>4, <1>5, <1>6 DEF DismissStep

\* A message that is taken rings nobody and ends no dismissal.
LEMMA ArriveIsEnded ==
    ASSUME RingInvariant, NobodyRingsAlone, RingsAreEnded, NEW q \in Requests, Arrive(q)
    PROVE  RingsAreEnded' /\ NobodyRingsAlone'
<1>1. tasks[q] = Idle /\ UNCHANGED <<ringKeys, clients>>
  BY DEF Arrive, Join, Leave, UpdateGet, GetStates, GetRings, CanTake, redis
<1>2. PICK task : /\ tasks' = [tasks EXCEPT ![q] = task]
                  /\ task.op \in {"join", "dismiss"} => task.stage = "member"
  <2>1. ASSUME NEW task, To(q, task), task.op \in {"join", "dismiss"} => task.stage = "member"
        PROVE  \E new : /\ tasks' = [tasks EXCEPT ![q] = new]
                        /\ new.op \in {"join", "dismiss"} => new.stage = "member"
    BY <2>1 DEF To
  <2>2. CASE \E u \in Users, state \in VoiceState : Join(q, u, state)
    BY <2>1, <2>2 DEF Join
  <2>3. CASE \E u \in Users : Leave(q, u) \/ \E flag \in Flags, on \in BOOLEAN :
                                                 UpdateGet(q, u, flag, on)
    BY <2>1, <2>3 DEF Leave, UpdateGet
  <2>4. CASE \E w \in Watchers : GetStates(q, w) \/ GetRings(q, w)
    BY <2>1, <2>4 DEF GetStates, GetRings
  <2> QED
    BY <2>2, <2>3, <2>4 DEF Arrive
<1>3. /\ tasks \in [Tasks -> Task \cup {Idle}] /\ q \in Tasks
      /\ tasks'[q] = task /\ \A t \in Tasks \ {q} : tasks'[t] = tasks[t]
  BY <1>2 DEF RingInvariant, TypeOK, Tasks
<1>4. NobodyRingsAlone'
  BY <1>1, <1>2, <1>3 DEF NobodyRingsAlone, Dismissing
<1>5. ASSUME NEW w \in Watchers, ringKeys'[w] = NoRing, ~Ending(w)'
      PROVE  EndsRinging(inbox[w], ringing[w], w)'
  <2>1. ~Ending(w)
    BY <1>1, <1>3, <1>5, EndingStays DEF Dismissing, Idle
  <2> QED
    BY <1>1, <1>5, <2>1, SilentStep DEF clients
<1> QED
  BY <1>4, <1>5 DEF RingsAreEnded

\* A further step of a call rings nobody whose ring is gone: the snapshot leaves out the users
\* without a key.
LEMMA CallIsEnded ==
    ASSUME RingInvariant, NobodyRingsAlone, RingsAreEnded, NEW q \in Requests, CallStep(q)
    PROVE  RingsAreEnded' /\ NobodyRingsAlone'
<1>1. PICK task : task = tasks[q]
  OBVIOUS
<1>2. /\ TypeOK /\ tasks \in [Tasks -> Task \cup {Idle}] /\ q \in Tasks
      /\ task \in Task \cup {Idle}
  BY <1>1 DEF RingInvariant, TypeOK, Tasks
<1>3. /\ UNCHANGED <<ringKeys, ringing>>
      /\ task.op \in {"leave", "update", "states", "rings"} \/ task.stage = "member"
  BY <1>1 DEF CallStep, JoinMember, LeaveMember, LeaveMembers, ClearRings, ClearRing,
         ClearChannel, UpdateSet, UpdateEmit, SendStates, SendRings, redis, clients, At,
         EmitLeave, Emit
<1>4. PICK new : /\ tasks' = [tasks EXCEPT ![q] = new]
                 /\ new.op \in {"join", "dismiss"} => new.stage = "get"
  <2>1. CASE JoinMember(q)
    <3>1. PICK new : new = [task EXCEPT !.stage = "get"]
      OBVIOUS
    <3>2. task.op = "join" /\ task.stage = "member"
      BY <1>1, <2>1 DEF JoinMember, At
    <3>3. {"op", "stage"} \subseteq DOMAIN task
      BY <1>2, <3>2 DEF Task, Idle
    <3>4. new.stage = "get" /\ tasks' = [tasks EXCEPT ![q] = new]
      BY <1>1, <2>1, <3>1, <3>3 DEF JoinMember
    <3> QED
      BY <3>4
  <2>2. ASSUME NEW new, tasks' = [tasks EXCEPT ![q] = new], new.op \notin {"join", "dismiss"}
        PROVE  \E n : /\ tasks' = [tasks EXCEPT ![q] = n]
                      /\ n.op \in {"join", "dismiss"} => n.stage = "get"
    BY <2>2
  <2>3. ASSUME NEW stage, tasks' = [tasks EXCEPT ![q] = [task EXCEPT !.stage = stage]],
               task.op \in {"leave", "update"}
        PROVE  \E n : /\ tasks' = [tasks EXCEPT ![q] = n]
                      /\ n.op \in {"join", "dismiss"} => n.stage = "get"
    <3>1. PICK new : new = [task EXCEPT !.stage = stage]
      OBVIOUS
    <3>2. "op" \in DOMAIN task
      BY <1>2, <2>3 DEF Task, Idle
    <3>3. new.op = task.op
      BY <3>1, <3>2
    <3> QED
      BY <2>2, <2>3, <3>1, <3>3
  <2>4. CASE LeaveMember(q) \/ UpdateSet(q)
    BY <1>1, <2>3, <2>4 DEF LeaveMember, UpdateSet, At
  <2>5. CASE LeaveMembers(q)
    BY <1>1, <2>2, <2>3, <2>5 DEF LeaveMembers, At, Finish, To, Idle
  <2>6. CASE ClearRings(q) \/ ClearChannel(q) \/ UpdateEmit(q) \/ SendStates(q) \/ SendRings(q)
    BY <1>1, <2>2, <2>6 DEF ClearRings, ClearChannel, UpdateEmit, SendStates, SendRings,
                            Finish, To, Idle
  <2>7. ASSUME NEW u \in Users, ClearRing(q, u)
        PROVE  \E n : /\ tasks' = [tasks EXCEPT ![q] = n]
                      /\ n.op \in {"join", "dismiss"} => n.stage = "get"
    <3>1. PICK new : new = [task EXCEPT !.todo = task.todo \ {u}]
      OBVIOUS
    <3>2. task.op = "leave" /\ tasks' = [tasks EXCEPT ![q] = new]
      BY <1>1, <2>7, <3>1 DEF ClearRing, At
    <3>3. "op" \in DOMAIN task
      BY <1>2, <3>2 DEF Task, Idle
    <3>4. new.op = task.op
      BY <3>1, <3>3
    <3> QED
      BY <2>2, <3>2, <3>4
  <2> QED
    BY <2>1, <2>4, <2>5, <2>6, <2>7 DEF CallStep
<1>5. tasks'[q] = new /\ \A t \in Tasks \ {q} : tasks'[t] = tasks[t]
  BY <1>2, <1>4
<1>6. NobodyRingsAlone'
  BY <1>3, <1>4, <1>5 DEF NobodyRingsAlone, Dismissing
<1>7. ASSUME NEW w \in Watchers, ringKeys'[w] = NoRing, ~Ending(w)'
      PROVE  EndsRinging(inbox[w], ringing[w], w)'
  <2>1. ~Ending(w) /\ ringKeys[w] = NoRing
    BY <1>1, <1>3, <1>5, <1>7, EndingStays DEF Dismissing
  <2>2. CASE UNCHANGED inbox
    BY <1>3, <2>1, <2>2, SilentStep
  <2>3. ASSUME NEW recipients, NEW first, NEW event \in Event, Emit(recipients, first, event),
               ~Rings(event, w)
        PROVE  EndsRinging(inbox[w], ringing[w], w)'
    BY <1>2, <2>1, <2>3, EmitStep
  <2>4. /\ task.op # "idle" => task.user \in Users
        /\ task.op = "update" => task.state \in VoiceState
        /\ task.op = "rings" => task.found \in SUBSET Users
    BY <1>2, TaskFields
  <2>5. ASSUME NEW u \in Users
        PROVE  /\ [kind |-> "leave", user |-> u] \in Event
               /\ [kind |-> "dismiss", user |-> u] \in Event
               /\ \A state \in VoiceState : [kind |-> "state", user |-> u, state |-> state] \in Event
    BY DEF Event
  <2>6. CASE JoinMember(q) \/ LeaveMember(q) \/ ClearRings(q) \/ UpdateSet(q)
    BY <2>2, <2>6 DEF JoinMember, LeaveMember, ClearRings, UpdateSet, clients
  <2>7. CASE EmitLeave(q) /\ task.op = "leave"
    <3> DEFINE event == [kind |-> "leave", user |-> task.user]
    <3>1. Emit(Users, First, event) /\ ~Rings(event, w) /\ event \in Event
      BY <1>1, <2>4, <2>5, <2>7 DEF EmitLeave, Rings
    <3> HIDE DEF event
    <3> QED
      BY <2>3, <3>1
  <2>8. CASE LeaveMembers(q) \/ ClearChannel(q)
    BY <1>1, <2>2, <2>7, <2>8 DEF LeaveMembers, ClearChannel, At, clients
  <2>9. ASSUME NEW u \in Users, ClearRing(q, u)
        PROVE  EndsRinging(inbox[w], ringing[w], w)'
    <3> DEFINE event == [kind |-> "dismiss", user |-> u]
    <3>1. UNCHANGED inbox \/ Emit({u, ringKeys[u]}, u, event)
      BY <2>9 DEF ClearRing, clients
    <3>2. ~Rings(event, w) /\ event \in Event
      BY <2>5 DEF Rings
    <3> HIDE DEF event
    <3> QED
      BY <2>2, <2>3, <3>1, <3>2
  <2>10. CASE UpdateEmit(q)
    <3> DEFINE event == [kind |-> "state", user |-> task.user, state |-> task.state]
    <3>1. Emit(Users, First, event) /\ ~Rings(event, w) /\ event \in Event
      BY <1>1, <2>4, <2>5, <2>10 DEF UpdateEmit, At, Rings
    <3> HIDE DEF event
    <3> QED
      BY <2>3, <3>1
  <2>11. CASE SendStates(q)
    <3> DEFINE states == [u \in Users |-> IF u \in task.found THEN voiceStates[u] ELSE NoState]
               event  == [kind |-> "states", states |-> states]
    <3>1. Emit({task.user}, task.user, event)
      BY <1>1, <2>11 DEF SendStates
    <3>2. states \in [Users -> VoiceState \cup {NoState}]
      BY <1>2 DEF TypeOK
    <3>3. ~Rings(event, w) /\ event \in Event
      <4> HIDE DEF states
      <4> QED
        BY <3>2 DEF Rings, Event
    <3> HIDE DEF event
    <3> QED
      BY <2>3, <3>1, <3>3
  <2>12. CASE SendRings(q)
    <3> DEFINE rung  == {u \in task.found : ringKeys[u] # NoRing}
               event == [kind |-> "rings", users |-> rung]
    <3>1. Emit({task.user}, task.user, event) /\ rung \in SUBSET Users
      BY <1>1, <2>4, <2>12 DEF SendRings
    <3>2. w \notin rung
      BY <2>1
    <3>3. ~Rings(event, w) /\ event \in Event
      <4> HIDE DEF rung
      <4> QED
        BY <3>1, <3>2 DEF Rings, Event
    <3> HIDE DEF event
    <3> QED
      BY <2>3, <3>1, <3>3
  <2> QED
    BY <2>6, <2>8, <2>9, <2>10, <2>11, <2>12 DEF CallStep
<1> QED
  BY <1>6, <1>7 DEF RingsAreEnded

\* A client takes what it is told in turn.
LEMMA ReceiveIsEnded ==
    ASSUME RingInvariant, NobodyRingsAlone, RingsAreEnded,
           NEW v \in Watchers, NEW i \in 1..Len(inbox[v]), Receive(v, i)
    PROVE  RingsAreEnded' /\ NobodyRingsAlone'
<1>1. /\ inbox \in [Watchers -> Seq(Item)] /\ ringing \in [Watchers -> SUBSET Users]
      /\ Watchers \subseteq Users
  BY VoiceAssumption DEF RingInvariant, TypeOK, Item
<1>2. /\ UNCHANGED <<redis, tasks>> /\ (i = 1 \/ ~inbox[v][i].late)
      /\ inbox' = [inbox EXCEPT ![v] = RemoveAt(inbox[v], i)]
      /\ ringing' = [ringing EXCEPT ![v] = RingsAfter(inbox[v][i].event, ringing[v])]
  BY DEF Receive, Overtakes
<1>3. NobodyRingsAlone'
  BY <1>2 DEF NobodyRingsAlone, Dismissing, redis
<1>4. ASSUME NEW w \in Watchers, ringKeys'[w] = NoRing, ~Ending(w)'
      PROVE  EndsRinging(inbox[w], ringing[w], w)'
  <2>1. EndsRinging(inbox[w], ringing[w], w)
    BY <1>2, <1>4 DEF RingsAreEnded, Ending, Dismissing, redis
  <2>2. CASE w = v
    <3>1. PICK r : r = RemoveAt(inbox[v], i)
      OBVIOUS
    <3>2. EndsRinging(r, RingsAfter(inbox[v][i].event, ringing[v]), v)
      BY <1>1, <1>2, <2>1, <2>2, <3>1, ReceiveEnds
    <3> QED
      BY <1>1, <1>2, <2>2, <3>1, <3>2
  <2>3. CASE w # v
    BY <1>1, <1>2, <2>1, <2>3
  <2> QED
    BY <2>2, <2>3
<1> QED
  BY <1>3, <1>4 DEF RingsAreEnded

\* Nobody's client is left ringing: once the timers have fired and everything has been said,
\* each client has been told of the end of every ring of its user, for every number of rings,
\* answers, timers and requests that overlap (channels.service.ts:682-740), because a ring's
\* key is deleted by a dismissal that tells its user, after every event that rings there.
THEOREM RingingEnds == Spec => []NoClientLeftRinging
<1>1. Init => NobodyRingsAlone /\ RingsAreEnded
  BY VoiceAssumption, EmptySeq
     DEF Init, NobodyRingsAlone, RingsAreEnded, EndsRinging, Dismissing, Idle
<1>2. ASSUME RingInvariant, NobodyRingsAlone, RingsAreEnded, [Next]_vars
      PROVE  NobodyRingsAlone' /\ RingsAreEnded'
  <2>1. Callers \subseteq Users
    BY VoiceAssumption
  <2>2. CASE \E u \in Users : Ring(u) \/ Timeout(u)
    BY <1>2, <2>2, RingIsEnded
  <2>3. CASE \E q \in Requests : Arrive(q) \/ CallStep(q)
    BY <1>2, <2>3, ArriveIsEnded, CallIsEnded
  <2>4. CASE \E t \in Tasks : DismissStep(t)
    BY <1>2, <2>4, DismissIsTold
  <2>5. CASE \E w \in Watchers : \E i \in 1..Len(inbox[w]) : Receive(w, i)
    BY <1>2, <2>5, ReceiveIsEnded
  <2>6. CASE UNCHANGED vars
    BY <1>2, <2>6 DEF NobodyRingsAlone, RingsAreEnded, EndsRinging, Ending, Dismissing,
                      vars, redis, clients
  <2> QED
    BY <1>2, <2>1, <2>2, <2>3, <2>4, <2>5, <2>6 DEF Next
<1>3. ASSUME RingInvariant, RingsAreEnded
      PROVE  NoClientLeftRinging
  <2> SUFFICES ASSUME AtRest, \A u \in Users : timers[u] = 0, NEW w \in Watchers
               PROVE  w \notin ringing[w]
    BY <1>3 DEF NoClientLeftRinging, RingInvariant, TypeOK
  <2>1. /\ \A t \in Tasks : tasks[t] = Idle
        /\ inbox[w] = << >> /\ w \in Users /\ w \in Tasks
    BY <1>3, VoiceAssumption DEF AtRest, RingInvariant, TypeOK, Tasks
  <2>2. ringKeys[w] = NoRing
    BY <1>3, <2>1 DEF RingInvariant, RingHasTimer
  <2>3. ~Ending(w)
    BY <2>1 DEF Ending, Dismissing, Idle
  <2>4. EndsRinging(<< >>, ringing[w], w)
    BY <1>3, <2>1, <2>2, <2>3 DEF RingsAreEnded
  <2> QED
    BY <2>4, EmptySeq DEF EndsRinging
<1> QED
  BY <1>1, <1>2, <1>3, RingInvariantHolds, PTL DEF Spec

-----------------------------------------------------------------------------
(* One message at a time: the call and what the clients show of it *)

\* The event leaves the client with another state of u, or with that one.
Contradicts(event, u, state) ==
    \/ event.kind = "states" /\ event.states[u] # state
    \/ event.kind = "state" /\ event.user = u /\ event.state # state
    \/ event.kind = "leave" /\ event.user = u /\ state # NoState

Tells(event, u, state) ==
    \/ event.kind = "state" /\ event.user = u /\ event.state = state
    \/ event.kind = "leave" /\ event.user = u /\ state = NoState

\* Whatever a client shows or hears of u, it hears of the state that u has last.
CatchesUp(events, view, u, state) ==
    /\ view[u] # state => \E j \in 1..Len(events) : Tells(events[j].event, u, state)
    /\ \A k \in 1..Len(events) : Contradicts(events[k].event, u, state) =>
          \E j \in 1..Len(events) : j > k /\ Tells(events[j].event, u, state)

\* The events of the call reach a client in the order they were emitted in; a snapshot may
\* overtake them, but is not overtaken.
FollowsOrder(w, item) ==
    /\ item.event.kind \in {"state", "leave"} => item.late = (w # First)
    /\ item.event.kind = "states" => ~item.late

\* The request is changing the state of u, and has not told the clients yet.
Changing(task, u) ==
    /\ task.op \in {"join", "leave", "update"} /\ task.user = u
    /\ task.op = "update" => task.stage = "emit"

View(w, events, view, states, task) ==
    /\ \A k \in 1..Len(events) : FollowsOrder(w, events[k])
    /\ \A u \in Users : ~Changing(task, u) => CatchesUp(events, view, u, states[u])

\* What the request in flight has written, and what it has read of the call.
Writes(task, states, channel) ==
    /\ task.op = "join" => states[task.user] = task.state
    /\ task.op = "leave" => states[task.user] = NoState
    /\ task.op = "update" => /\ states[task.user] # NoState
                             /\ task.stage = "emit" => states[task.user] = task.state
    /\ task.op = "states" => task.found = channel

\* The request has written the state of u and not yet the list.
Halfway(task, u) ==
    task.op \in {"join", "leave"} /\ task.stage = "member" /\ task.user = u

MembersHaveStates(task, states, channel) ==
    \A u \in Users : ~Halfway(task, u) => (u \in channel <=> states[u] # NoState)

CallInvariant(q) ==
    /\ Writes(tasks[q], voiceStates, voiceChannel)
    /\ MembersHaveStates(tasks[q], voiceStates, voiceChannel)
    /\ \A w \in Watchers : View(w, inbox[w], shown[w], voiceStates, tasks[q])

\* More events that agree with the states leave a client to catch up with them.
LEMMA ViewAppend ==
    ASSUME NEW w, NEW view, NEW states, NEW task, NEW next,
           NEW events \in Seq(Item), View(w, events, view, states, task),
           NEW s \in Seq(Item), \A k \in 1..Len(s) : FollowsOrder(w, s[k]),
           \A u \in Users : ~Changing(next, u) => ~Changing(task, u),
           \A u \in Users : ~Changing(next, u) =>
              \A k \in 1..Len(s) : ~Contradicts(s[k].event, u, states[u])
    PROVE  View(w, events \o s, view, states, next)
<1>1. PICK m, n \in Nat : m = Len(events) /\ n = Len(s)
  BY LenProperties
<1>2. PICK all : all = events \o s
  OBVIOUS
<1>3. /\ Len(all) = m + n
      /\ \A k \in 1..(m + n) : all[k] = IF k <= m THEN events[k] ELSE s[k - m]
  BY <1>1, <1>2, ConcatProperties
<1>4. \A j \in 1..m : j \in 1..(m + n) /\ all[j] = events[j]
  BY <1>1, <1>3
<1>5. \A k \in 1..(m + n) : k <= m \/ (k - m \in 1..n /\ all[k] = s[k - m])
  BY <1>1, <1>3
<1>6. ASSUME NEW k \in 1..(m + n)
      PROVE  FollowsOrder(w, all[k])
  <2>1. CASE k <= m
    <3>1. k \in 1..m /\ all[k] = events[k]
      BY <1>3, <2>1
    <3> QED
      BY <1>1, <3>1 DEF View
  <2>2. CASE ~ k <= m
    BY <1>1, <1>5, <2>2
  <2> QED
    BY <2>1, <2>2
<1>7. ASSUME NEW u \in Users, ~Changing(next, u)
      PROVE  CatchesUp(all, view, u, states[u])
  <2>1. PICK state : state = states[u]
    OBVIOUS
  <2>2. CatchesUp(events, view, u, state) /\ \A k \in 1..n : ~Contradicts(s[k].event, u, state)
    BY <1>1, <1>7, <2>1 DEF View
  <2>3. ASSUME NEW k \in 1..(m + n), Contradicts(all[k].event, u, state)
        PROVE  \E j \in 1..(m + n) : j > k /\ Tells(all[j].event, u, state)
    <3>1. k \in 1..m /\ all[k] = events[k]
      BY <1>3, <1>5, <2>2, <2>3
    <3>2. PICK j \in 1..m : j > k /\ Tells(events[j].event, u, state)
      BY <1>1, <2>2, <2>3, <3>1 DEF CatchesUp
    <3> QED
      BY <1>4, <3>2
  <2>4. view[u] # state => \E j \in 1..(m + n) : Tells(all[j].event, u, state)
    BY <1>1, <1>4, <2>2 DEF CatchesUp
  <2> QED
    BY <1>3, <2>1, <2>3, <2>4 DEF CatchesUp
<1> QED
  BY <1>2, <1>3, <1>6, <1>7 DEF View

\* The event with which a request tells what it has changed brings a client up to it.
LEMMA ViewTold ==
    ASSUME NEW w, NEW view, NEW states, NEW task, NEW next,
           NEW events \in Seq(Item), View(w, events, view, states, task),
           NEW item \in Item, FollowsOrder(w, item),
           NEW u \in Users, \A v \in Users : Changing(task, v) => v = u,
           Tells(item.event, u, states[u])
    PROVE  View(w, events \o <<item>>, view, states, next)
<1>1. PICK m \in Nat : m = Len(events)
  BY LenProperties
<1>2. PICK all : all = events \o <<item>>
  OBVIOUS
<1>3. /\ Len(all) = m + 1
      /\ \A k \in 1..(m + 1) : all[k] = IF k <= m THEN events[k] ELSE <<item>>[k - m]
  BY <1>1, <1>2, ConcatProperties
<1>4. /\ m + 1 \in 1..(m + 1) /\ all[m + 1] = item
      /\ \A j \in 1..m : j \in 1..(m + 1) /\ all[j] = events[j]
      /\ \A k \in 1..(m + 1) : k = m + 1 \/ k \in 1..m
  BY <1>1, <1>3
<1>5. \A k \in 1..(m + 1) : FollowsOrder(w, all[k])
  BY <1>1, <1>4 DEF View
<1>6. ASSUME NEW v \in Users
      PROVE  CatchesUp(all, view, v, states[v])
  <2>1. PICK state : state = states[v]
    OBVIOUS
  <2>2. CASE v = u
    <3>1. Tells(all[m + 1].event, v, state) /\ ~Contradicts(all[m + 1].event, v, state)
      BY <1>4, <2>1, <2>2 DEF Tells, Contradicts
    <3>2. \A k \in 1..(m + 1) : Contradicts(all[k].event, v, state) => m + 1 > k
      BY <1>1, <1>4, <3>1
    <3> QED
      BY <1>3, <1>4, <2>1, <3>1, <3>2 DEF CatchesUp
  <2>3. CASE v # u
    <3>1. CatchesUp(events, view, v, state)
      BY <2>1, <2>3 DEF View
    <3>2. ~Contradicts(item.event, v, state)
      BY <2>3 DEF Tells, Contradicts
    <3>3. ASSUME NEW k \in 1..(m + 1), Contradicts(all[k].event, v, state)
          PROVE  \E j \in 1..(m + 1) : j > k /\ Tells(all[j].event, v, state)
      <4>1. k \in 1..m /\ all[k] = events[k]
        BY <1>4, <3>2, <3>3
      <4>2. PICK j \in 1..m : j > k /\ Tells(events[j].event, v, state)
        BY <1>1, <3>1, <3>3, <4>1 DEF CatchesUp
      <4> QED
        BY <1>4, <4>2
    <3>4. view[v] # state => \E j \in 1..(m + 1) : Tells(all[j].event, v, state)
      BY <1>1, <1>4, <3>1 DEF CatchesUp
    <3> QED
      BY <1>3, <2>1, <3>3, <3>4 DEF CatchesUp
  <2> QED
    BY <2>2, <2>3
<1> QED
  BY <1>2, <1>3, <1>5, <1>6 DEF View

\* What an event makes of the state shown of a user.
LEMMA ShownAfter ==
    ASSUME NEW event \in Event, NEW view \in [Users -> VoiceState \cup {NoState}],
           NEW u \in Users, NEW state
    PROVE  /\ Tells(event, u, state) => StatesAfter(event, view)[u] = state
           /\ StatesAfter(event, view)[u] # state =>
                 Contradicts(event, u, state) \/ view[u] # state
<1>1. /\ event.kind = "state" => event.user \in Users
      /\ event.kind = "leave" => event.user \in Users
  BY DEF Event
<1>2. CASE event.kind = "state"
  <2>1. StatesAfter(event, view) = [view EXCEPT ![event.user] = event.state]
    BY <1>2 DEF StatesAfter, UpdateVoiceState
  <2>2. StatesAfter(event, view)[u] = IF u = event.user THEN event.state ELSE view[u]
    BY <1>1, <1>2, <2>1
  <2> QED
    BY <1>2, <2>2 DEF Tells, Contradicts
<1>3. CASE event.kind = "leave"
  <2>1. StatesAfter(event, view) = [view EXCEPT ![event.user] = NoState]
    BY <1>3 DEF StatesAfter, RemoveVoiceState
  <2>2. StatesAfter(event, view)[u] = IF u = event.user THEN NoState ELSE view[u]
    BY <1>1, <1>3, <2>1
  <2> QED
    BY <1>3, <2>2 DEF Tells, Contradicts
<1>4. CASE event.kind = "states"
  BY <1>4 DEF StatesAfter, Tells, Contradicts
<1>5. CASE event.kind \notin {"state", "leave", "states"}
  BY <1>5 DEF StatesAfter, Tells
<1> QED
  BY <1>2, <1>3, <1>4, <1>5

\* What Overtakes says of the i-th of these events.
Overtaking(events, i) == ~events[i].late /\ \A j \in 1..i - 1 : events[j].late

\* Receiving an event leaves a client to catch up: nothing overtakes the event that tells
\* what a user's state has become, and it overtakes nothing that contradicts it.
LEMMA ViewReceive ==
    ASSUME NEW w, NEW view \in [Users -> VoiceState \cup {NoState}], NEW states, NEW task,
           NEW events \in Seq(Item), View(w, events, view, states, task),
           NEW i \in 1..Len(events),
           i = 1 \/ Overtaking(events, i),
           NEW r, r = RemoveAt(events, i)
    PROVE  View(w, r, StatesAfter(events[i].event, view), states, task)
<1>1. PICK n \in Nat : n = Len(r)
  BY RemoveAtItems
<1>2. /\ Len(events) = n + 1
      /\ \A k \in 1..n : r[k] = IF k < i THEN events[k] ELSE events[k + 1]
  BY <1>1, RemoveAtItems
<1>3. \A k \in 1..(n + 1) : k # i =>
         \E l \in 1..n : l = (IF k < i THEN k ELSE k - 1) /\ r[l] = events[k]
  BY <1>1, RemoveAtMoves
<1>4. \A l \in 1..n : \E k \in 1..(n + 1) : k = (IF l < i THEN l ELSE l + 1) /\ r[l] = events[k]
  <2>1. i \in 1..(n + 1)
    BY <1>2
  <2> QED
    BY <1>1, <1>2, <2>1
<1>5. PICK event \in Event : event = events[i].event
  <2>1. events[i] \in Item
    BY ElementOfSeq
  <2> QED
    BY <2>1 DEF Item
<1>6. \A l \in 1..n : FollowsOrder(w, r[l])
  BY <1>2, <1>4 DEF View
<1>7. ASSUME NEW u \in Users, ~Changing(task, u)
      PROVE  CatchesUp(r, StatesAfter(event, view), u, states[u])
  <2>1. PICK state : state = states[u]
    OBVIOUS
  <2>2. /\ view[u] # state => \E j \in 1..(n + 1) : Tells(events[j].event, u, state)
        /\ \A k \in 1..(n + 1) : Contradicts(events[k].event, u, state) =>
              \E j \in 1..(n + 1) : j > k /\ Tells(events[j].event, u, state)
    BY <1>2, <1>7, <2>1 DEF View, CatchesUp
  <2>3. ASSUME StatesAfter(event, view)[u] # state
        PROVE  \E l \in 1..n : Tells(r[l].event, u, state)
    <3>1. PICK j \in 1..(n + 1) : Tells(events[j].event, u, state)
      BY <1>2, <1>5, <2>2, <2>3, ShownAfter
    <3>2. j # i
      BY <1>5, <2>3, <3>1, ShownAfter
    <3> QED
      BY <1>3, <3>1, <3>2
  <2>4. ASSUME NEW l \in 1..n, Contradicts(r[l].event, u, state)
        PROVE  \E m \in 1..n : m > l /\ Tells(r[m].event, u, state)
    <3>1. PICK k \in 1..(n + 1) : k = (IF l < i THEN l ELSE l + 1) /\ r[l] = events[k]
      BY <1>4
    <3>2. PICK j \in 1..(n + 1) : j > k /\ Tells(events[j].event, u, state)
      BY <2>2, <2>4, <3>1
    <3>3. j # i
      <4> SUFFICES ASSUME j = i PROVE FALSE
        OBVIOUS
      <4>1. k \in 1..i - 1 /\ i # 1
        BY <1>1, <1>2, <3>2
      <4>2. ~events[i].late /\ events[k].late
        BY <4>1 DEF Overtaking
      <4>3. FollowsOrder(w, events[i]) /\ FollowsOrder(w, events[k])
        BY <1>2 DEF View
      <4>4. w = First
        BY <3>2, <4>2, <4>3 DEF FollowsOrder, Tells
      <4>5. events[k].event.kind \in {"state", "leave", "states"}
        BY <2>4, <3>1 DEF Contradicts
      <4> QED
        BY <4>2, <4>3, <4>4, <4>5 DEF FollowsOrder
    <3>4. PICK m \in 1..n : m = (IF j < i THEN j ELSE j - 1) /\ r[m] = events[j]
      BY <1>3, <3>3
    <3>5. m > l
      BY <3>1, <3>2, <3>3, <3>4
    <3> QED
      BY <3>2, <3>4, <3>5
  <2> QED
    BY <1>1, <2>1, <2>3, <2>4 DEF CatchesUp
<1> QED
  BY <1>1, <1>5, <1>6, <1>7 DEF View

\* A step that tells the clients nothing of the states it leaves alone.
LEMMA StillView ==
    ASSUME NEW w \in Watchers, NEW task, NEW next, NEW states, NEW new,
           View(w, inbox[w], shown[w], states, task), UNCHANGED <<inbox, shown>>,
           \A u \in Users : ~Changing(next, u) => ~Changing(task, u) /\ new[u] = states[u]
    PROVE  View(w, inbox'[w], shown'[w], new, next)
BY DEF View

\* A step that emits an event which agrees with the states.
LEMMA EmitView ==
    ASSUME TypeOK, NEW w \in Watchers, NEW task, NEW next, NEW states,
           View(w, inbox[w], shown[w], states, task),
           NEW recipients, NEW first, NEW event \in Event, Emit(recipients, first, event),
           event.kind \in {"state", "leave"} => first = First,
           event.kind = "states" => recipients = {first},
           \A u \in Users : ~Changing(next, u) => ~Changing(task, u),
           \A u \in Users : ~Changing(next, u) => ~Contradicts(event, u, states[u])
    PROVE  View(w, inbox'[w], shown'[w], states, next)
<1>1. PICK s : s = Sent(w, recipients, first, event)
  OBVIOUS
<1>2. /\ s \in Seq(Item) /\ \A k \in 1..Len(s) : s[k] = [event |-> event, late |-> w # first]
      /\ w \notin recipients => Len(s) = 0
  BY <1>1, SentItems
<1>3. inbox'[w] = inbox[w] \o s /\ shown'[w] = shown[w] /\ inbox[w] \in Seq(Item)
  BY <1>1 DEF Emit, TypeOK, Item
<1>4. \A k \in 1..Len(s) : s[k].event = event /\ FollowsOrder(w, s[k])
  <2>1. CASE w \in recipients
    <3>1. PICK item : item = [event |-> event, late |-> w # first]
      OBVIOUS
    <3>2. item.event = event /\ item.late = (w # first)
      BY <3>1
    <3>3. event.kind = "states" => w = first
      BY <2>1
    <3>4. FollowsOrder(w, item)
      BY <3>2, <3>3 DEF FollowsOrder
    <3> QED
      BY <1>2, <3>1, <3>2, <3>4
  <2>2. CASE w \notin recipients
    BY <1>2, <2>2
  <2> QED
    BY <2>1, <2>2
<1>5. View(w, inbox[w] \o s, shown[w], states, next)
  BY <1>2, <1>3, <1>4, ViewAppend
<1> QED
  BY <1>3, <1>5

\* A step that tells the call what the state of u has become.
LEMMA TellView ==
    ASSUME TypeOK, NEW w \in Watchers, NEW task, NEW next, NEW states,
           View(w, inbox[w], shown[w], states, task),
           NEW event \in Event, Emit(Users, First, event),
           NEW u \in Users, \A v \in Users : Changing(task, v) => v = u,
           Tells(event, u, states[u])
    PROVE  View(w, inbox'[w], shown'[w], states, next)
<1>1. PICK item : item = [event |-> event, late |-> w # First]
  OBVIOUS
<1>2. item \in Item /\ FollowsOrder(w, item) /\ item.event = event
  BY <1>1 DEF Item, FollowsOrder, Tells
<1>3. Sent(w, Users, First, event) = <<item>>
  BY <1>1, VoiceAssumption DEF Sent
<1>4. inbox'[w] = inbox[w] \o <<item>> /\ shown'[w] = shown[w] /\ inbox[w] \in Seq(Item)
  BY <1>3 DEF Emit, TypeOK, Item
<1>5. View(w, inbox[w] \o <<item>>, shown[w], states, next)
  BY <1>2, <1>4, ViewTold
<1> QED
  BY <1>4, <1>5

\* A ring or a timer does not touch the call.
LEMMA RingLeavesCall ==
    ASSUME TypeOK, NEW q \in Requests, CallInvariant(q),
           NEW by \in Users, Ring(by) \/ Timeout(by)
    PROVE  CallInvariant(q)'
<1>1. /\ UNCHANGED <<voiceStates, voiceChannel>> /\ tasks'[q] = tasks[q]
      /\ q \in Tasks /\ q # by
  BY VoiceAssumption DEF Ring, Timeout, To, redis, TypeOK, Tasks
<1>2. PICK task : task = tasks[q]
  OBVIOUS
<1>3. ASSUME NEW w \in Watchers
      PROVE  View(w, inbox'[w], shown'[w], voiceStates, task)
  <2>1. View(w, inbox[w], shown[w], voiceStates, task)
    BY <1>2 DEF CallInvariant
  <2>2. CASE Ring(by)
    <3> DEFINE event == [kind |-> "ring", users |-> Users \ {by}]
    <3>1. /\ Emit(Users, First, event) /\ event \in Event /\ event.kind = "ring"
          /\ \A u \in Users : ~Contradicts(event, u, voiceStates[u])
      BY <2>2 DEF Ring, Event, Contradicts
    <3> HIDE DEF event
    <3> QED
      BY <2>1, <3>1, EmitView
  <2>3. CASE Timeout(by)
    BY <2>1, <2>3, StillView DEF Timeout, clients
  <2> QED
    BY <2>2, <2>3
<1> QED
  BY <1>1, <1>2, <1>3 DEF CallInvariant

\* What follows a dismissal: nothing after a timer, and after a join the state it has stored.
LEMMA AfterDismissalView ==
    ASSUME NEW w \in Watchers, NEW view, NEW states, NEW task, NEW next,
           NEW own \in Task, own.op \in {"join", "dismiss"},
           NEW events \in Seq(Item), View(w, events, view, states, task),
           own.op = "join" => own = task /\ states[own.user] = own.state,
           own.op = "dismiss" => \A u \in Users : ~Changing(next, u) => ~Changing(task, u)
    PROVE  View(w, events \o AfterDismissal(w, own), view, states, next)
<1>1. CASE own.op = "join"
  <2>1. own.user \in Users /\ own.state \in VoiceState
    BY <1>1, TaskFields
  <2>2. PICK event : event = [kind |-> "state", user |-> own.user, state |-> own.state]
    OBVIOUS
  <2>3. event \in Event /\ Tells(event, own.user, states[own.user])
    BY <1>1, <2>1, <2>2 DEF Event, Tells
  <2>4. PICK item : item = [event |-> event, late |-> w # First]
    OBVIOUS
  <2>5. item \in Item /\ FollowsOrder(w, item) /\ item.event = event
    BY <2>2, <2>3, <2>4 DEF Item, FollowsOrder
  <2>6. AfterDismissal(w, own) = <<item>>
    BY <1>1, <2>2, <2>4, VoiceAssumption DEF AfterDismissal, Sent
  <2>7. \A v \in Users : Changing(task, v) => v = own.user
    BY <1>1 DEF Changing
  <2>8. View(w, events \o <<item>>, view, states, next)
    BY <2>1, <2>3, <2>5, <2>7, ViewTold
  <2> QED
    BY <2>6, <2>8
<1>2. CASE own.op = "dismiss"
  <2>1. events \o AfterDismissal(w, own) = events
    BY <1>2, ConcatEmptySeq DEF AfterDismissal
  <2> QED
    BY <1>2, <2>1 DEF View
<1> QED
  BY <1>1, <1>2

\* The task of a dismissal that has deleted a ring.
LEMMA DismissalTask ==
    ASSUME NEW task \in Task, task.op \in {"join", "dismiss"}, task.stage = "del",
           NEW new, new = [task EXCEPT !.stage = "rem"]
    PROVE  /\ new.op = task.op /\ new.user = task.user
           /\ task.op = "join" => new.state = task.state
<1>1. {"op", "user", "stage"} \subseteq DOMAIN task
  BY DEF Task
<1>2. task.op = "join" => "state" \in DOMAIN task
  BY DEF Task
<1> QED
  BY <1>1, <1>2

\* A dismissal after a timer does not touch the call either; one of a join ends with telling
\* the call of the state that the join has stored.
LEMMA DismissKeepsCall ==
    ASSUME RingInvariant, NEW q \in Requests, Requests = {q}, CallInvariant(q),
           NEW t \in Tasks, DismissStep(t)
    PROVE  CallInvariant(q)'
<1>1. PICK own, task : own = tasks[t] /\ task = tasks[q]
  OBVIOUS
<1>2. PICK next : tasks'[q] = next
  OBVIOUS
<1>3. /\ TypeOK /\ tasks \in [Tasks -> Task \cup {Idle}] /\ q \in Tasks
      /\ UNCHANGED <<voiceStates, voiceChannel, shown>>
  <2>1. UNCHANGED <<voiceStates, voiceChannel, shown>>
    BY DEF DismissStep, DismissGet, DismissDel, DismissRem, redis, clients
  <2> QED
    BY <2>1 DEF RingInvariant, TypeOK, Tasks
<1>4. /\ own.op \in {"join", "dismiss"} /\ own.stage \in {"get", "del", "rem"}
      /\ own \in Task /\ own.user \in Users
  <2>1. own.op \in {"join", "dismiss"} /\ own.stage \in {"get", "del", "rem"}
    BY <1>1 DEF DismissStep, DismissGet, DismissDel, DismissRem, Dismissing
  <2> QED
    BY <1>1, <1>3, <2>1, TaskFields
<1>5. /\ Writes(task, voiceStates, voiceChannel)
      /\ MembersHaveStates(task, voiceStates, voiceChannel)
      /\ \A w \in Watchers : View(w, inbox[w], shown[w], voiceStates, task)
  BY <1>1 DEF CallInvariant
<1>6. own.op = "join" => t = q /\ own = task /\ voiceStates[own.user] = own.state
  <2>1. t \in Users => own.op = "dismiss"
    BY <1>1, <1>4 DEF RingInvariant, TimerTaskIsOwn, Idle
  <2> QED
    BY <1>1, <1>5, <2>1 DEF Tasks, Writes
<1>7. t # q => next = task
  <2>1. \E new : tasks' = [tasks EXCEPT ![t] = new]
    BY DEF DismissStep, DismissGet, DismissDel, DismissRem, Finish, To
  <2> QED
    BY <1>1, <1>2, <1>3, <2>1
<1>8. ASSUME t = q => next = Idle \/ (/\ next.op = own.op /\ next.user = own.user
                                      /\ next.op = "join" => next.state = own.state),
             \A w \in Watchers : View(w, inbox'[w], shown'[w], voiceStates, next)
      PROVE  CallInvariant(q)'
  <2>1. Writes(next, voiceStates, voiceChannel)
    BY <1>1, <1>4, <1>5, <1>6, <1>7, <1>8 DEF Writes, Idle
  <2>2. t = q => \A u \in Users : ~Halfway(task, u)
    BY <1>1, <1>4 DEF Halfway
  <2>3. MembersHaveStates(next, voiceStates, voiceChannel)
    BY <1>5, <1>7, <2>2 DEF MembersHaveStates
  <2> QED
    BY <1>2, <1>3, <1>8, <2>1, <2>3 DEF CallInvariant
<1>9. ASSUME t = q => next.op = own.op /\ next.user = own.user
      PROVE  \A u \in Users : ~Changing(next, u) => ~Changing(task, u)
  BY <1>1, <1>4, <1>7, <1>9 DEF Changing
<1>10. own.op = "dismiss" /\ (t = q => next = Idle) =>
          \A u \in Users : ~Changing(next, u) => ~Changing(task, u)
  BY <1>1, <1>7 DEF Changing
<1>11. CASE DismissGet(t) /\ ringKeys[own.user] = NoRing
  <2>1. /\ t = q => next = Idle
        /\ \A w \in Watchers : inbox'[w] = inbox[w] \o AfterDismissal(w, own)
    BY <1>1, <1>2, <1>3, <1>11 DEF DismissGet, Finish, To
  <2>2. \A w \in Watchers : inbox[w] \in Seq(Item)
    BY <1>3 DEF TypeOK, Item
  <2>3. own.op = "dismiss" => \A u \in Users : ~Changing(next, u) => ~Changing(task, u)
    BY <1>10, <2>1
  <2>4. ASSUME NEW w \in Watchers
        PROVE  View(w, inbox'[w], shown'[w], voiceStates, next)
    <3>1. View(w, inbox[w] \o AfterDismissal(w, own), shown[w], voiceStates, next)
      BY <1>4, <1>5, <1>6, <2>2, <2>3, AfterDismissalView
    <3> QED
      BY <1>3, <2>1, <3>1
  <2> QED
    BY <1>8, <2>1, <2>4
<1>12. CASE DismissGet(t) /\ ringKeys[own.user] # NoRing
  <2>1. t = q => /\ next.op = own.op /\ next.user = own.user
                 /\ next.op = "join" => next.state = own.state
    BY <1>1, <1>2, <1>3, <1>4, <1>12 DEF DismissGet, To
  <2>2. UNCHANGED inbox
    BY <1>1, <1>12 DEF DismissGet
  <2>3. \A w \in Watchers : View(w, inbox'[w], shown'[w], voiceStates, next)
    BY <1>3, <1>5, <1>9, <2>1, <2>2, StillView
  <2> QED
    BY <1>8, <2>1, <2>3
<1>13. CASE DismissDel(t)
  <2>1. PICK new : new = [own EXCEPT !.stage = "rem"]
    OBVIOUS
  <2>2. t = q => next = new
    BY <1>1, <1>2, <1>3, <1>13, <2>1 DEF DismissDel
  <2>3. UNCHANGED inbox /\ own.stage = "del"
    BY <1>1, <1>13 DEF DismissDel, clients
  <2>4. t = q => /\ next.op = own.op /\ next.user = own.user
                 /\ next.op = "join" => next.state = own.state
    BY <1>4, <2>1, <2>2, <2>3, DismissalTask
  <2>5. \A w \in Watchers : View(w, inbox'[w], shown'[w], voiceStates, next)
    BY <1>3, <1>5, <1>9, <2>3, <2>4, StillView
  <2> QED
    BY <1>8, <2>4, <2>5
<1>14. CASE DismissRem(t)
  <2> DEFINE event == [kind |-> "dismiss", user |-> own.user]
             Dismissed(w) == Sent(w, ToldOfDismissal(own), own.by, event)
  <2>1. /\ t = q => next = Idle
        /\ inbox' = [w \in Watchers |-> inbox[w] \o Dismissed(w) \o AfterDismissal(w, own)]
    BY <1>1, <1>2, <1>3, <1>14 DEF DismissRem, Finish, To
  <2>2. ASSUME NEW w \in Watchers
        PROVE  View(w, inbox'[w], shown'[w], voiceStates, next)
    <3>1. PICK a : a = Dismissed(w)
      OBVIOUS
    <3>2. /\ inbox'[w] = (inbox[w] \o a) \o AfterDismissal(w, own)
          /\ inbox[w] \in Seq(Item)
      BY <1>3, <2>1, <3>1 DEF TypeOK, Item
    <3>3. event \in Event /\ event.kind = "dismiss"
      BY <1>4 DEF Event
    <3>4. a \in Seq(Item) /\ \A k \in 1..Len(a) : a[k].event = event
      <4> HIDE DEF event
      <4>1. a \in Seq(Item) /\ \A k \in 1..Len(a) : a[k] = [event |-> event, late |-> w # own.by]
        BY <3>1, <3>3, SentItems
      <4> QED
        BY <4>1
    <3>5. \A k \in 1..Len(a) :
             /\ FollowsOrder(w, a[k])
             /\ \A u \in Users : ~Contradicts(a[k].event, u, voiceStates[u])
      BY <3>3, <3>4 DEF FollowsOrder, Contradicts
    <3>6. View(w, inbox[w], shown[w], voiceStates, task)
      BY <1>5
    <3>7. View(w, inbox[w] \o a, shown[w], voiceStates, task)
      BY <3>2, <3>4, <3>5, <3>6, ViewAppend
    <3>8. inbox[w] \o a \in Seq(Item)
      BY <3>2, <3>4, ConcatProperties
    <3>9. View(w, (inbox[w] \o a) \o AfterDismissal(w, own), shown[w], voiceStates, next)
      BY <1>4, <1>6, <1>10, <2>1, <3>7, <3>8, AfterDismissalView
    <3> QED
      BY <1>3, <3>2, <3>9
  <2> QED
    BY <1>8, <2>1, <2>2
<1> QED
  BY <1>1, <1>11, <1>12, <1>13, <1>14 DEF DismissStep

\* A message that is taken: a join and a leave write the state first, an update and the
\* snapshot of the states read what is there.
LEMMA ArriveKeepsCall ==
    ASSUME TypeOK, NEW q \in Requests, CallInvariant(q), Arrive(q)
    PROVE  CallInvariant(q)'
<1>1. /\ tasks \in [Tasks -> Task \cup {Idle}] /\ q \in Tasks
      /\ voiceStates \in [Users -> VoiceState \cup {NoState}]
  BY DEF TypeOK, Tasks
<1>2. tasks[q] = Idle /\ UNCHANGED <<voiceChannel, inbox, shown>>
  BY DEF Arrive, Join, Leave, UpdateGet, GetStates, GetRings, CanTake, redis, clients
<1>3. /\ MembersHaveStates(Idle, voiceStates, voiceChannel)
      /\ \A w \in Watchers : View(w, inbox[w], shown[w], voiceStates, Idle)
  BY <1>2 DEF CallInvariant
<1>4. \A u : ~Changing(Idle, u) /\ ~Halfway(Idle, u)
  BY DEF Changing, Halfway, Idle
<1>5. ASSUME NEW task, tasks' = [tasks EXCEPT ![q] = task],
             Writes(task, voiceStates', voiceChannel),
             \A u \in Users : voiceStates'[u] # voiceStates[u] =>
                Changing(task, u) /\ Halfway(task, u)
      PROVE  CallInvariant(q)'
  <2>1. tasks'[q] = task
    BY <1>1, <1>5
  <2>2. MembersHaveStates(task, voiceStates', voiceChannel)
    BY <1>3, <1>4, <1>5 DEF MembersHaveStates
  <2>3. \A u \in Users : ~Changing(task, u) => ~Changing(Idle, u) /\ voiceStates'[u] = voiceStates[u]
    BY <1>4, <1>5
  <2>4. \A w \in Watchers : View(w, inbox'[w], shown'[w], voiceStates', task)
    BY <1>2, <1>3, <2>3, StillView
  <2> QED
    BY <1>2, <1>5, <2>1, <2>2, <2>4 DEF CallInvariant
<1>6. ASSUME NEW u \in Users, NEW state \in VoiceState, Join(q, u, state)
      PROVE  CallInvariant(q)'
  <2>1. PICK task : task = [op |-> "join", user |-> u, stage |-> "member", state |-> state]
    OBVIOUS
  <2>2. /\ tasks' = [tasks EXCEPT ![q] = task]
        /\ voiceStates' = [voiceStates EXCEPT ![u] = state]
    BY <1>6, <2>1 DEF Join, To
  <2>3. Writes(task, voiceStates', voiceChannel) /\ Changing(task, u) /\ Halfway(task, u)
    BY <1>1, <2>1, <2>2 DEF Writes, Changing, Halfway
  <2> QED
    BY <1>1, <1>5, <2>2, <2>3
<1>7. ASSUME NEW u \in Users, Leave(q, u)
      PROVE  CallInvariant(q)'
  <2>1. PICK task : task = [op |-> "leave", user |-> u, stage |-> "member"]
    OBVIOUS
  <2>2. /\ tasks' = [tasks EXCEPT ![q] = task]
        /\ voiceStates' = [voiceStates EXCEPT ![u] = NoState]
    BY <1>7, <2>1 DEF Leave, To
  <2>3. Writes(task, voiceStates', voiceChannel) /\ Changing(task, u) /\ Halfway(task, u)
    BY <1>1, <2>1, <2>2 DEF Writes, Changing, Halfway
  <2> QED
    BY <1>1, <1>5, <2>2, <2>3
<1>8. ASSUME NEW u \in Users, NEW flag \in Flags, NEW on \in BOOLEAN, UpdateGet(q, u, flag, on)
      PROVE  CallInvariant(q)'
  <2>1. PICK task : task = [op |-> "update", user |-> u, stage |-> "set",
                            state |-> [voiceStates[u] EXCEPT ![flag] = on]]
    OBVIOUS
  <2>2. tasks' = [tasks EXCEPT ![q] = task] /\ voiceStates[u] # NoState /\ UNCHANGED voiceStates
    BY <1>8, <2>1 DEF UpdateGet, To, redis
  <2>3. Writes(task, voiceStates', voiceChannel)
    BY <2>1, <2>2 DEF Writes
  <2> QED
    BY <1>5, <2>2, <2>3
<1>9. ASSUME NEW w \in Watchers, GetStates(q, w) \/ GetRings(q, w)
      PROVE  CallInvariant(q)'
  <2>1. PICK task : /\ tasks' = [tasks EXCEPT ![q] = task] /\ UNCHANGED voiceStates
                    /\ \/ task = [op |-> "states", user |-> w, found |-> voiceChannel]
                       \/ task = [op |-> "rings", user |-> w, found |-> ringChannel]
    BY <1>9 DEF GetStates, GetRings, To, redis
  <2>2. Writes(task, voiceStates', voiceChannel)
    BY <2>1 DEF Writes
  <2> QED
    BY <1>5, <2>1, <2>2
<1> QED
  BY <1>6, <1>7, <1>8, <1>9 DEF Arrive

\* The stages of a request that tell the clients nothing.
LEMMA SilentStages ==
    ASSUME NEW task \in Task, task.op \in {"join", "leave", "update"},
           NEW stage, NEW new, new = [task EXCEPT !.stage = stage]
    PROVE  /\ new.op = task.op /\ new.user = task.user /\ new.stage = stage
           /\ task.op \in {"join", "update"} => new.state = task.state
<1>1. {"op", "user", "stage"} \subseteq DOMAIN task
  BY DEF Task
<1>2. task.op \in {"join", "update"} => "state" \in DOMAIN task
  BY DEF Task
<1> QED
  BY <1>1, <1>2

\* The writes of a join and of a leave agree once both are made, and every request that has
\* changed a state ends by telling the clients of it.
LEMMA CallStepKeepsCall ==
    ASSUME TypeOK, NEW q \in Requests, CallInvariant(q), CallStep(q)
    PROVE  CallInvariant(q)'
<1>1. PICK task, next : task = tasks[q] /\ next = tasks'[q]
  OBVIOUS
<1>2. /\ tasks \in [Tasks -> Task \cup {Idle}] /\ q \in Tasks
      /\ voiceStates \in [Users -> VoiceState \cup {NoState}]
      /\ task \in Task \cup {Idle}
  BY <1>1 DEF TypeOK, Tasks
<1>3. /\ task.op # "idle" => task \in Task /\ task.user \in Users
      /\ task.op \in {"join", "update"} => task.state \in VoiceState /\ task.state # NoState
  BY <1>2, TaskFields, VoiceAssumption DEF VoiceState
<1>4. /\ Writes(task, voiceStates, voiceChannel)
      /\ MembersHaveStates(task, voiceStates, voiceChannel)
      /\ \A w \in Watchers : View(w, inbox[w], shown[w], voiceStates, task)
  BY <1>1 DEF CallInvariant
<1>5. ASSUME Writes(next, voiceStates', voiceChannel'),
             MembersHaveStates(next, voiceStates', voiceChannel'),
             \A w \in Watchers : View(w, inbox'[w], shown'[w], voiceStates', next)
      PROVE  CallInvariant(q)'
  BY <1>1, <1>5 DEF CallInvariant
<1>6. ASSUME NEW event \in Event, Emit(Users, First, event), task.op \in {"leave", "update"},
             task.stage # "member", Tells(event, task.user, voiceStates[task.user]),
             tasks' = [tasks EXCEPT ![q] = Idle], UNCHANGED <<voiceStates, voiceChannel>>
      PROVE  CallInvariant(q)'
  <2>1. next = Idle
    BY <1>1, <1>2, <1>6
  <2>2. Writes(next, voiceStates, voiceChannel)
    BY <2>1 DEF Writes, Idle
  <2>3. MembersHaveStates(next, voiceStates, voiceChannel)
    BY <1>4, <1>6 DEF MembersHaveStates, Halfway
  <2>4. \A v \in Users : Changing(task, v) => v = task.user
    BY DEF Changing
  <2>5. task.user \in Users
    BY <1>3, <1>6
  <2>6. \A w \in Watchers : View(w, inbox'[w], shown'[w], voiceStates, next)
    BY <1>4, <1>6, <2>4, <2>5, TellView
  <2> QED
    BY <1>5, <1>6, <2>2, <2>3, <2>6
<1>7. ASSUME \/ UNCHANGED <<inbox, shown>>
             \/ \E recipients, first : \E event \in Event :
                   /\ Emit(recipients, first, event)
                   /\ event.kind \in {"dismiss", "rings", "states"}
                   /\ event.kind = "states" =>
                         recipients = {first} /\ \A u \in Users : event.states[u] = voiceStates[u],
             UNCHANGED <<voiceStates, voiceChannel>>,
             \/ task.op \in {"states", "rings"} /\ next = Idle
             \/ task.op = "leave" /\ next.op = "leave" /\ next.user = task.user,
             task.stage # "member" \/ task.op # "leave"
      PROVE  CallInvariant(q)'
  <2>1. Writes(next, voiceStates, voiceChannel)
    BY <1>4, <1>7 DEF Writes, Idle
  <2>2. MembersHaveStates(next, voiceStates, voiceChannel)
    BY <1>4, <1>7 DEF MembersHaveStates, Halfway
  <2>3. \A u \in Users : ~Changing(next, u) => ~Changing(task, u)
    BY <1>7 DEF Changing
  <2>4. CASE UNCHANGED <<inbox, shown>>
    <3>1. \A w \in Watchers : View(w, inbox'[w], shown'[w], voiceStates, next)
      BY <1>4, <2>3, <2>4, StillView
    <3> QED
      BY <1>5, <1>7, <2>1, <2>2, <3>1
  <2>5. CASE ~UNCHANGED <<inbox, shown>>
    <3>a. PICK recipients, first : \E event \in Event :
             /\ Emit(recipients, first, event)
             /\ event.kind \in {"dismiss", "rings", "states"}
             /\ event.kind = "states" =>
                   recipients = {first} /\ \A u \in Users : event.states[u] = voiceStates[u]
      BY <1>7, <2>5
    <3>1. PICK event \in Event :
             /\ Emit(recipients, first, event)
             /\ event.kind \in {"dismiss", "rings", "states"}
             /\ event.kind = "states" =>
                   recipients = {first} /\ \A u \in Users : event.states[u] = voiceStates[u]
      BY <3>a
    <3>2. \A u \in Users : ~Contradicts(event, u, voiceStates[u])
      BY <3>1 DEF Contradicts
    <3>3. \A w \in Watchers : View(w, inbox'[w], shown'[w], voiceStates, next)
      BY <1>4, <2>3, <3>1, <3>2, EmitView
    <3> QED
      BY <1>5, <1>7, <2>1, <2>2, <3>3
  <2> QED
    BY <2>4, <2>5
<1>8. CASE JoinMember(q)
  <2>1. PICK new : new = [task EXCEPT !.stage = "get"]
    OBVIOUS
  <2>2. /\ task.op = "join" /\ task.stage = "member" /\ next = new
        /\ voiceChannel' = voiceChannel \cup {task.user} /\ UNCHANGED <<voiceStates, inbox, shown>>
    BY <1>1, <1>2, <1>8, <2>1 DEF JoinMember, At, clients
  <2>3. next.op = "join" /\ next.user = task.user /\ next.state = task.state
    BY <1>3, <2>1, <2>2, SilentStages
  <2>4. Writes(next, voiceStates, voiceChannel')
    BY <1>4, <2>2, <2>3 DEF Writes
  <2>5. MembersHaveStates(next, voiceStates, voiceChannel')
    BY <1>3, <1>4, <2>2 DEF MembersHaveStates, Halfway, Writes
  <2>6. \A u \in Users : ~Changing(next, u) => ~Changing(task, u)
    BY <2>2, <2>3 DEF Changing
  <2>7. \A w \in Watchers : View(w, inbox'[w], shown'[w], voiceStates, next)
    BY <1>4, <2>2, <2>6, StillView
  <2> QED
    BY <1>5, <2>2, <2>4, <2>5, <2>7
<1>9. CASE LeaveMember(q)
  <2>1. PICK new : new = [task EXCEPT !.stage = "members"]
    OBVIOUS
  <2>2. /\ task.op = "leave" /\ task.stage = "member" /\ next = new
        /\ voiceChannel' = voiceChannel \ {task.user} /\ UNCHANGED <<voiceStates, inbox, shown>>
    BY <1>1, <1>2, <1>9, <2>1 DEF LeaveMember, At, clients
  <2>3. next.op = "leave" /\ next.user = task.user
    BY <1>3, <2>1, <2>2, SilentStages
  <2>4. Writes(next, voiceStates, voiceChannel')
    BY <1>4, <2>2, <2>3 DEF Writes
  <2>5. MembersHaveStates(next, voiceStates, voiceChannel')
    BY <1>4, <2>2 DEF MembersHaveStates, Halfway, Writes
  <2>6. \A u \in Users : ~Changing(next, u) => ~Changing(task, u)
    BY <2>2, <2>3 DEF Changing
  <2>7. \A w \in Watchers : View(w, inbox'[w], shown'[w], voiceStates, next)
    BY <1>4, <2>2, <2>6, StillView
  <2> QED
    BY <1>5, <2>2, <2>4, <2>5, <2>7
<1>10. CASE EmitLeave(q) /\ task.op = "leave" /\ task.stage # "member" /\ Finish(q)
            /\ UNCHANGED <<voiceStates, voiceChannel>>
  <2>1. PICK event : event = [kind |-> "leave", user |-> task.user]
    OBVIOUS
  <2>2. Emit(Users, First, event) /\ tasks' = [tasks EXCEPT ![q] = Idle]
    BY <1>1, <1>10, <2>1 DEF EmitLeave, Finish, To
  <2>3. event \in Event /\ Tells(event, task.user, voiceStates[task.user])
    BY <1>3, <1>4, <1>10, <2>1 DEF Event, Tells, Writes
  <2> QED
    BY <1>6, <1>10, <2>2, <2>3
<1>11. CASE LeaveMembers(q)
  <2>1. CASE voiceChannel = {}
    <3>1. PICK new : new = [task EXCEPT !.stage = "rings"]
      OBVIOUS
    <3>2. /\ task.op = "leave" /\ task.stage = "members" /\ next = new
          /\ UNCHANGED <<voiceStates, voiceChannel, inbox, shown>>
      BY <1>1, <1>2, <1>11, <2>1, <3>1 DEF LeaveMembers, At, clients, redis
    <3>3. next.op = "leave" /\ next.user = task.user
      BY <1>3, <3>1, <3>2, SilentStages
    <3> QED
      BY <1>7, <3>2, <3>3
  <2>2. CASE voiceChannel # {}
    BY <1>1, <1>10, <1>11, <2>2 DEF LeaveMembers, At, redis
  <2> QED
    BY <2>1, <2>2
<1>12. CASE ClearRings(q)
  <2>1. /\ task.op = "leave" /\ task.stage = "rings"
        /\ next = [op |-> "leave", user |-> task.user, stage |-> "clear", todo |-> ringChannel]
        /\ UNCHANGED <<voiceStates, voiceChannel, inbox, shown>>
    BY <1>1, <1>2, <1>12 DEF ClearRings, At, To, clients, redis
  <2>2. next.op = "leave" /\ next.user = task.user
    BY <2>1
  <2> QED
    BY <1>7, <2>1, <2>2
<1>13. ASSUME NEW u \in Users, ClearRing(q, u)
       PROVE  CallInvariant(q)'
  <2>1. PICK new : new = [task EXCEPT !.todo = task.todo \ {u}]
    OBVIOUS
  <2>2. /\ task.op = "leave" /\ task.stage = "clear" /\ next = new
        /\ UNCHANGED <<voiceStates, voiceChannel>>
    BY <1>1, <1>2, <1>13, <2>1 DEF ClearRing, At, redis
  <2>3. {"op", "user"} \subseteq DOMAIN task
    BY <1>3, <2>2 DEF Task
  <2>4. next.op = "leave" /\ next.user = task.user
    BY <2>1, <2>2, <2>3
  <2>5. PICK event : event = [kind |-> "dismiss", user |-> u]
    OBVIOUS
  <2>6. event \in Event /\ event.kind = "dismiss"
    BY <2>5 DEF Event
  <2>7. UNCHANGED <<inbox, shown>> \/ Emit({u, ringKeys[u]}, u, event)
    BY <1>13, <2>5 DEF ClearRing, clients
  <2> QED
    BY <1>7, <2>2, <2>4, <2>6, <2>7
<1>14. CASE ClearChannel(q)
  BY <1>1, <1>10, <1>14 DEF ClearChannel, At
<1>15. CASE UpdateSet(q)
  <2>1. PICK new : new = [task EXCEPT !.stage = "emit"]
    OBVIOUS
  <2>2. /\ task.op = "update" /\ task.stage = "set" /\ next = new
        /\ voiceStates' = [voiceStates EXCEPT ![task.user] = task.state]
        /\ UNCHANGED <<voiceChannel, inbox, shown>>
    BY <1>1, <1>2, <1>15, <2>1 DEF UpdateSet, At, clients
  <2>3. /\ next.op = "update" /\ next.user = task.user /\ next.stage = "emit"
        /\ next.state = task.state
    BY <1>3, <2>1, <2>2, SilentStages
  <2>4. Writes(next, voiceStates', voiceChannel)
    BY <1>2, <1>3, <2>2, <2>3 DEF Writes
  <2>5. MembersHaveStates(next, voiceStates', voiceChannel)
    BY <1>2, <1>3, <1>4, <2>2 DEF MembersHaveStates, Halfway, Writes
  <2>6. \A u \in Users : ~Changing(next, u) =>
           ~Changing(task, u) /\ voiceStates'[u] = voiceStates[u]
    BY <1>2, <2>2, <2>3 DEF Changing
  <2>7. ASSUME NEW w \in Watchers
        PROVE  View(w, inbox'[w], shown'[w], voiceStates', next)
    <3>1. UNCHANGED <<inbox, shown>> /\ View(w, inbox[w], shown[w], voiceStates, task)
      BY <1>4, <2>2
    <3> QED
      BY <2>6, <3>1, StillView
  <2> QED
    BY <1>5, <2>2, <2>4, <2>5, <2>7
<1>16. CASE UpdateEmit(q)
  <2>1. PICK event : event = [kind |-> "state", user |-> task.user, state |-> task.state]
    OBVIOUS
  <2>2. /\ task.op = "update" /\ task.stage = "emit" /\ Emit(Users, First, event)
        /\ tasks' = [tasks EXCEPT ![q] = Idle] /\ UNCHANGED <<voiceStates, voiceChannel>>
    BY <1>1, <1>16, <2>1 DEF UpdateEmit, At, Finish, To, redis
  <2>3. event \in Event /\ Tells(event, task.user, voiceStates[task.user])
    BY <1>3, <1>4, <2>1, <2>2 DEF Event, Tells, Writes
  <2> QED
    BY <1>6, <2>2, <2>3
<1>17. CASE SendStates(q)
  <2>1. PICK states, event :
           /\ states = [u \in Users |-> IF u \in task.found THEN voiceStates[u] ELSE NoState]
           /\ event = [kind |-> "states", states |-> states]
    OBVIOUS
  <2>2. /\ task.op = "states" /\ Emit({task.user}, task.user, event) /\ next = Idle
        /\ UNCHANGED <<voiceStates, voiceChannel>>
    BY <1>1, <1>2, <1>17, <2>1 DEF SendStates, Finish, To, redis
  <2>3. states \in [Users -> VoiceState \cup {NoState}]
    BY <1>2, <2>1
  <2>4. event \in Event /\ event.kind = "states" /\ event.states = states
    BY <2>1, <2>3 DEF Event
  <2>5. \A u \in Users : states[u] = voiceStates[u]
    BY <1>4, <2>1, <2>2 DEF Writes, MembersHaveStates, Halfway
  <2> QED
    BY <1>7, <2>2, <2>4, <2>5
<1>18. CASE SendRings(q)
  <2>1. PICK rung, event : /\ rung = {u \in task.found : ringKeys[u] # NoRing}
                           /\ event = [kind |-> "rings", users |-> rung]
    OBVIOUS
  <2>2. /\ task.op = "rings" /\ Emit({task.user}, task.user, event) /\ next = Idle
        /\ UNCHANGED <<voiceStates, voiceChannel>>
    BY <1>1, <1>2, <1>18, <2>1 DEF SendRings, Finish, To, redis
  <2>3. task.found \in SUBSET Users
    BY <1>2, <2>2, TaskFields
  <2>4. event \in Event /\ event.kind = "rings"
    BY <2>1, <2>3 DEF Event
  <2> QED
    BY <1>7, <2>2, <2>4
<1> QED
  BY <1>8, <1>9, <1>11, <1>12, <1>13, <1>14, <1>15, <1>16, <1>17, <1>18 DEF CallStep

\* A client that receives an event comes closer to what the call is.
LEMMA ReceiveKeepsCall ==
    ASSUME TypeOK, NEW q, CallInvariant(q),
           NEW v \in Watchers, NEW i \in 1..Len(inbox[v]), Receive(v, i)
    PROVE  CallInvariant(q)'
<1>1. /\ inbox \in [Watchers -> Seq(Item)]
      /\ shown \in [Watchers -> [Users -> VoiceState \cup {NoState}]]
  BY DEF TypeOK, Item
<1>2. /\ UNCHANGED <<voiceStates, voiceChannel, tasks>>
      /\ inbox' = [inbox EXCEPT ![v] = RemoveAt(inbox[v], i)]
      /\ shown' = [shown EXCEPT ![v] = StatesAfter(inbox[v][i].event, shown[v])]
      /\ (i = 1 \/ Overtaking(inbox[v], i))
  BY DEF Receive, Overtakes, Overtaking, redis
<1>3. PICK task : task = tasks[q]
  OBVIOUS
<1>4. ASSUME NEW w \in Watchers
      PROVE  View(w, inbox'[w], shown'[w], voiceStates, task)
  <2>1. View(w, inbox[w], shown[w], voiceStates, task)
    BY <1>3 DEF CallInvariant
  <2>2. CASE w = v
    <3>1. PICK r : r = RemoveAt(inbox[v], i)
      OBVIOUS
    <3>2. View(v, r, StatesAfter(inbox[v][i].event, shown[v]), voiceStates, task)
      BY <1>1, <1>2, <2>1, <2>2, <3>1, ViewReceive
    <3> QED
      BY <1>1, <1>2, <2>2, <3>1, <3>2
  <2>3. CASE w # v
    BY <1>1, <1>2, <2>1, <2>3
  <2> QED
    BY <2>2, <2>3
<1> QED
  BY <1>2, <1>3, <1>4 DEF CallInvariant

\* With one message handled at a time, the call stays as the clients will show it.
LEMMA CallInvariantHolds ==
    ASSUME NEW q, Requests = {q}
    PROVE  Spec => []CallInvariant(q)
<1>1. Init => CallInvariant(q)
  BY EmptySeq DEF Init, CallInvariant, Writes, MembersHaveStates, View, CatchesUp, Halfway,
                  Idle, Tasks
<1>2. RingInvariant /\ CallInvariant(q) /\ [Next]_vars => CallInvariant(q)'
  <2> SUFFICES ASSUME RingInvariant, CallInvariant(q), [Next]_vars
               PROVE  CallInvariant(q)'
    OBVIOUS
  <2>1. Callers \subseteq Users /\ TypeOK
    BY VoiceAssumption DEF RingInvariant
  <2>2. CASE \E u \in Users : Ring(u) \/ Timeout(u)
    BY <2>1, <2>2, RingLeavesCall
  <2>3. CASE Arrive(q) \/ CallStep(q)
    BY <2>1, <2>3, ArriveKeepsCall, CallStepKeepsCall
  <2>4. CASE \E t \in Tasks : DismissStep(t)
    BY <2>4, DismissKeepsCall
  <2>5. CASE \E w \in Watchers : \E i \in 1..Len(inbox[w]) : Receive(w, i)
    BY <2>1, <2>5, ReceiveKeepsCall
  <2>6. CASE UNCHANGED vars
    BY <2>6 DEF CallInvariant, vars, redis, clients
  <2> QED
    BY <2>1, <2>2, <2>3, <2>4, <2>5, <2>6 DEF Next
<1> QED
  BY <1>1, <1>2, RingInvariantHolds, PTL DEF Spec

\* With one message handled at a time, the users in the call's list and the users with a
\* voice state are the same whenever nothing is under way (channels.service.ts:798-799,
\* 836-837), however joins, leaves, updates and rings follow each other.
THEOREM CallStaysConsistent ==
    ASSUME NEW q, Requests = {q} PROVE Spec => []CallIsConsistent
<1>1. CallInvariant(q) => CallIsConsistent
  BY DEF CallInvariant, CallIsConsistent, AtRest, MembersHaveStates, Halfway, Tasks, Idle
<1> QED
  BY <1>1, CallInvariantHolds, PTL

\* With one message handled at a time, a client that has received everything shows the call as
\* it is: a snapshot that overtakes the events of the call agrees with the last of them, and
\* nothing overtakes that one (channels.service.ts:763-858, ws.gateway.ts).
THEOREM ClientsComeToShowTheCall ==
    ASSUME NEW q, Requests = {q} PROVE Spec => []ClientsShowTheCall
<1>1. TypeOK /\ CallInvariant(q) => ClientsShowTheCall
  <2> SUFFICES ASSUME TypeOK, CallInvariant(q), AtRest, NEW w \in Watchers
               PROVE  shown[w] = voiceStates
    BY DEF ClientsShowTheCall, TypeOK
  <2>1. tasks[q] = Idle /\ inbox[w] = << >>
    BY DEF AtRest, Tasks, TypeOK
  <2>2. View(w, << >>, shown[w], voiceStates, Idle)
    BY <2>1 DEF CallInvariant
  <2>3. \A u \in Users : shown[w][u] = voiceStates[u]
    BY <2>2, EmptySeq DEF View, CatchesUp, Changing, Idle
  <2> QED
    BY <2>3 DEF TypeOK
<1> QED
  BY <1>1, CallInvariantHolds, TypeCorrect, PTL
=============================================================================
